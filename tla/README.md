# A TLA+ model of Text-2-SQL-Generator

The program turns a question into SQL with a local LLM, validates the SQL, runs
it read-only and records what happened. This directory models it: the service
that owns the pipeline and its state, each of the stores it keeps, the validator
and the executor, the stream route, the front end's session, the configuration
and the runner. TLC checks the models on small instances; TLAPS proves the
theorems in the `*Proofs` modules for all instances.

Paths below are relative to the repository.

## The system

| Component | State | Operations | Hard behaviour |
|---|---|---|---|
| Pipeline `src/services/text2sql_service.py` | metrics, result cache, conversations, global and per-user history, schema cache | `answer`, `preview`, `clarify`, `execute_approved`, readers | retries, five exits with different bookkeeping, exceptions that escape half way, threads |
| Rate limiter `_check_rate_limit` | user -> list of timestamps, bounded number of users | one call per `answer` | check-then-act on shared state, eviction while others iterate |
| Result cache `_cleanup_expired_cache`, `_upsert_cache` | ordered key -> outcome and time | expire, look up, upsert, evict | iteration and pop races, keys joined from free text |
| Histories | lists, bounded by slicing | append, read, export | append / slice / reassign races |
| Schema cache `get_allowed_schema` | path -> mtime, schema | look up, reload | stale entries, no mtime for URLs |
| Audit log `src/security/audit.py` | a JSONL file, the only durable state | `record`, `recent` | gaps, torn lines, restart |
| Validator `src/security/validator.py` | none | `validate_sql` | filters joined by AND without parentheses, limit clamp, re-validation of its own output |
| Executor, connectors, schema reader `src/db/` | a connection per call | `execute_readonly`, `explain_readonly`, `get_schema` | timeouts, errors caught or not, truncation |
| LLM clients `src/llm/` | none | `generate_sql` | failure, timeout |
| Routes `src/api/routes.py` | an event queue per stream | one handler per endpoint | event loop against threads, event order, lost client |
| Approval session `streamlit_app.py` | session: clarification, preview, pending approval, result | submit, apply, approve | stale approvals, runs cut off by an interaction, lost responses |
| Saved queries `streamlit_app.py` | a list per tab, one file | load, save | tabs overwrite each other, torn file |
| Configuration `src/core/config.py` | settings | `load_config` | precedence |
| Runner `src/dev_runner.py` | two child processes | start, shut down | orphans |

How they interact. Every FastAPI handler is `async def` and calls the service
without awaiting, so the requests the event loop serves run one after another,
each to its end. `POST /query/stream` is the exception: it starts a daemon
thread that runs `answer()` and posts progress events to a queue of the loop.
So the service is called by the loop and by any number of threads, and has no
lock. The process keeps everything in memory except the audit file. The front
end calls clarify, preview, and then either the stream endpoint or the approved
endpoint with the previewed SQL.

What makes each part correct:

* pipeline: only validated SQL runs; an outcome of the pipeline is audited, once,
  before the caller sees it; counters, histories, conversations and cache agree
  with the audit file; prompts never cross users, and cached answers do not as
  long as texts keep the cache key apart; every call ends;
* limiter: no more than the limit in any window, no unjustified refusal, a
  bounded user map, a sweep that ends;
* cache: one entry per key, least recently used out first, nothing past its TTL;
* histories: the youngest entries, in order;
* schema cache: a schema at least as new as the last change the mtime shows;
* audit log: whole lines only, readable after a crash;
* validator: its output satisfies its own checks; the limit holds, and the row
  filters do where no OR stands at the top of a condition;
* preview and approval: the detour gives the answer of the direct way, and what
  the filters guarantee holds whatever changed in between;
* executor: the connection is closed on every path, the result says what
  happened, and no statement runs for ever;
* stream route: events in order, `done` last and once;
* approval session: what is executed was previewed with its question, once;
* saved queries: a tab that is alone loses nothing;
* configuration: the last source that gives a field wins;
* runner: no orphans, failures reported.

`PROJECT.json` lists the components, the hazards at their lines, and which
property covers which.

## Modules

| Module | Models |
|---|---|
| `QueryService` | the pipeline, for the loop and any number of stream threads |
| `RateLimiter` | `_check_rate_limit`, statement by statement |
| `SlidingWindow` | what the limiter promises calls that come one at a time |
| `ResultCache` | the sweep, the lookup and the upsert of `self.cache` |
| `LruCache` | what the cache promises calls that come one at a time |
| `HistoryStore` | `self.history`, `self.user_histories`, `self.conversation_history` |
| `RecentLog` | what the service promises of `self.history` under any interleaving |
| `Slices` | `items[-limit:]`, used by the stores |
| `SchemaCache` | `get_allowed_schema` and `get_schema`, while the database changes |
| `AuditLog` | the JSONL file: `record` by several threads, and `recent` |
| `Validator` | `validate_sql` as a function from statements to statements |
| `PreviewApproval` | a statement's two ways to the database, `answer` and `preview` / `execute_approved` |
| `Executor` | one connection, from `create_connection` to `close` |
| `StreamRoute` | `/query/stream`: thread, loop, queue, generator, client |
| `ApprovalSession` | a browser session of the front end |
| `SavedQueries` | the saved queries of several tabs, and their file |
| `Config` | `load_config` |
| `DevRunner` | `main` of the runner, its children and signals |
| `MCQueryService` | texts for TLC, among them two pairs of user and question whose keys are equal |
| `MCRateLimiter` | which users TLC's calls are for |
| `MCPreviewApproval` | a small shop: schemas, statements, filters, settings |
| `MCMemory` | `ResultCache` (once for overlapping calls, once, as `Alone`, for calls that come one at a time, with room for `AloneEntries`), `HistoryStore`, `SchemaCache`, `AuditLog`, side by side |
| `MCBrowser` | `ApprovalSession`, `SavedQueries`, `StreamRoute`, side by side |
| `MCServer` | `PreviewApproval`, `Executor` (`Exec`), `StreamRoute` (`Stream`), `Config` (`Load`), `DevRunner` (`Run`), side by side |
| `SlicesProofs` | lemmas on slices, filters and images of lists, which the other proofs cite |
| `QueryServiceProofs` | theorems about the pipeline |
| `RateLimiterProofs` | theorems about the limiter, and that it implements `SlidingWindow` |
| `HistoryProofs` | theorems about the histories, and that they implement `RecentLog` |
| `StreamProofs` | theorems about the stream route |
| `MemoryProofs` | theorems about the stores, as `MCMemory` has them |
| `BrowserProofs` | theorems about the session, the saved queries and the streams, as `MCBrowser` has them |
| `ServerProofs` | theorems about the executor, the configuration, the runner and the approval, as `MCServer` has them |

`MCMemory`, `MCBrowser` and `MCServer` put components that share no variable
side by side. Since no step of one can enable, disable or change a step of
another, their product shows nothing that each alone does not; `part`, chosen at
the start, says which of them is used, and the others stay where they begin. The
state space is the sum of theirs instead of the product. The properties of the
parts are restated there under the names the runs check.

What does interact is modelled together: `QueryService` has the pipeline with
its bookkeeping in every store, at the grain of one operation per store; the
modules of the stores have the inside of those operations. `PreviewApproval`
extends `Validator`, and composes it with the database that changes and the row
cap of the executor.

### QueryService

`frame[w]` is the local state of the call a worker runs: its position `pc`, the
request (`job`), the attempt, the conversation turns in the prompt, what the
validator says of the current SQL, the outcome so far and the metrics still to
be recorded. `memory` holds the service's attributes, `audit` the file.

| Code | Model |
|---|---|
| a handler calls the service | `Start` |
| `_record_metric`: `get`, then assignment | `MetricRead`, `MetricStore` |
| `_needs_clarification` | `AskBack`, `Unambiguous` |
| `_check_rate_limit` | `Admit`, `Refuse` (any verdict; `RateLimiter` has the real one) |
| `_cleanup_expired_cache` and lookup | `Lookup` (any set of entries may have expired) |
| `get_allowed_schema`, `_build_prompt_question` | `LoadSchema`, `Contexts` |
| `generate_sql` | `Generate`, `GenerateFails` |
| `validate_sql` | `Accept`, `Reject` |
| `explain_readonly` | `Explain` |
| `execute_readonly` | `Execute`, `ExecuteFails` |
| `continue` of the retry loop | `Retry` |
| `AuditLogger.record` | `WriteAudit` |
| conversation, `_append_history_entry`, `_upsert_cache` | `Remember`, `AppendHistory`, `UpsertCache` |
| `return outcome` | `Return` |
| an exception nothing catches | `Raise`, where `CanRaise` |
| the process dies and starts again | `Crash` |

The order of these steps is the code's, exit by exit: a blocked attempt records
`validation_failures` before it retries and `queries_blocked` only when it gives
up; `execute_approved` records both; a success is counted after the statement
ran and before its audit line; an approved statement enters the history only
when it succeeded, an answer whenever there was SQL.

Data is abstracted. SQL is `valid` or `invalid`; rows, summaries, redaction,
explanations and confidence do not influence any state. A cache entry is the
call whose outcome it holds. Questions, user names and database names are
texts, sequences of characters, because the key of the cache joins them with
`::` (`Key`, `text2sql_service.py:697`), and texts that hold `::` themselves
may make the keys of different calls equal: "sales::x" asked by "alice", and
"sales" asked by "x::alice". `CacheProvenance` therefore has two parts. A reply
from the cache is the outcome of a call with the same key, whatever the texts;
and for a call whose texts keep the key readable (`Unmistakable`: a colon in the
question has another character after it, one in the user name on both sides, one
in the database name before it) that call was the same question of the same user
on the same database, whatever the other users call themselves and ask. A question is taken after `strip().lower()`, a user after
`_normalize_user_id`.

Grain. One action is one operation of a component. The metric dictionary is
finer because its lost updates are what two properties are about. Inside the
other writes (`Remember`, `AppendHistory`, `UpsertCache`) a thread switch may
lose entries; the properties checked with threads only say that what is there
is right, and the equation between memory and audit file is checked, and true,
for the loop alone.

### RateLimiter and SlidingWindow

CPython switches threads when a call has returned or a loop turns, so
`_check_rate_limit` is cut after `len`, `iter`, `next`, `pop`, `monotonic`,
`get`, the comprehension and `append`. A timestamp is the call that took it, a
list is named after the call that built it, so the aliasing of the code is kept:
the list a call stored is the one it appends to, and a concurrent comprehension
sees the append when it comes in time. The dictionary keeps its insertion order
(`ahead`), which is the order of eviction. `parallel`, chosen at the start, is
the number of calls that may be under way: one when only the event loop serves
`answer()`, `MaxActive` with stream threads. `Requests` says which user each call
is for, one function for each distribution of users over calls.

`SlidingWindow` judges a call in one step: admitted if fewer than `Limit`
admissions of its user lie in the window before it, refused otherwise, where the
admissions of a user may be forgotten (eviction). `RateLimiter` implements it
when calls do not overlap: a call is judged when it is refused (`Store`) or
appends its timestamp (`AppendNow`).

### ResultCache and LruCache

A call is cut after `items`, each `pop`, `deepcopy`, `len` and `popitem`. The
dictionary is `order` and `slot`; an entry is named after the call that made it,
so that `at[m]` is its timestamp. `held[c]` is the entry a call has popped (700)
and will store again (702). An iteration over the dictionary fails once a key
was added or removed behind its back (`disturbed`, `ScanFails`), an eviction
fails on an empty one (`Evict`). The pipeline between lookup and upsert is one
step that succeeds or not (`Succeed`, `Fail`).

`LruCache` keeps the calls whose answers are cached, least recently used first.
Under the refinement mapping an entry in a call's hands is the youngest already,
and an entry stored but not yet measured is cut to the bound.

Overlapping calls may end with more entries than the bound, because a hit goes
back without an eviction: `SizeBound` is the bound that does hold.

### HistoryStore and RecentLog

`self.history` is read through the attribute every time; the lists of a user are
looked up once and then held by the call, while another call may put a slice in
their place. So the lists of users are objects in `heap`, named after the call
and the place that made them, and `mine[c]` is a reference. The actions are the
statements of `_append_history_entry` and lines 849 to 851, cut after `append`,
`len`, `setdefault` and the lookup. `log` and `turns` remember all that was
appended; `mixed` the users two of whose calls overlapped.

`self.history` implements `RecentLog` under any interleaving: the mapping takes
the youngest entries of what is there, and the slices another call makes in
between cut no more than it would. The lists of a user are exact windows as long
as that user's calls do not overlap, whatever others do (`UsersDoNotInterfere`).

### SchemaCache

A table is known by the number of its changes. `Stat` takes the modification
time, `ReadTables` the list of tables, `ReadColumns` the columns of each; `Store`
puts the schema under the time that was taken first. Another program may change
the database between any two of these steps. Assumed: a change gives the file
another time, which holds up to the clock of the file system. A URL has no time
(`HasMtime = FALSE`), and the run leaves it out: its schema is never read again.

### AuditLog

The file is a sequence of pieces: whole lines, heads without a line end, and
tails. `record` writes a line at once (`Write`), or a part of it and then the
rest (`WriteShort`, `WriteRest`), which a full disk (`Fail`) or a death (`Crash`)
prevents. Each thread has its own file object in append mode, so pieces never
overwrite each other. `Recent` is `recent()` with the exception of `json.loads`.

### Validator and PreviewApproval

`Validator` has a statement as a record: its form, its tables with their
aliases, its columns with their qualifiers, the aliases of its select list, its
WHERE, its LIMIT, and whether its text holds a forbidden keyword. A WHERE is
what its text means to SQL: a sequence of alternatives joined by OR, each a set
of conditions joined by AND; an OR in parentheses is inside a condition.
`Acceptable` is the conjunction of the checks in `validate_sql`; `InjectFilters`
and `EnforceLimit` are its two rewrites. The code joins the filters with each
other and with the statement's WHERE by `exp.And(...)`, which puts no
parentheses around an OR, so the text of `a OR b` with filter `f` reads
`a OR b AND f`; `AndText` is that join: the last alternative of the left side is
united with the first of the right, and the others stay as they are. Left to the
parser, and out of the records: subqueries, and an alias that equals the name of
another table.

`PreviewApproval` takes any statement of a small language to the database: at
once (`answer`), or over `preview`, `explain_readonly`, the page and
`execute_approved`, which validates the shown statement again. The database may
change in between (`Change`). Whether the database accepts a statement
(`Bindings`, `Runs`) is modelled by SQL's rules for names and marked external.
`Entails` compares two conditions by their rows: each alternative of the one has
all the conditions of some alternative of the other. `SameAnswer` asks for
`Entails` both ways and for the same number of rows, with any OR anywhere: a
second injection adds nothing to `a OR b AND f`. It says nothing of
`truncated`, in which the two ways do differ when the second validation clamps a
limit. `FiltersKept` is what the filters guarantee: if no filter that applies has
an OR at its top, the statement keeps its own conditions; if the statement has
none either, every row satisfies the filter of every table it read, under
whatever alias. Without these conditions it is false (`FiltersHold`, below).

### Executor

The call starts with any target, with and without the driver; `Connect`,
`SetUp`, `Send`, `Found`, `Fetch`, `Close` are the lines of `execute_readonly` and
`explain_readonly`. `limit` is when the database aborts the statement, and each
backend has its own mechanism: SQLite asks the progress handler, whose deadline
counts from the start of the call; a server has the session's time limit, which
counts from the statement. `explain_readonly` installs no handler, but EXPLAIN
does not run its statement. MySQL's words for a timeout are none the code looks
for, so there a timeout is reported as a failed query. The other way round,
`execute_readonly` takes any error whose text has one of its words for a timeout
(`ByText`); that text is the database's, so `named`, which remembers such an
error, is any Boolean. An exception of the connection itself leaves the function as it is (`ConnectRaises`).

### StreamRoute

The thread emits a path through the stages of `answer()` (`Steps` has the
retries), then the outcome or an error, then `done`; each goes to the loop with
`call_soon_threadsafe`. `ready` is the loop's queue of callbacks: a callback puts
one event or continues one generator, and the loop runs the oldest. A handler
that blocks the loop for a whole query is time between two callbacks. A client
may leave at any moment (`Leave`); the thread does not learn of it. A row that
`json.dumps` refuses ends the generator (`Break`).

### ApprovalSession and SavedQueries

Streamlit runs the script from top to bottom after each interaction, and a new
interaction ends a run at its next access to the session state or the page.
`script` is what a run has still to do: requests, and writes to the session
state one by one, so that `Interact` may cut it between any two of them. A
request may fail (`RequestFails`), or be executed and its response lost
(`ResponseIsLost`). A preview is named by its number, which stands for its SQL.

`SavedQueries` has one list per tab and one file. `write_text` empties the file
and then writes; two tabs may do so at once, and the process may die in between
(`Crash`). What cannot be read is taken for no items.

### Config and DevRunner

`Config` knows a value by its source. The settings library resolves defaults,
`.env` and environment whatever the case of a name; then `Merge` looks at each
key of the YAML file, for which `load_config` reads `.env` a second time, in
capitals only. The conversion of values is the library's.

`DevRunner` has two children, the poll loop with its short-circuit (`Poll` does
not look at the second child when the first has exited), SIGINT and SIGTERM
between any two steps (`Signal`), and `finally`. A signal before the handlers are
installed, or a failing `Popen`, ends the runner and nothing else (`Die`). The
children are told to exit and not waited for.

## Runs

| Run | Instance | Shows |
|---|---|---|
| `pipeline_loop` | no stream, 2 users, 3 calls, 1 retry, 1 crash, history of 2, conversation of 1, cache of 1 | `RanIsValidated`, `MetricsBalance`, `MemoryMirrorsAudit` |
| `pipeline_threads` | loop and 1 stream, 2 users and 2 questions two of whose keys are equal, 2 calls, 1 retry, 1 crash | `TypeOK`, `ReplyIsAudited`, `HistoryIsAudited`, `ContextIsOwn`, `CacheProvenance`, `MetricsNeverOvercount` |
| `pipeline_liveness` | loop and 1 stream, 1 user, 2 calls, 1 retry | `CallsEnd` |
| `limiter` | 4 calls, 2 at a time or one at a time, up to 3 users, room for 1, limit 2, window 2, clock to 2 | `TypeOK`, `TrackedBound`, `RefusalJustified`, `CallsEnd`; one at a time `WindowBound`, `ImplementsWindow` |
| `memory`, cache | 3 calls, 2 at a time, 3 keys, room for 1, TTL 1, clock to 2; and one at a time with room for 2 (`AloneEntries`) | `HitIsFresh`, `SizeBound`, `AloneIsLru`, `TypesOK` |
| `memory`, histories | 3 calls, 2 at a time, 2 users, both limits 1 | `BoundedAtRest`, `UsersDoNotInterfere`, `ImplementsRecentLog`, `TypesOK` |
| `memory`, schema | 3 calls, 2 tables, 2 changes | `SchemaIsCurrent` |
| `memory`, audit file | 5 records, 2 of them torn, `recent(2)` | `AuditIsReadable` |
| `browser`, session | 2 questions, 3 previews, 1 fault | `ExecutedWasPreviewed`, `ExecutedOnce`, `TypesOK` |
| `browser`, saved queries | 2 tabs, 2 names, 4 saves | `SavesAreKept` |
| `browser`, streams | 2 clients on one loop, no retry | `HeardInOrder`, `TypesOK` |
| `server`, approval | 4 schemas, 377 statements, 8 sets of filters, with and without OR, 2 settings, 0, 2 or 4 rows, 1 change | `ApprovalAgrees`, `FiltersKept` |
| `server`, executor | every target, timeout 2, 2 of at most 4 rows, clock to 6 | `NothingLeftOpen`, `OutcomeIsTrue`, `CallEnds` |
| `server`, stream | 1 client, 2 retries | `EndsAsItSays`, `StreamsEnd` |
| `server`, configuration | 2 fields and a key that is none | `LastCapitalWins` |
| `server`, runner | 2 children | `RunnerEndsWell`, `OneDownAllDown` |
| `success_unaudited` | 2 calls of the loop | violates `SuccessIsAudited` |
| `error_unaudited` | 1 call of the loop | violates `ErrorIsAudited` |
| `total_lost` | loop and 1 stream | violates `TotalIsHandled` |
| `stale_approval` | 2 questions, 2 previews, no fault | violates `ShownIsApproved` |
| `filter_bypassed` | the shop of `server`, filters without OR, no change | violates `FiltersHold` |

A name that ends in a plural or joins two ideas is a conjunction of properties
the component's module states one by one: `SchemaIsCurrent` of `NotOutdated` and
`CurrentIsExact`, `AuditIsReadable` of `RecentIsYoungest` and `DamageIsBounded`,
`SavesAreKept` of `NamesUnique`, `LastSaverWins` and `OneTabKeepsAll`,
`ApprovalAgrees` of `SameAnswer` and `UnfilteredCanBeApproved`, `OutcomeIsTrue` of
`ResultIsHonest` and `TimeoutIsDue`, `RunnerEndsWell` of `NoOrphans` and
`FailureIsReported`, `AloneIsLru` of the refinement and `LoopNeverFails`.

Bounds. `MaxCalls`, `MaxCrashes`, `MaxTime`, `MaxChanges`, `MaxPreviews`,
`MaxFaults`, `MaxSaves`, `MaxShort`, `MaxBacklog`, `MaxSize` and `MaxWait`, and the
sets `Asked` (who asks what) and `Requests` (which user a call is for), bound
behaviours or data; everything else is a parameter of the program.

* Pipeline: three calls let a third find what a first left and a second
  overwrote (cache of one, history of two); two are enough for two workers to
  meet in any pair of steps. One retry gives a first and a last attempt. Two
  questions and two users are enough for a key that two pairs share and for one
  of its own; one database, since its name is joined as the user's is.
* Limiter: the bound on users is one, so that every second user evicts; with two
  active calls it is exceeded by one, which is what `TrackedBound` allows. Three
  calls of one user pass its limit of two, three users meet the bound. With
  a window of two and a clock to two an admission at 0 expires exactly at the
  boundary, while one at 1 is alive. The theorems have any clock, calls and users.
* Cache: three keys and room for one let an entry go back after another key has
  filled its place; TTL 1 and a clock to 2 let an entry expire in a call's
  hands. Histories: limits of one make every second call cut.
* Schema: two changes fall before, between and after the reads of two tables.
  Audit file: five records are more than `recent` shows and the two torn ones
  damage together.
* Session: with three previews a third is shown while the approval of a first or
  second is pending. Saved queries: four saves overwrite each of two names.
* Stream: two clients compete for the loop; two retries make an attempt that is
  neither first nor last. The backlog of 20 is above what a thread can emit.
* Executor: 4 rows against a maximum of 2 are beyond `fetchmany(3)`; the clock
  passes every limit.

The violated properties quote the repository:

* `src/security/audit.py:4`, "Every call into the pipeline is recorded here":
  a cached answer is not;
* `src/services/text2sql_service.py:6`, "every attempt ... is written to the
  audit trail, regardless of outcome": a call that an exception of the schema
  lookup or of the connection ends is not;
* `src/services/text2sql_service.py:160`, "Total number of queries handled":
  concurrent increments are lost;
* `README.md:213`, "query approval toggle (preview first, explicit approve before
  execution)": a run without approval that fails after its preview was stored
  leaves the pending approval of an earlier preview, which is then executed
  below the later one;
* `src/security/validator.py:23`, "tenant or user filters can be applied to the
  query automatically, reducing cross-tenant leakage": the rows of `a OR b` that
  satisfy `a` escape the filter, although the filter has no OR itself.

Fairness. Each formula is next to `Spec` in its module.

* `QueryService`, `RateLimiter`: a worker that can step does. The interpreter
  schedules every thread, and the steps that wait for something outside (LLM
  request, statement) have a timeout in the code, after which they fail, which
  is a step too. Nothing is assumed of clients: `Start` and `Begin` are not fair.
* `Executor`: the client goes on, time passes, and a limit that has passed is
  enforced. That a statement comes to an end by itself is assumed of EXPLAIN
  only, so that `CallEnds` rests on the time limits.
* `StreamRoute`: the thread and the loop go on. A client may leave, and need
  not; the generator of one that stays must end.
* `DevRunner`: the runner goes on, and a child that was told to exit does. A
  child that was not told may run for ever.

Deadlock is checked in `server`, where each part has a last state of its own. It
is not in the other runs, since their behaviours end when a bound is reached: the
calls are done, the saves and previews used up.

Each property has a mutant of the code's model that violates it; they stand
beside the definitions they mutate.

### What the models show not to hold

These follow from the models too, and the repository says otherwise or nothing.
They are not runs, since one run for each would tell no more than the sentence.

* A call that the rate limiter refuses leaves no line in the audit file
  (`text2sql_service.py:693` returns before any `record`), against
  `text2sql_service.py:6` ("every attempt (successful, blocked, or errored)"),
  `audit.py:4` and `README.md:92`. In the model it is the step `Refuse`, which
  counts the call as blocked and goes to its reply without `WriteAudit`; so
  `ReplyIsAudited` asks for a line only of replies that come out of the pipeline.
* A question or user name with `::` in it may get the cached outcome of another
  user (`text2sql_service.py:697`); `CacheProvenance` has the exact guarantee.
* An error of the database that mentions "timeout", "max_execution_time" or, in
  SQLite, "interrupted" is reported as "Query exceeded ... timeout", for example
  one about an unknown column of that name (`executor.py:95`, `executor.py:104`).
* A row filter with an OR at its top frees rows from the filters beside it and from
  the statement's own conditions (`validator.py:192`, `validator.py:205`).
* Two threads with new users both find room in the limiter
  (`tests/unit/test_service_memory_bounds.py:44` asserts one user for a bound of
  one); the theorem on `TrackedBound` has the exact excess. Two calls of a user
  may both be admitted at the limit, each having filtered the list before the
  other appended.
* A hit that is put back brings the cache above its bound
  (`tests/unit/test_service_memory_bounds.py:24`); `SizeBound` has the excess.
* Of two overlapping calls of a user, the slower one drops the other's turn
  (`text2sql_service.py:851`): the next prompt lacks it.
* A row with a `Decimal`, date or bytes breaks the stream off without result,
  error or `done` (`routes.py:234`).
* "Apply Clarifications" has no effect: it assigns to a key whose widget exists
  in the run, and Streamlit raises (`streamlit_app.py:339`).
* A tab saves the list it read when it was opened, over what other tabs have
  saved (`streamlit_app.py:252`).
* The schema of a URL target is read once and never again
  (`text2sql_service.py:139`), although `README.md:288` says that it stays in
  sync automatically.
* A record that was written in part spoils its successor, and `recent()` raises
  on the line (`audit.py:75`).
* A row filter without a qualifier in a join, or on a column such as
  `deleted_at`, makes a ready preview unapprovable: columns and keywords are
  checked before the filters are put in, and again with them (`validator.py:252`).
* `truncated` is false when the default limit cut the rows
  (`executor.py:82`).
* `.env` or environment names in lower case, and `export NAME=`, set a field
  that YAML then overrides (`config.py:103`).

## Proofs

Every invariant and every refinement that a passing run checks is also a
theorem. A theorem holds for any sets of users, questions,
databases, keys, threads, tables, clients and so on, any limits and any number
of calls, crashes and faults, from the named assumptions of the modules (numbers
are naturals, flags are Boolean, the loop is no stream, questions, users and
databases are sequences of characters, and no user is the empty one; for the
limiter, calls and users are finite sets, and at least one call may be active). The runs show
the same formulas on the small instances of their configurations.

Five theorems are about calls that come one at a time. `MetricsAddUp` and
`MemoryMirrors` assume `Streams = {}`, the properties of `WindowIsKept` and
`LimiterIsWindow` speak of the behaviours with `parallel = 1`, and
`CacheAloneIsLru` is about the copy of the cache for which `MaxActive` is 1. All
of them say the same: no stream runs, so that the event loop serves one request
after the other. With threads the five are false (see "What the models show not
to hold"); what is left of them then is `MetricsAreBounded`, `HistoriesAreAudited`,
`UsersStayBounded`, `RefusalsAreJustified` and `SizeIsBounded`, which hold of any
interleaving.

Each proof has the same form: an inductive invariant, a lemma for each action
or group of actions that can disturb it, and a last step in temporal logic.

**Pipeline** (`QueryServiceProofs`).

* `TypeCorrect`, `OnlyValidatedRuns`. `TypeOK` is not inductive: that an audit
  entry has one of three statuses depends on the outcome of the call at `audit`,
  and that `ran` holds validated SQL on the verdict at `execute`. `TypeInv` adds
  `FrameOK`, which says of each position what has been decided there.
* `HistoriesAreAudited`, `ContextsAreOwn`, `CacheIsProvenant`. `TraceInv` adds that
  a call past its audit record (`remember`, `history`, `cache`) is in the file with
  its status, and that a reply about to be served from the cache has an audited
  source with the same key. The file only grows, so what was recorded stays
  recorded, over crashes too. What equal keys say of their calls is a lemma about
  texts (`KeyTells`): a key is its question, user and database with two pairs of
  colons between them (`KeyLaid`), and in the key of a call whose texts are
  unmistakable there are no other pairs (`OnlyJoins`); so both keys have theirs in
  the same places, and the texts between them are equal. Only the call that is
  answered has to be unmistakable, not the one whose outcome it gets.
* `RepliesAreAudited`. "Once" rests on the identity of calls: `AuditInv` says that
  a call is run by one worker at most, has no audit line before its record, and
  one, with its status, from there to its reply.
* `MetricsAreBounded`. A lost increment makes a counter smaller, never larger,
  but a worker between the two halves of an increment holds an old value that it
  will store. `CountInv` bounds both, the counter and the value read, by the number
  of calls that have been counted (`CountedIds`): those that ended that way, and
  those under way that no longer owe the increment (`Owes`).
* `MetricsAddUp`. Without threads the counter is that number at every step, and
  a value read is still the counter's when it is stored (`BalanceInv`).
* `MemoryMirrors`. `MirrorInv` has the histories as windows on `log`: the audit file
  without the line of the call that is between its record and its history entry,
  and of it what this process wrote. A crash empties both sides.

**Limiter** (`RateLimiterProofs`).

* `LimiterTypeCorrect`, `UsersStayBounded`. The bound on the users is not
  inductive, since calls past the size test may insert later. `BoundInv` bounds
  `Reserved`, the tracked users together with the users of those calls: a call
  joins them only when it saw room, and then at most `MaxActive - 1` others are
  with it.
* `RefusalsAreJustified`. `RefusalInv` says that every list, wherever it is held,
  contains appended timestamps of its own user, and that what a call counts is
  within its window.
* `WindowIsKept`. A list drops what is out of the window, so it must be shown to
  keep the rest: `WindowInv` says that the list under a user's key has every
  admission that counted when the list was filtered and none that was forgotten
  (`Kept`), that the timestamp of the call under way is the latest (`Latest`), and
  that its own list is exactly what counts for it (`InHand`).
* `LimiterIsWindow`. The implementation relation maps `Store` of a refused call
  and `AppendNow` to the judgement of `SlidingWindow`, an eviction to its
  forgetting, and every other step to a stutter or the clock; that the count of
  the code is the count of the abstract specification is `WindowInv` again.
  Without a limit a call is over with its first step (`FreeInv`).

**Stores** (`HistoryProofs`, `MemoryProofs`).

* `ListsAreTyped`, `ListsAreBounded`, `ListsStayApart`, `HistoryIsWindow`, and for
  the histories beside the other stores `HistoriesAreBounded`, `UsersStayApart`,
  `HistoryIsRecentLog`. The lists of users are shared objects, so `HistoryInv` first
  has their ownership: a list that a user's name or call refers to was made by a
  call of that user. Then what remains to be cut (`Watched`), and for users whose
  calls did not overlap the exact content of their lists at each place (`Exact`).
* `CacheTypes`, `HitsAreFresh`, `SizeIsBounded`. `CacheInv` says that an entry, in
  the dictionary or in a call's hands, is the answer of a call that has stored it,
  whose timestamp is therefore final; and counts entries in hands with those in
  place (`Budget`), since they may come back without an eviction.
* `CacheAloneIsLru`, with `LoopIsSafe` (a call that is alone never sees the
  exceptions of two iterations). `AloneInv` says what the one call has
  established so far. The refinement mapping puts an entry in its hands at the
  youngest end and cuts an entry not yet measured; each step is shown to be a
  step of `LruCache` or a stutter, for any bound and TTL.
* `SchemaStaysCurrent`. In `SchemaInv` a modification time stands for one state of
  the database; what a call has read is as new as its beginning, and exact when
  the time has not changed since; so is the entry, for every call that will find
  its own time in it.
* `AuditStaysReadable`. In `AuditInv` every head in the file belongs to a record
  written in parts, and there is one for each, so that it spoils one line at
  most; and while there is none, the file is the log.
* `MemoryTypes`.

**Server** (`ServerProofs`, `StreamProofs`).

* `ConnectionsAreClosed`, `ReportsAreTrue` (`ExecutorInv`: what a call has found
  out at each line, whether an error named a timeout, and until when its statement
  can have run); `CapitalsWin`
  (`ConfigInv`: each field has its final value among the sources merged so far, in
  any order of keys); `RunnerIsThorough` (`RunnerInv`).
* `ApprovalIsNoDetour`, `FiltersAreKept`. They rest on lemmas about the operators
  of `Validator`: what it emits is acceptable to it, with its filters and its
  limit in place, and validating it again changes neither the limit nor the rows
  (`EmittedTwice`), with any OR in statement and filters.
* `StreamsAreTrue`, and beside the other parts `StreamsEndTruly` and
  `ClientsHearInOrder`. What the thread has handed over is what the client has,
  then the queue, then the callbacks that are to put events, in this order
  (`InOrder`), while a generator has exactly one continuation (`Due`, `Closes`);
  on the thread's side, what was emitted is a path through the stages (`Life`).

**Browser** (`BrowserProofs`).

* `SessionTypes`, `OnlyPreviewsAreExecuted`. `SessionInv` says of every
  request and write the script has still to do that it is about a ready preview
  of its own question, given what comes before it; `Interact` may cut the script
  between any two of them.
* `PreviewsAreExecutedOnce`. By `OnceInv` a preview was executed no more often than
  there were faults, or once more, and then nothing the session holds will send
  it again.
* `SavesStay` (`SavedInv`: no list, in a tab or in the file, has a name twice; as
  long as one tab is used at a time, tab and file agree). `BrowserTypes`.

A module that is instantiated with other names has its theorems in a module of
its own, which is instantiated in the same way (`H` of `HistoryProofs`, `S` of
`StreamProofs`); lemmas such as `SameHistory` show that the specification there is
the one of the MC module. That the parts which `MCMemory`, `MCBrowser` and
`MCServer` put side by side behave as their modules say is a lemma as well
(`StoresAreSeparate`, `ServerRunsItsParts`). Modules that are instantiated name their
assumption without assuming it; the MC modules assume it for their instances
(`PartsAssumption`), and a theorem about such a module takes it as a hypothesis.

`SlicesProofs` has what the list operators return: `LastN` of an appended list, of
a slice, of an image; `Filter` of an appended list, its members, its order. The
library's induction theorems take an operator as a parameter, which the provers
at hand cannot instantiate; `NatIsInductive` and `SeqIsInductive` state them for
sets instead, from the existence of minimal elements.

Only model-checked: liveness under fairness (`CallsEnd` of the pipeline and of
the limiter, `CallEnds`, `StreamsEnd`, `OneDownAllDown`), which is out of the
prover's reach, as ENABLED is; and the five violations, which are examples.

## Plan

Done: all the modules above, and a theorem for every safety property the runs
check. Next:

1. The limiter with overlapping calls: how far they exceed the limit of a
   window, as `SizeIsBounded` says it for the cache.
2. The action properties behind the invariants (the audit file only grows, what
   a call has decided it does not revise) as theorems of their own, where a run
   can refute them.
3. The proofs again, for a reader: larger leaves into steps, lemmas that two
   modules prove alike into `SlicesProofs`.

## Not modelled

* The LLM's text and the prompt's wording: any statement may come back.
* Summaries, redaction, explanations and confidence: no state depends on them.
* What a SQL text parses to, and inside a statement subqueries: the parser is a
  library, and filters and limit are put on the outermost statement only.
* The pieces of a URL, and the read-only modes of the backends: the database
  enforces them.
* The read-only routes and the HTML page: they call the service and keep nothing.
* The fallback of an unknown database name to the default one.
* Log formatting, construction in `main.py`, the seeding script, monitoring and
  CI files: no behaviour of the running program.
