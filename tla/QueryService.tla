---------------------------- MODULE QueryService ----------------------------
(***************************************************************************)
(* TextToSQLService (src/src/services/text2sql_service.py): the pipeline   *)
(*                                                                         *)
(*     admit -> cache -> schema -> LLM -> validate -> execute -> audit     *)
(*                                                                         *)
(* as it runs in one process.  The FastAPI handlers are "async def" and    *)
(* call the service without awaiting, so every request they serve runs to  *)
(* its end on the event-loop thread (Loop).  POST /query/stream starts one *)
(* daemon thread per request (Streams), which runs answer() concurrently   *)
(* with the loop and with the other threads, with no lock anywhere.        *)
(*                                                                         *)
(* The grain.  A worker's frame holds its position in the pipeline.  One   *)
(* action is one component operation (a cache lookup, an LLM request, an   *)
(* audit write), and workers interleave between them.  The metric          *)
(* dictionary is finer: "self.metrics[k] = self.metrics.get(k, 0) + 1" can *)
(* be preempted after the call of get, so reading and storing are two      *)
(* actions (MetricRead, MetricStore).  The histories, the conversations    *)
(* and the cache are written in one action each: entries that a switch of  *)
(* threads inside such a write may lose are not modelled here, and no      *)
(* property below that is checked with threads says that an entry is       *)
(* there.  Time is abstracted: the rate limiter's verdict and the set of   *)
(* expired cache entries are arbitrary (RateLimiter.tla has the clock).    *)
(* SQL text is abstracted to what the validator says of it.  Questions,    *)
(* user names and databases are texts, because the key of the cache joins  *)
(* them.                                                                   *)
(***************************************************************************)
EXTENDS Slices, FiniteSets

CONSTANTS
  Loop,               \* the event-loop thread
  Streams,            \* threads started by /query/stream
  Characters, Colon,  \* what texts are made of; Colon is ":"
  Users, Questions, Databases,
  Asked,              \* bound: who may ask what
  MaxRetries,         \* max_retries
  MaxCacheEntries,    \* max_cache_entries, 0 = unbounded
  MaxHistoryEntries,  \* max_history_entries, 0 = unbounded
  ConversationLimit,  \* conversation_history_limit
  CacheEnabled,       \* cache_enabled
  RateLimited,        \* rate_limit_per_minute > 0
  NoCall,             \* "no call yet"
  MaxCalls,           \* bound: calls ever started
  MaxCrashes          \* bound: process crashes

ASSUME SizesAssumption ==
  /\ MaxRetries \in Nat /\ MaxCacheEntries \in Nat
  /\ MaxHistoryEntries \in Nat /\ ConversationLimit \in Nat
  /\ MaxCalls \in Nat /\ MaxCrashes \in Nat

(* A question is stripped and lowered; a user without a name is            *)
(* "anonymous" (_normalize_user_id).                                       *)
ASSUME TextsAssumption ==
  /\ Users \subseteq Seq(Characters) \ {<<>>}
  /\ Questions \subseteq Seq(Characters)
  /\ Databases \subseteq Seq(Characters)

ASSUME AskedAssumption == Asked \subseteq Users \X Questions

ASSUME FlagsAssumption == CacheEnabled \in BOOLEAN /\ RateLimited \in BOOLEAN

ASSUME LoopAssumption == Loop \notin Streams

Workers == {Loop} \cup Streams

Kinds == {"answer", "approved", "preview", "clarify"}

(* The kinds that count in queries_total and have a QueryOutcome. *)
Counted == {"answer", "approved"}

Call == [id : Nat, kind : Kinds, user : Users, question : Questions, db : Databases]

Colons == <<Colon, Colon>>

(* Mutant of Key: users share their answers. *)
KeyOfQuestion(c) == c.question \o Colons \o c.db

(* answer()'s cache_key. *)
Key(c) == c.question \o Colons \o c.user \o Colons \o c.db

MetricKeys ==
  {"queries_total", "queries_success", "queries_blocked", "queries_error",
   "llm_calls", "validation_failures", "execution_failures",
   "cache_hits", "cache_misses"}

VARIABLES
  frame,         \* per worker: where it is in which call
  started,       \* calls started so far; the next call's id is started + 1
  metrics,       \* self.metrics
  cache,         \* self.cache: the calls whose outcome is cached
  conversation,  \* self.conversation_history
  history,       \* self.history
  userHistory,   \* self.user_histories
  audit,         \* the lines of the audit file, the only durable state
  boot,          \* id of the last call started before the process (re)started
  crashes,       \* crashes so far
  ran,           \* history variable: what reached a database
  replies        \* history variable: what the callers got

memory == <<metrics, cache, conversation, history, userHistory>>
observed == <<ran, replies>>
vars == <<frame, started, memory, audit, boot, crashes, observed>>

PCs == {"idle", "ambiguity", "admit", "lookup", "schema", "generate", "validate",
        "execute", "explain", "audit", "remember", "history", "cache", "return"}

NoOutcome == [status |-> "none", via |-> "pipeline", source |-> NoCall]

Frame ==
  [pc      : PCs,
   job     : Call \cup {NoCall},
   attempt : 0 .. MaxRetries,
   prompt  : Seq(Call),                      \* conversation turns in the prompt
   sql     : {"none", "valid", "invalid"},   \* the validator's verdict on it
   outcome : [status : {"none", "success", "blocked", "error", "ready",
                        "needs_clarification"},
              via    : {"pipeline", "cache", "limit"},
              source : Call \cup {NoCall}],
   todo    : Seq(MetricKeys),                \* metrics still to record
   seen    : Seq(Nat)]         \* value read, not yet stored: empty or one

IdleFrame ==
  [pc |-> "idle", job |-> NoCall, attempt |-> 0, prompt |-> <<>>, sql |-> "none",
   outcome |-> NoOutcome, todo |-> <<>>, seen |-> <<>>]

(* A line of the audit file or of a history; generated: it carries SQL. *)
Entry == [call : Call, status : {"success", "blocked", "error"}, generated : BOOLEAN]

-----------------------------------------------------------------------------
At(w, pc) == frame[w].pc = pc /\ frame[w].todo = <<>>

Job(w) == frame[w].job

EntryOf(w) ==
  [call |-> Job(w), status |-> frame[w].outcome.status, generated |-> frame[w].sql # "none"]

(* The other workers that are inside a call. *)
Others(w) == {v \in Workers \ {w} : frame[v].pc # "idle"}

(* The worker's call is decided: its status, the metrics to record, and    *)
(* where the worker goes next.                                             *)
Decide(w, status, keys, next) ==
  frame' = [frame EXCEPT ![w].outcome = [status |-> status, via |-> "pipeline",
                                         source |-> Job(w)],
                         ![w].todo = keys,
                         ![w].pc = next]

(* Mutant of Retry: every attempt is counted as a blocked query. *)
RetryIsBlocked(w, key) ==
  frame' = [frame EXCEPT ![w].attempt = @ + 1,
                         ![w].prompt = <<>>,
                         ![w].todo = <<key, "queries_blocked">>,
                         ![w].pc = "generate"]

(* A failed attempt of answer() that may be retried: the new prompt is the *)
(* question with the failure, without the conversation.                    *)
Retry(w, key) ==
  frame' = [frame EXCEPT ![w].attempt = @ + 1,
                         ![w].prompt = <<>>,
                         ![w].todo = <<key>>,
                         ![w].pc = "generate"]

(* Mutant of GivesUp: one attempt too many. *)
GivesUpLate(w) == Job(w).kind = "approved" \/ frame[w].attempt > MaxRetries

(* execute_approved() never retries, answer() max_retries times. *)
GivesUp(w) == Job(w).kind = "approved" \/ frame[w].attempt = MaxRetries

-----------------------------------------------------------------------------
Init ==
  /\ frame = [w \in Workers |-> IdleFrame]
  /\ started = 0
  /\ metrics = [k \in MetricKeys |-> 0]
  /\ cache = {}
  /\ conversation = [u \in Users |-> <<>>]
  /\ history = <<>>
  /\ userHistory = [u \in Users |-> <<>>]
  /\ audit = <<>>
  /\ boot = 0
  /\ crashes = 0
  /\ ran = {}
  /\ replies = {}

(* Mutants of FirstPC and FirstMetrics: approved SQL is trusted as it is;  *)
(* execute_approved() does not count its calls.                            *)
FirstPCTrusting(kind) ==
  IF kind = "answer" THEN "admit" ELSE IF kind = "approved" THEN "execute" ELSE "ambiguity"

FirstMetricsOfAnswer(kind) == IF kind = "answer" THEN <<"queries_total">> ELSE <<>>

FirstMetrics(kind) == IF kind \in Counted THEN <<"queries_total">> ELSE <<>>

FirstPC(kind) ==
  IF kind = "answer" THEN "admit" ELSE IF kind = "approved" THEN "schema" ELSE "ambiguity"

FirstFrame(c) ==
  [pc |-> FirstPC(c.kind), job |-> c, attempt |-> 0, prompt |-> <<>>, sql |-> "none",
   outcome |-> NoOutcome, todo |-> FirstMetrics(c.kind), seen |-> <<>>]

(* A request arrives.  Only answer() is reachable from /query/stream. *)
Start(w, kind, u, q, d) ==
  /\ At(w, "idle")
  /\ started < MaxCalls
  /\ <<u, q>> \in Asked
  /\ w # Loop => kind = "answer"
  /\ started' = started + 1
  /\ frame' = [frame EXCEPT ![w] = FirstFrame(
       [id |-> started + 1, kind |-> kind, user |-> u, question |-> q, db |-> d])]
  /\ UNCHANGED <<memory, audit, boot, crashes, observed>>

(* _record_metric, up to the return of self.metrics.get. *)
MetricRead(w) ==
  /\ frame[w].todo # <<>>
  /\ frame[w].seen = <<>>
  /\ frame' = [frame EXCEPT ![w].seen = <<metrics[Head(frame[w].todo)]>>]
  /\ UNCHANGED <<started, memory, audit, boot, crashes, observed>>

(* _record_metric, the assignment. *)
MetricStore(w) ==
  /\ frame[w].seen # <<>>
  /\ metrics' = [metrics EXCEPT ![Head(frame[w].todo)] = frame[w].seen[1] + 1]
  /\ frame' = [frame EXCEPT ![w].todo = Tail(@), ![w].seen = <<>>]
  /\ UNCHANGED <<started, cache, conversation, history, userHistory, audit, boot,
                 crashes, observed>>

(* _needs_clarification: clarify() and preview() stop here on an ambiguous *)
(* question; otherwise clarify() goes on into preview().                   *)
AskBack(w) ==
  /\ At(w, "ambiguity")
  /\ Decide(w, IF Job(w).kind = "preview" THEN "blocked" ELSE "needs_clarification",
            <<>>, "return")
  /\ UNCHANGED <<started, memory, audit, boot, crashes, observed>>

Unambiguous(w) ==
  /\ At(w, "ambiguity")
  /\ frame' = [frame EXCEPT ![w].pc = "schema"]
  /\ UNCHANGED <<started, memory, audit, boot, crashes, observed>>

(* _check_rate_limit lets the call through. *)
Admit(w) ==
  /\ At(w, "admit")
  /\ frame' = [frame EXCEPT ![w].pc = "lookup"]
  /\ UNCHANGED <<started, memory, audit, boot, crashes, observed>>

(* _check_rate_limit raises RateLimitExceededError: "blocked", no audit. *)
Refuse(w) ==
  /\ At(w, "admit")
  /\ RateLimited
  /\ frame' = [frame EXCEPT
       ![w].outcome = [status |-> "blocked", via |-> "limit", source |-> Job(w)],
       ![w].todo = <<"queries_blocked">>,
       ![w].pc = "return"]
  /\ UNCHANGED <<started, memory, audit, boot, crashes, observed>>

Hits(c, entries) == {p \in entries : Key(p) = Key(c)}

(* Expired entries are dropped, then the key is looked up.  A hit keeps    *)
(* its entry and its timestamp and ends the call.                          *)
Lookup(w) ==
  /\ At(w, "lookup")
  /\ IF CacheEnabled
     THEN \E live \in SUBSET cache :
            /\ cache' = live
            /\ \/ \E p \in Hits(Job(w), live) :
                    frame' = [frame EXCEPT
                      ![w].outcome = [status |-> "success", via |-> "cache", source |-> p],
                      ![w].todo = <<"cache_hits">>,
                      ![w].pc = "return"]
               \/ /\ Hits(Job(w), live) = {}
                  /\ frame' = [frame EXCEPT ![w].todo = <<"cache_misses">>,
                                            ![w].pc = "schema"]
     ELSE /\ frame' = [frame EXCEPT ![w].pc = "schema"]
          /\ UNCHANGED cache
  /\ UNCHANGED <<started, metrics, conversation, history, userHistory, audit, boot,
                 crashes, observed>>

(* Mutant of Contexts: turns of any user. *)
ContextsOfAll(u) == {LastN(conversation[v], ConversationLimit) : v \in Users} \cup {<<>>}

(* _build_prompt_question: the user's last turns, or none of them when the *)
(* question holds a write keyword or examples are switched off.            *)
Contexts(u) == {LastN(conversation[u], ConversationLimit), <<>>}

(* get_allowed_schema answers; execute_approved goes straight to the       *)
(* validator with the SQL the client sent, answer and preview to the LLM.  *)
LoadSchema(w) ==
  /\ At(w, "schema")
  /\ IF Job(w).kind = "approved"
     THEN \E verdict \in {"valid", "invalid"} :
            frame' = [frame EXCEPT ![w].sql = verdict, ![w].pc = "validate"]
     ELSE \E context \in Contexts(Job(w).user) :
            frame' = [frame EXCEPT ![w].prompt = context, ![w].pc = "generate"]
  /\ UNCHANGED <<started, memory, audit, boot, crashes, observed>>

(* generate_sql returns a statement the validator will accept or refuse. *)
Generate(w) ==
  /\ At(w, "generate")
  /\ \E verdict \in {"valid", "invalid"} :
       frame' = [frame EXCEPT ![w].sql = verdict,
                              ![w].todo = <<"llm_calls">>,
                              ![w].pc = "validate"]
  /\ UNCHANGED <<started, memory, audit, boot, crashes, observed>>

(* Mutant of AfterLLMFailure: the failure is returned without a record. *)
AfterLLMFailureSilent(kind) == "return"

AfterLLMFailure(kind) == IF kind = "answer" THEN "audit" ELSE "return"

(* generate_sql raises: never retried, audited by answer(), not by         *)
(* preview(), which clarify() reports as "ready".                          *)
GenerateFails(w) ==
  /\ At(w, "generate")
  /\ frame' = [frame EXCEPT
       ![w].sql = "none",
       ![w].outcome = [status |-> IF Job(w).kind = "clarify" THEN "ready" ELSE "error",
                       via |-> "pipeline", source |-> Job(w)],
       ![w].todo = IF Job(w).kind = "answer" THEN <<"queries_error">> ELSE <<>>,
       ![w].pc = AfterLLMFailure(Job(w).kind)]
  /\ UNCHANGED <<started, memory, audit, boot, crashes, observed>>

(* validate_sql accepts. *)
Accept(w) ==
  /\ At(w, "validate")
  /\ frame[w].sql = "valid"
  /\ frame' = [frame EXCEPT ![w].pc = IF Job(w).kind \in Counted
                                      THEN "execute" ELSE "explain"]
  /\ UNCHANGED <<started, memory, audit, boot, crashes, observed>>

(* validate_sql raises: answer() retries while it may; preview() and       *)
(* execute_approved() do not.                                              *)
Reject(w) ==
  /\ At(w, "validate")
  /\ frame[w].sql = "invalid"
  /\ \/ /\ Job(w).kind \in Counted /\ GivesUp(w)
        /\ Decide(w, "blocked", <<"validation_failures", "queries_blocked">>, "audit")
     \/ /\ Job(w).kind \in Counted /\ ~GivesUp(w)
        /\ Retry(w, "validation_failures")
     \/ /\ Job(w).kind = "preview"
        /\ Decide(w, "blocked", <<"validation_failures">>, "return")
     \/ /\ Job(w).kind = "clarify"
        /\ Decide(w, "ready", <<"validation_failures">>, "return")
  /\ UNCHANGED <<started, memory, audit, boot, crashes, observed>>

(* explain_readonly plans the statement or fails; nothing is executed. *)
Explain(w) ==
  /\ At(w, "explain")
  /\ \E status \in IF Job(w).kind = "preview" THEN {"ready", "error"} ELSE {"ready"} :
       Decide(w, status, <<>>, "return")
  /\ UNCHANGED <<started, memory, audit, boot, crashes, observed>>

(* Mutant of Execute: the success is remembered, but never recorded. *)
ExecuteUnrecorded(w) ==
  /\ At(w, "execute")
  /\ ran' = ran \cup {[call |-> Job(w), sql |-> frame[w].sql]}
  /\ Decide(w, "success", <<"queries_success">>, "history")
  /\ UNCHANGED <<started, memory, audit, boot, crashes, replies>>

(* execute_readonly returns rows. *)
Execute(w) ==
  /\ At(w, "execute")
  /\ ran' = ran \cup {[call |-> Job(w), sql |-> frame[w].sql]}
  /\ Decide(w, "success", <<"queries_success">>, "audit")
  /\ UNCHANGED <<started, memory, audit, boot, crashes, replies>>

(* execute_readonly raises QueryExecutionError (or QueryTimeoutError). *)
ExecuteFails(w) ==
  /\ At(w, "execute")
  /\ ran' = ran \cup {[call |-> Job(w), sql |-> frame[w].sql]}
  /\ IF GivesUp(w)
     THEN Decide(w, "error", <<"execution_failures", "queries_error">>, "audit")
     ELSE Retry(w, "execution_failures")
  /\ UNCHANGED <<started, memory, audit, boot, crashes, replies>>

(* Mutant of AfterAudit: a successful answer does not join the conversation. *)
AfterAuditForgetful(w) ==
  IF frame[w].sql # "none" /\ (Job(w).kind = "answer" \/ frame[w].outcome.status = "success")
  THEN "history" ELSE "return"

(* What follows the audit record: only a successful answer is remembered;  *)
(* execute_approved keeps its successes in the history, answer() all that  *)
(* produced SQL.                                                           *)
AfterAudit(w) ==
  IF frame[w].outcome.status = "success"
  THEN IF Job(w).kind = "answer" THEN "remember" ELSE "history"
  ELSE IF Job(w).kind = "answer" /\ frame[w].sql # "none" THEN "history" ELSE "return"

(* AuditLogger.record: one line appended to the file. *)
WriteAudit(w) ==
  /\ At(w, "audit")
  /\ audit' = Append(audit, EntryOf(w))
  /\ frame' = [frame EXCEPT ![w].pc = AfterAudit(w)]
  /\ UNCHANGED <<started, memory, boot, crashes, observed>>

(* Mutant of Remember: a writer waits until no other stands at the same    *)
(* place, as with a flag that each raises before it looks.                 *)
RememberPolitely(w) ==
  /\ At(w, "remember")
  /\ \A v \in Others(w) : frame[v].pc # "remember"
  /\ conversation' = [conversation EXCEPT
       ![Job(w).user] = LastN(Append(@, Job(w)), ConversationLimit)]
  /\ frame' = [frame EXCEPT ![w].pc = "history"]
  /\ UNCHANGED <<started, metrics, cache, history, userHistory, audit, boot, crashes,
                 observed>>

(* The turn joins the user's conversation. *)
Remember(w) ==
  /\ At(w, "remember")
  /\ conversation' = [conversation EXCEPT
       ![Job(w).user] = LastN(Append(@, Job(w)), ConversationLimit)]
  /\ frame' = [frame EXCEPT ![w].pc = "history"]
  /\ UNCHANGED <<started, metrics, cache, history, userHistory, audit, boot, crashes,
                 observed>>

(* _append_history_entry, on the global and on the user's history. *)
AppendHistory(w) ==
  /\ At(w, "history")
  /\ history' = LastN(Append(history, EntryOf(w)), MaxHistoryEntries)
  /\ userHistory' = [userHistory EXCEPT
       ![Job(w).user] = LastN(Append(@, EntryOf(w)), MaxHistoryEntries)]
  /\ frame' = [frame EXCEPT ![w].pc =
       IF Job(w).kind = "answer" /\ frame[w].outcome.status = "success"
       THEN "cache" ELSE "return"]
  /\ UNCHANGED <<started, metrics, cache, conversation, audit, boot, crashes, observed>>

(* What popitem(last=False) may leave of the entries after c was upserted: *)
(* c is the youngest, so with a bound of at least one it stays.            *)
Bounded(entries, c) ==
  IF MaxCacheEntries = 0 \/ Cardinality(entries) <= MaxCacheEntries
  THEN {entries}
  ELSE {keep \in SUBSET entries : c \in keep /\ Cardinality(keep) = MaxCacheEntries}

(* _upsert_cache. *)
UpsertCache(w) ==
  /\ At(w, "cache")
  /\ IF CacheEnabled
     THEN cache' \in Bounded((cache \ Hits(Job(w), cache)) \cup {Job(w)}, Job(w))
     ELSE UNCHANGED cache
  /\ frame' = [frame EXCEPT ![w].pc = "return"]
  /\ UNCHANGED <<started, metrics, conversation, history, userHistory, audit, boot,
                 crashes, observed>>

Reply(w, via) ==
  [call |-> Job(w), status |-> frame[w].outcome.status, via |-> via,
   source |-> frame[w].outcome.source]

(* The method returns its outcome. *)
Return(w) ==
  /\ At(w, "return")
  /\ replies' = replies \cup {Reply(w, frame[w].outcome.via)}
  /\ frame' = [frame EXCEPT ![w] = IdleFrame]
  /\ UNCHANGED <<started, memory, audit, boot, crashes, ran>>

(* Where an exception escapes the method.  get_schema and the connection   *)
(* that execute_readonly and explain_readonly open raise errors of the     *)
(* driver that nothing catches, and the audit file may refuse the write.   *)
(* A dictionary changed by another thread makes the iterations of the rate *)
(* limiter and of the cache's cleanup raise RuntimeError, and popitem      *)
(* raise KeyError when the others have emptied the cache since len.        *)
CanRaise(w) ==
  \/ frame[w].pc \in {"schema", "execute", "explain", "audit"}
  \/ /\ Others(w) # {}
     /\ \/ frame[w].pc = "admit" /\ RateLimited
        \/ frame[w].pc = "lookup" /\ CacheEnabled
        \/ frame[w].pc = "cache" /\ CacheEnabled /\ MaxCacheEntries > 0

(* The handler turns it into an HTTP 500, the thread into an error event. *)
Raise(w) ==
  /\ frame[w].todo = <<>>
  /\ CanRaise(w)
  /\ replies' = replies \cup {Reply(w, "raise")}
  /\ frame' = [frame EXCEPT ![w] = IdleFrame]
  /\ UNCHANGED <<started, memory, audit, boot, crashes, ran>>

(* The process dies and is started again: only the audit file remains. *)
Crash ==
  /\ crashes < MaxCrashes
  /\ crashes' = crashes + 1
  /\ boot' = started
  /\ frame' = [w \in Workers |-> IdleFrame]
  /\ metrics' = [k \in MetricKeys |-> 0]
  /\ cache' = {}
  /\ conversation' = [u \in Users |-> <<>>]
  /\ history' = <<>>
  /\ userHistory' = [u \in Users |-> <<>>]
  /\ UNCHANGED <<started, audit, observed>>

(* What a worker does once it is inside a call. *)
Progress(w) ==
  \/ MetricRead(w) \/ MetricStore(w)
  \/ AskBack(w) \/ Unambiguous(w)
  \/ Admit(w) \/ Refuse(w) \/ Lookup(w) \/ LoadSchema(w)
  \/ Generate(w) \/ GenerateFails(w)
  \/ Accept(w) \/ Reject(w) \/ Explain(w)
  \/ Execute(w) \/ ExecuteFails(w)
  \/ WriteAudit(w) \/ Remember(w) \/ AppendHistory(w) \/ UpsertCache(w)
  \/ Return(w) \/ Raise(w)

Next ==
  \/ \E w \in Workers, kind \in Kinds, u \in Users, q \in Questions, d \in Databases :
       Start(w, kind, u, q, d)
  \/ \E w \in Workers : Progress(w)
  \/ Crash

Spec == Init /\ [][Next]_vars

(* Threads are scheduled by the interpreter, the LLM request and the       *)
(* statement carry timeouts, so a worker inside a call keeps moving.       *)
FairSpec == Spec /\ \A w \in Workers : WF_vars(Progress(w))

-----------------------------------------------------------------------------
(* Every variable holds values of its kind. *)
TypeOK ==
  /\ frame \in [Workers -> Frame]
  /\ started \in Nat
  /\ metrics \in [MetricKeys -> Nat]
  /\ cache \in SUBSET Call
  /\ conversation \in [Users -> Seq(Call)]
  /\ history \in Seq(Entry)
  /\ userHistory \in [Users -> Seq(Entry)]
  /\ audit \in Seq(Entry)
  /\ boot \in Nat
  /\ crashes \in Nat
  /\ ran \in SUBSET [call : Call, sql : {"none", "valid", "invalid"}]

Recorded(call, status) ==
  \E i \in DOMAIN audit : audit[i].call = call /\ audit[i].status = status

(* An outcome that came out of the pipeline was in the audit file, with    *)
(* the same status, before the caller got it; and no call is in the file   *)
(* twice, whatever it retried and wherever an exception ended it.          *)
ReplyIsAudited ==
  \A r \in replies :
    /\ r.call.kind \in Counted /\ r.via = "pipeline" => Recorded(r.call, r.status)
    /\ Cardinality({i \in DOMAIN audit : audit[i].call = r.call}) <= 1

(* The in-memory histories never know more than the audit file: each entry *)
(* stands in the file with the same status, in its own user's history.     *)
HistoryIsAudited ==
  /\ \A i \in DOMAIN history : Recorded(history[i].call, history[i].status)
  /\ \A u \in Users : \A i \in DOMAIN userHistory[u] :
       /\ Recorded(userHistory[u][i].call, userHistory[u][i].status)
       /\ userHistory[u][i].call.user = u
  /\ \A u \in Users : \A i \in DOMAIN conversation[u] :
       /\ Recorded(conversation[u][i], "success")
       /\ conversation[u][i].user = u

(* A prompt carries turns of its own user only, all of them answered with  *)
(* success and audited.                                                    *)
ContextIsOwn ==
  \A w \in Workers : \A i \in DOMAIN frame[w].prompt :
    /\ frame[w].prompt[i].user = Job(w).user
    /\ Recorded(frame[w].prompt[i], "success")

(* Every colon of the text stands before, or after, another character.     *)
ColonsBefore(t) ==
  \A i \in DOMAIN t : t[i] = Colon => i + 1 \in DOMAIN t /\ t[i + 1] # Colon

ColonsAfter(t) ==
  \A i \in DOMAIN t : t[i] = Colon => i - 1 \in DOMAIN t /\ t[i - 1] # Colon

(* In the key of such a call "::" is only where the code puts it. *)
Unmistakable(c) ==
  /\ ColonsBefore(c.question)
  /\ ColonsAfter(c.user) /\ ColonsBefore(c.user)
  /\ ColonsAfter(c.db)

(* The cache holds at most one entry per key, each the audited success of  *)
(* answer().  A call it answers gets the outcome of its own key, and if    *)
(* its texts are unmistakable, that is the outcome of the same question of *)
(* the same user on the same database, whatever other users call           *)
(* themselves and ask.                                                     *)
CacheProvenance ==
  /\ \A p \in cache : p.kind = "answer" /\ Recorded(p, "success")
  /\ \A p, q \in cache : Key(p) = Key(q) => p = q
  /\ \A r \in replies : r.via = "cache" =>
       /\ Recorded(r.source, "success")
       /\ Key(r.source) = Key(r.call)
       /\ Unmistakable(r.call) =>
            /\ r.source.question = r.call.question
            /\ r.source.user = r.call.user
            /\ r.source.db = r.call.db

(* Whatever reached a database was accepted by the validator in the same   *)
(* call, the approved SQL a client sent included; previews execute nothing. *)
RanIsValidated == \A r \in ran : r.sql = "valid" /\ r.call.kind \in Counted

Quiet == \A w \in Workers : frame[w].pc = "idle"

(* The counted calls of this process that have ended. *)
Ended == {r \in replies : r.call.kind \in Counted /\ r.call.id > boot}

EndedAs(status) == {r \in Ended : r.status = status /\ r.via # "cache"}

(* With the event loop alone, the metrics of an idle service add up: every *)
(* counted call in the total, each outcome under its own counter.          *)
MetricsBalance ==
  Quiet =>
    /\ metrics["queries_total"] = Cardinality(Ended)
    /\ metrics["queries_success"] = Cardinality(EndedAs("success"))
    /\ metrics["queries_blocked"] = Cardinality(EndedAs("blocked"))
    /\ metrics["queries_error"] = Cardinality(EndedAs("error"))
    /\ metrics["cache_hits"] = Cardinality({r \in Ended : r.via = "cache"})

(* With concurrent threads increments may be lost, but never invented. *)
MetricsNeverOvercount ==
  Quiet =>
    /\ metrics["queries_total"] <= Cardinality(Ended)
    /\ metrics["queries_success"] <= Cardinality(EndedAs("success"))
    /\ metrics["queries_blocked"] <= Cardinality(EndedAs("blocked"))
    /\ metrics["queries_error"] <= Cardinality(EndedAs("error"))
    /\ metrics["cache_hits"] <= Cardinality({r \in Ended : r.via = "cache"})

(* The audit lines of this process that belong in the histories. *)
Remembered ==
  Filter(audit, {e \in Entry : /\ e.call.id > boot
                               /\ e.status = "success" \/ (e.call.kind = "answer" /\ e.generated)})

EntriesOf(u) == {e \in Entry : e.call.user = u}

(* The entries of u that are turns of the conversation. *)
TurnsOf(u) == {e \in EntriesOf(u) : e.call.kind = "answer" /\ e.status = "success"}

(* With the event loop alone, what an idle service remembers is a window   *)
(* on the audit file: the histories are its youngest entries that carry    *)
(* SQL (for approved statements, that succeeded), in the file's order, and *)
(* a conversation is its user's youngest successful answers.               *)
MemoryMirrorsAudit ==
  Quiet =>
    /\ history = LastN(Remembered, MaxHistoryEntries)
    /\ \A u \in Users :
         /\ userHistory[u] = LastN(Filter(Remembered, EntriesOf(u)), MaxHistoryEntries)
         /\ LET turns == LastN(Filter(Remembered, TurnsOf(u)), ConversationLimit)
            IN  conversation[u] = [i \in DOMAIN turns |-> turns[i].call]

(* Every call ends: retries are bounded and no step waits for another. *)
CallsEnd == \A w \in Workers : frame[w].pc # "idle" ~> frame[w].pc = "idle"

-----------------------------------------------------------------------------
(* What the repository says and the code does not do. *)

(* audit.py, lines 4-5: "Every call into the pipeline is recorded here --  *)
(* whether it succeeded, ...".  An answer from the cache is not.           *)
SuccessIsAudited ==
  \A r \in replies : r.status = "success" /\ r.via # "raise" => Recorded(r.call, "success")

(* text2sql_service.py, lines 6-7: "every attempt (successful, blocked, or *)
(* errored) is written to the audit trail, regardless of outcome".  A call *)
(* that an exception of the schema or of the connection ends is not.       *)
ErrorIsAudited ==
  \A r \in replies : r.via = "raise" /\ r.call.kind \in Counted =>
    \E i \in DOMAIN audit : audit[i].call = r.call

(* text2sql_service.py, line 160: "Total number of queries handled".  Two  *)
(* threads that read the counter before either stores lose one.            *)
TotalIsHandled == Quiet => metrics["queries_total"] = Cardinality(Ended)
=============================================================================
