------------------------- MODULE QueryServiceProofs -------------------------
(***************************************************************************)
(* Theorems about QueryService, for any number of users, questions,        *)
(* databases and threads, any limits and any number of calls and crashes.  *)
(*                                                                         *)
(* First the types, and what reaches a database (TypeInv).  Then what the  *)
(* service remembers, all of which the audit file has (TraceInv).          *)
(* Then its replies: every outcome of the pipeline is in the audit file    *)
(* before the caller has it, once and with its status (AuditInv).  Then    *)
(* the counters: none of an idle service counts more calls than have ended *)
(* that way (CountInv), or fewer, when there are no threads (BalanceInv);  *)
(* and the memory of a service without threads, which lags the audit file  *)
(* by at most the line of the call under way (MirrorInv).                  *)
(***************************************************************************)
EXTENDS QueryService, SlicesProofs

LEMMA LastNElements ==
  ASSUME NEW S, NEW s \in Seq(S), NEW n \in Nat, NEW i \in DOMAIN LastN(s, n)
  PROVE  \E j \in DOMAIN s : LastN(s, n)[i] = s[j]
BY DEF LastN

-----------------------------------------------------------------------------
(* What a worker's frame says of itself, whatever the other workers do.    *)
FrameOK(f) ==
  /\ f.pc # "idle" => f.job \in Call
  /\ f.seen # <<>> => f.todo # <<>>
  /\ f.pc \in {"audit", "remember", "history", "cache"} =>
       f.outcome.status \in {"success", "blocked", "error"}
  /\ f.pc \in {"remember", "cache"} => f.outcome.status = "success" /\ f.job.kind = "answer"
  /\ f.pc = "execute" => f.sql = "valid" /\ f.job.kind \in Counted

FramesOK == \A w \in Workers : FrameOK(frame[w])

TypeInv == TypeOK /\ FramesOK /\ RanIsValidated

Outcomes == [status : {"none", "success", "blocked", "error", "ready", "needs_clarification"},
             via    : {"pipeline", "cache", "limit"},
             source : Call \cup {NoCall}]

LEMMA IdleFrameType == IdleFrame \in Frame /\ FrameOK(IdleFrame)
BY SizesAssumption DEF IdleFrame, Frame, PCs, NoOutcome, FrameOK

LEMMA KeysType ==
  ASSUME NEW k \in MetricKeys, NEW l \in MetricKeys
  PROVE  <<>> \in Seq(MetricKeys) /\ <<k>> \in Seq(MetricKeys) /\ <<k, l>> \in Seq(MetricKeys)
OBVIOUS

(* Replacing one frame by a good one. *)
LEMMA FrameStep ==
  ASSUME TypeInv, NEW w \in Workers, NEW g \in Frame, FrameOK(g),
         frame' = [frame EXCEPT ![w] = g]
  PROVE  frame' \in [Workers -> Frame] /\ FramesOK'
BY DEF TypeInv, TypeOK, FramesOK

(* A call moves on without being decided. *)
LEMMA MoveType ==
  ASSUME NEW f \in Frame, FrameOK(f), f.pc # "idle", NEW next \in PCs, next # "idle",
         next \in {"audit", "remember", "history", "cache"} =>
           f.outcome.status \in {"success", "blocked", "error"},
         next \in {"remember", "cache"} => f.outcome.status = "success" /\ f.job.kind = "answer",
         next = "execute" => f.sql = "valid" /\ f.job.kind \in Counted
  PROVE  [f EXCEPT !.pc = next] \in Frame /\ FrameOK([f EXCEPT !.pc = next])
<1> DEFINE g == [f EXCEPT !.pc = next]
<1>1. g \in Frame
  BY DEF Frame
<1>2. /\ g.pc = next /\ g.job = f.job /\ g.seen = f.seen /\ g.todo = f.todo
      /\ g.outcome = f.outcome /\ g.sql = f.sql
  BY DEF Frame
<1> HIDE DEF g
<1>3. FrameOK(g)
  BY <1>2 DEF FrameOK
<1> QED
  BY <1>1, <1>3 DEF g

(* A call is decided. *)
LEMMA DecideType ==
  ASSUME TypeInv, NEW w \in Workers, frame[w].pc # "idle", frame[w].seen = <<>>,
         NEW status \in {"success", "blocked", "error", "ready", "needs_clarification"},
         NEW keys \in Seq(MetricKeys), NEW next \in {"audit", "return"},
         next = "audit" => status \in {"success", "blocked", "error"},
         Decide(w, status, keys, next)
  PROVE  frame' \in [Workers -> Frame] /\ FramesOK'
<1> DEFINE f == frame[w]
           o == [status |-> status, via |-> "pipeline", source |-> Job(w)]
           g == [f EXCEPT !.outcome = o, !.todo = keys, !.pc = next]
<1>1. f \in Frame /\ FrameOK(f)
  BY DEF TypeInv, TypeOK, FramesOK
<1>2. frame' = [frame EXCEPT ![w] = g]
  BY DEF TypeInv, TypeOK, Decide
<1>3. o \in Outcomes /\ o.status = status
  BY <1>1 DEF Outcomes, Frame, Job
<1> HIDE DEF f, o
<1>4. g \in Frame
  BY <1>1, <1>3 DEF Frame, Outcomes, PCs
<1>5. g.pc = next /\ g.job = f.job /\ g.seen = f.seen /\ g.outcome = o
  BY <1>1 DEF Frame
<1> HIDE DEF g
<1>6. FrameOK(g)
  BY <1>1, <1>3, <1>5 DEF FrameOK, f
<1> QED
  BY <1>2, <1>4, <1>6, FrameStep

(* A failed attempt is repeated. *)
LEMMA RetryType ==
  ASSUME TypeInv, NEW w \in Workers, frame[w].pc # "idle", frame[w].seen = <<>>,
         NEW key \in MetricKeys, ~GivesUp(w), Retry(w, key)
  PROVE  frame' \in [Workers -> Frame] /\ FramesOK'
<1> DEFINE f == frame[w]
           keys == <<key>>
           n == f.attempt + 1
           p == <<>>
           g == [f EXCEPT !.attempt = n, !.prompt = p, !.todo = keys, !.pc = "generate"]
<1>1. f \in Frame /\ FrameOK(f)
  BY DEF TypeInv, TypeOK, FramesOK
<1>2. frame' = [frame EXCEPT ![w] = g]
  BY DEF TypeInv, TypeOK, Retry
<1>3. keys \in Seq(MetricKeys) /\ p \in Seq(Call)
  BY KeysType
<1>4. n \in 0 .. MaxRetries
  BY <1>1, SizesAssumption DEF Frame, GivesUp
<1>0. f.seen = <<>> /\ f.job \in Call
  BY <1>1 DEF FrameOK
<1> HIDE DEF f, keys, n, p
<1>5. g \in Frame
  BY <1>1, <1>3, <1>4 DEF Frame, PCs
<1>6. g.pc = "generate" /\ g.job = f.job /\ g.seen = f.seen
  BY <1>1 DEF Frame
<1> HIDE DEF g
<1>7. FrameOK(g)
  BY <1>0, <1>6 DEF FrameOK
<1> QED
  BY <1>2, <1>5, <1>7, FrameStep

(* The other variables' types, for the steps that only move a frame.       *)
Rest == <<started, memory, audit, boot, crashes, ran>>

LEMMA QuietStep ==
  ASSUME TypeInv, frame' \in [Workers -> Frame], FramesOK', UNCHANGED Rest
  PROVE  TypeInv'
BY DEF TypeInv, TypeOK, RanIsValidated, Rest, memory

LEMMA AtType ==
  ASSUME TypeInv, NEW w \in Workers, NEW pc, At(w, pc)
  PROVE  /\ frame[w] \in Frame /\ FrameOK(frame[w])
         /\ frame[w].pc = pc /\ frame[w].seen = <<>>
         /\ pc # "idle" => frame[w].job \in Call
BY DEF TypeInv, TypeOK, FramesOK, FrameOK, At

LEMMA TypeStart ==
  ASSUME TypeInv, NEW w \in Workers, NEW kind \in Kinds, NEW u \in Users,
         NEW q \in Questions, NEW d \in Databases, Start(w, kind, u, q, d)
  PROVE  TypeInv'
<1> DEFINE c == [id |-> started + 1, kind |-> kind, user |-> u, question |-> q, db |-> d]
<1>1. c \in Call /\ c.kind \in Kinds
  BY DEF Call, TypeInv, TypeOK
<1>2. FirstFrame(c) \in Frame /\ FrameOK(FirstFrame(c))
  <2> HIDE DEF c
  <2>1. FirstPC(c.kind) \in {"admit", "schema", "ambiguity"}
    BY DEF FirstPC
  <2>2. FirstMetrics(c.kind) \in Seq(MetricKeys)
    <3>1. <<"queries_total">> \in Seq(MetricKeys) /\ <<>> \in Seq(MetricKeys)
      BY DEF MetricKeys
    <3> QED
      BY <3>1, Zenon DEF FirstMetrics
  <2> QED
    BY <1>1, <2>1, <2>2, SizesAssumption DEF Frame, FirstFrame, NoOutcome, PCs, FrameOK
<1>3. frame' = [frame EXCEPT ![w] = FirstFrame(c)]
  BY DEF Start
<1>4. started' \in Nat /\ UNCHANGED <<memory, audit, boot, crashes, observed>>
  BY DEF TypeInv, TypeOK, Start
<1> HIDE DEF c
<1>5. frame' \in [Workers -> Frame] /\ FramesOK'
  BY <1>2, <1>3, FrameStep
<1> QED
  BY <1>4, <1>5 DEF TypeInv, TypeOK, RanIsValidated, memory, observed

LEMMA TypeMetricRead ==
  ASSUME TypeInv, NEW w \in Workers, MetricRead(w)
  PROVE  TypeInv'
<1> DEFINE f == frame[w]
           n == <<metrics[Head(f.todo)]>>
           g == [f EXCEPT !.seen = n]
<1>1. f \in Frame /\ FrameOK(f) /\ f.todo # <<>>
  BY DEF TypeInv, TypeOK, FramesOK, MetricRead
<1>2. n \in Seq(Nat)
  <2>1. Head(f.todo) \in MetricKeys
    BY <1>1 DEF Frame
  <2>2. metrics[Head(f.todo)] \in Nat
    BY <2>1 DEF TypeInv, TypeOK
  <2> QED
    BY <2>2
<1>3. frame' = [frame EXCEPT ![w] = g] /\ UNCHANGED Rest
  BY DEF MetricRead, Rest, observed
<1> HIDE DEF f, n
<1>4. g \in Frame
  BY <1>1, <1>2 DEF Frame
<1>5. /\ g.pc = f.pc /\ g.job = f.job /\ g.todo = f.todo /\ g.outcome = f.outcome
      /\ g.sql = f.sql
  BY <1>1 DEF Frame
<1> HIDE DEF g
<1>6. FrameOK(g)
  BY <1>1, <1>5 DEF FrameOK
<1> QED
  BY <1>3, <1>4, <1>6, FrameStep, QuietStep

LEMMA TypeMetricStore ==
  ASSUME TypeInv, NEW w \in Workers, MetricStore(w)
  PROVE  TypeInv'
<1>1. TypeOK'
  BY DEF TypeInv, TypeOK, MetricStore, Frame, FramesOK, FrameOK, observed
<1>2. FramesOK'
  BY DEF TypeInv, TypeOK, MetricStore, Frame, FramesOK, FrameOK
<1> QED
  BY <1>1, <1>2 DEF TypeInv, RanIsValidated, MetricStore, observed

LEMMA TypeAskBack ==
  ASSUME TypeInv, NEW w \in Workers, AskBack(w)
  PROVE  TypeInv'
<1>1. <<>> \in Seq(MetricKeys)
  OBVIOUS
<1>2. At(w, "ambiguity") /\ UNCHANGED Rest
  BY DEF AskBack, Rest, observed
<1>3. frame' \in [Workers -> Frame] /\ FramesOK'
  <2>1. PICK status \in {"blocked", "needs_clarification"} : Decide(w, status, <<>>, "return")
    BY DEF AskBack
  <2>2. frame[w].pc # "idle" /\ frame[w].seen = <<>>
    BY <1>2, AtType
  <2> QED
    BY <1>1, <2>1, <2>2, DecideType
<1> QED
  BY <1>2, <1>3, QuietStep

LEMMA TypeMoves ==
  ASSUME TypeInv, NEW w \in Workers, Unambiguous(w) \/ Admit(w) \/ Accept(w)
  PROVE  TypeInv'
<1>1. PICK next \in {"schema", "lookup", "execute", "explain"} :
        /\ frame' = [frame EXCEPT ![w] = [frame[w] EXCEPT !.pc = next]]
        /\ next = "execute" => frame[w].sql = "valid" /\ frame[w].job.kind \in Counted
  <2>1. CASE Unambiguous(w)
    BY <2>1 DEF Unambiguous
  <2>2. CASE Admit(w)
    BY <2>2 DEF Admit
  <2>3. CASE Accept(w)
    BY <2>3 DEF Accept, Job
  <2> QED
    BY <2>1, <2>2, <2>3
<1>2. frame[w] \in Frame /\ FrameOK(frame[w]) /\ frame[w].pc # "idle" /\ UNCHANGED Rest
  BY DEF TypeInv, TypeOK, FramesOK, Unambiguous, Admit, Accept, At, Rest, observed
<1>3. [frame[w] EXCEPT !.pc = next] \in Frame /\ FrameOK([frame[w] EXCEPT !.pc = next])
  BY <1>1, <1>2, MoveType DEF PCs
<1> QED
  BY <1>1, <1>2, <1>3, FrameStep, QuietStep

LEMMA TypeRefuse ==
  ASSUME TypeInv, NEW w \in Workers, Refuse(w)
  PROVE  TypeInv'
<1> DEFINE f == frame[w]
           o == [status |-> "blocked", via |-> "limit", source |-> Job(w)]
           keys == <<"queries_blocked">>
           g == [f EXCEPT !.outcome = o, !.todo = keys, !.pc = "return"]
<1>1. f \in Frame /\ f.seen = <<>> /\ f.job \in Call /\ UNCHANGED Rest
  BY AtType DEF Refuse, Rest, observed
<1>2. frame' = [frame EXCEPT ![w] = g]
  BY DEF Refuse
<1>3. o \in Outcomes /\ keys \in Seq(MetricKeys)
  BY <1>1 DEF Outcomes, Job, MetricKeys
<1> HIDE DEF f, o, keys
<1>4. g \in Frame
  BY <1>1, <1>3 DEF Frame, Outcomes, PCs
<1>5. g.pc = "return" /\ g.job = f.job /\ g.seen = f.seen
  BY <1>1 DEF Frame
<1> HIDE DEF g
<1>6. FrameOK(g)
  BY <1>1, <1>5 DEF FrameOK
<1> QED
  BY <1>1, <1>2, <1>4, <1>6, FrameStep, QuietStep

LEMMA TypeLookup ==
  ASSUME TypeInv, NEW w \in Workers, Lookup(w)
  PROVE  TypeInv'
<1> DEFINE f == frame[w]
<1>0. /\ At(w, "lookup")
      /\ UNCHANGED <<started, metrics, conversation, history, userHistory, audit, boot,
                     crashes, observed>>
  BY Zenon DEF Lookup
<1>1. f \in Frame /\ FrameOK(f) /\ f.pc = "lookup" /\ f.seen = <<>> /\ f.job \in Call
  BY <1>0, AtType
<1>2. cache' \in SUBSET Call
  BY DEF Lookup, TypeInv, TypeOK
<1>3. \/ \E p \in Call : frame' = [frame EXCEPT
                      ![w].outcome = [status |-> "success", via |-> "cache", source |-> p],
                      ![w].todo = <<"cache_hits">>,
                      ![w].pc = "return"]
      \/ frame' = [frame EXCEPT ![w].todo = <<"cache_misses">>, ![w].pc = "schema"]
      \/ frame' = [frame EXCEPT ![w].pc = "schema"]
  BY Zenon DEF Lookup, Hits, TypeInv, TypeOK
<1>4. frame' \in [Workers -> Frame] /\ FramesOK'
  <2>1. CASE \E p \in Call : frame' = [frame EXCEPT
                      ![w].outcome = [status |-> "success", via |-> "cache", source |-> p],
                      ![w].todo = <<"cache_hits">>,
                      ![w].pc = "return"]
    <3>1. PICK p \in Call : frame' = [frame EXCEPT
                      ![w].outcome = [status |-> "success", via |-> "cache", source |-> p],
                      ![w].todo = <<"cache_hits">>,
                      ![w].pc = "return"]
      BY <2>1
    <3> DEFINE o == [status |-> "success", via |-> "cache", source |-> p]
               keys == <<"cache_hits">>
               g == [f EXCEPT !.outcome = o, !.todo = keys, !.pc = "return"]
    <3>2. frame' = [frame EXCEPT ![w] = g]
      BY <3>1
    <3>3. o \in Outcomes /\ keys \in Seq(MetricKeys)
      BY DEF Outcomes, MetricKeys
    <3> HIDE DEF f, o, keys
    <3>4. g \in Frame
      BY <1>1, <3>3 DEF Frame, Outcomes, PCs
    <3>5. g.pc = "return" /\ g.job = f.job /\ g.seen = f.seen
      BY <1>1 DEF Frame
    <3> HIDE DEF g
    <3>6. FrameOK(g)
      BY <1>1, <3>5 DEF FrameOK
    <3> QED
      BY <3>2, <3>4, <3>6, FrameStep
  <2>2. CASE frame' = [frame EXCEPT ![w].todo = <<"cache_misses">>, ![w].pc = "schema"]
    <3> DEFINE keys == <<"cache_misses">>
               g == [f EXCEPT !.todo = keys, !.pc = "schema"]
    <3>2. frame' = [frame EXCEPT ![w] = g]
      BY <2>2
    <3>3. keys \in Seq(MetricKeys)
      BY DEF MetricKeys
    <3> HIDE DEF f, keys
    <3>4. g \in Frame
      BY <1>1, <3>3 DEF Frame, PCs
    <3>5. g.pc = "schema" /\ g.job = f.job /\ g.seen = f.seen
      BY <1>1 DEF Frame
    <3> HIDE DEF g
    <3>6. FrameOK(g)
      BY <1>1, <3>5 DEF FrameOK
    <3> QED
      BY <3>2, <3>4, <3>6, FrameStep
  <2>3. CASE frame' = [frame EXCEPT ![w].pc = "schema"]
    <3>1. frame' = [frame EXCEPT ![w] = [f EXCEPT !.pc = "schema"]]
      BY <2>3
    <3>2. [f EXCEPT !.pc = "schema"] \in Frame /\ FrameOK([f EXCEPT !.pc = "schema"])
      BY <1>1, MoveType DEF PCs
    <3> QED
      BY <3>1, <3>2, FrameStep
  <2> QED
    BY <1>3, <2>1, <2>2, <2>3, Zenon
<1> QED
  BY <1>0, <1>2, <1>4 DEF TypeInv, TypeOK, RanIsValidated, observed

LEMMA TypeLoadSchema ==
  ASSUME TypeInv, NEW w \in Workers, LoadSchema(w)
  PROVE  TypeInv'
<1> DEFINE f == frame[w]
<1>1. f \in Frame /\ f.seen = <<>> /\ f.job \in Call /\ UNCHANGED Rest
  BY AtType DEF LoadSchema, Rest, observed
<1>2. frame' \in [Workers -> Frame] /\ FramesOK'
  <2>1. CASE Job(w).kind = "approved"
    <3>1. PICK verdict \in {"valid", "invalid"} :
            frame' = [frame EXCEPT ![w].sql = verdict, ![w].pc = "validate"]
      BY <2>1 DEF LoadSchema
    <3> DEFINE g == [f EXCEPT !.sql = verdict, !.pc = "validate"]
    <3>2. frame' = [frame EXCEPT ![w] = g]
      BY <3>1
    <3> HIDE DEF f
    <3>3. g \in Frame
      BY <1>1 DEF Frame, PCs
    <3>4. g.pc = "validate" /\ g.job = f.job /\ g.seen = f.seen
      BY <1>1 DEF Frame
    <3> HIDE DEF g
    <3>5. FrameOK(g)
      BY <1>1, <3>4 DEF FrameOK
    <3> QED
      BY <3>2, <3>3, <3>5, FrameStep
  <2>2. CASE Job(w).kind # "approved"
    <3>1. PICK context \in Contexts(Job(w).user) :
            frame' = [frame EXCEPT ![w].prompt = context, ![w].pc = "generate"]
      BY <2>2 DEF LoadSchema
    <3>2. context \in Seq(Call)
      <4>1. conversation[Job(w).user] \in Seq(Call)
        BY <1>1 DEF TypeInv, TypeOK, Call, Job
      <4>2. LastN(conversation[Job(w).user], ConversationLimit) \in Seq(Call)
        BY <4>1, LastNType, SizesAssumption
      <4>3. context = LastN(conversation[Job(w).user], ConversationLimit) \/ context = <<>>
        BY <3>1, Zenon DEF Contexts
      <4>4. CASE context = <<>>
        BY <4>4
      <4> QED
        BY <4>2, <4>3, <4>4
    <3> DEFINE g == [f EXCEPT !.prompt = context, !.pc = "generate"]
    <3>3. frame' = [frame EXCEPT ![w] = g]
      BY <3>1
    <3> HIDE DEF f
    <3>4. g \in Frame
      BY <1>1, <3>2 DEF Frame, PCs
    <3>5. g.pc = "generate" /\ g.job = f.job /\ g.seen = f.seen
      BY <1>1 DEF Frame
    <3> HIDE DEF g
    <3>6. FrameOK(g)
      BY <1>1, <3>5 DEF FrameOK
    <3> QED
      BY <3>3, <3>4, <3>6, FrameStep
  <2> QED
    BY <2>1, <2>2
<1> QED
  BY <1>1, <1>2, QuietStep

LEMMA TypeGenerate ==
  ASSUME TypeInv, NEW w \in Workers, Generate(w)
  PROVE  TypeInv'
<1> DEFINE f == frame[w]
           keys == <<"llm_calls">>
<1>1. f \in Frame /\ f.seen = <<>> /\ f.job \in Call /\ UNCHANGED Rest
  BY AtType DEF Generate, Rest, observed
<1>2. PICK verdict \in {"valid", "invalid"} :
        frame' = [frame EXCEPT ![w].sql = verdict, ![w].todo = keys, ![w].pc = "validate"]
  BY DEF Generate
<1> DEFINE g == [f EXCEPT !.sql = verdict, !.todo = keys, !.pc = "validate"]
<1>3. frame' = [frame EXCEPT ![w] = g]
  BY <1>2
<1>4. keys \in Seq(MetricKeys)
  BY DEF MetricKeys
<1> HIDE DEF f, keys
<1>5. g \in Frame
  BY <1>1, <1>4 DEF Frame, PCs
<1>6. g.pc = "validate" /\ g.job = f.job /\ g.seen = f.seen
  BY <1>1 DEF Frame
<1> HIDE DEF g
<1>7. FrameOK(g)
  BY <1>1, <1>6 DEF FrameOK
<1> QED
  BY <1>1, <1>3, <1>5, <1>7, FrameStep, QuietStep

LEMMA TypeGenerateFails ==
  ASSUME TypeInv, NEW w \in Workers, GenerateFails(w)
  PROVE  TypeInv'
<1> DEFINE f == frame[w]
           o == [status |-> IF Job(w).kind = "clarify" THEN "ready" ELSE "error",
                 via |-> "pipeline", source |-> Job(w)]
           keys == IF Job(w).kind = "answer" THEN <<"queries_error">> ELSE <<>>
           next == AfterLLMFailure(Job(w).kind)
           g == [f EXCEPT !.sql = "none", !.outcome = o, !.todo = keys, !.pc = next]
<1>1. f \in Frame /\ f.seen = <<>> /\ f.job \in Call /\ UNCHANGED Rest
  BY AtType DEF GenerateFails, Rest, observed
<1>2. frame' = [frame EXCEPT ![w] = g]
  BY DEF GenerateFails
<1>3. keys \in Seq(MetricKeys)
  <2>1. <<"queries_error">> \in Seq(MetricKeys) /\ <<>> \in Seq(MetricKeys)
    BY DEF MetricKeys
  <2> QED
    BY <2>1, Zenon
<1>4. o \in Outcomes /\ next \in {"audit", "return"} /\ (next = "audit" => o.status = "error")
  BY <1>1 DEF Outcomes, Job, AfterLLMFailure
<1> HIDE DEF f, o, keys, next
<1>5. g \in Frame
  BY <1>1, <1>3, <1>4 DEF Frame, Outcomes, PCs
<1>6. g.pc = next /\ g.job = f.job /\ g.seen = f.seen /\ g.outcome = o
  BY <1>1 DEF Frame
<1> HIDE DEF g
<1>7. FrameOK(g)
  BY <1>1, <1>4, <1>6 DEF FrameOK
<1> QED
  BY <1>1, <1>2, <1>5, <1>7, FrameStep, QuietStep

LEMMA TypeReject ==
  ASSUME TypeInv, NEW w \in Workers, Reject(w)
  PROVE  TypeInv'
<1>1. At(w, "validate") /\ UNCHANGED Rest
  BY DEF Reject, Rest, observed
<1>2. frame[w].pc # "idle" /\ frame[w].seen = <<>>
  BY <1>1, AtType
<1>3. /\ <<"validation_failures", "queries_blocked">> \in Seq(MetricKeys)
      /\ <<"validation_failures">> \in Seq(MetricKeys)
      /\ "validation_failures" \in MetricKeys
  BY DEF MetricKeys
<1>4. CASE Decide(w, "blocked", <<"validation_failures", "queries_blocked">>, "audit")
  BY <1>1, <1>2, <1>3, <1>4, DecideType, QuietStep
<1>5. CASE ~GivesUp(w) /\ Retry(w, "validation_failures")
  BY <1>1, <1>2, <1>3, <1>5, RetryType, QuietStep
<1>6. CASE Decide(w, "blocked", <<"validation_failures">>, "return")
  BY <1>1, <1>2, <1>3, <1>6, DecideType, QuietStep
<1>7. CASE Decide(w, "ready", <<"validation_failures">>, "return")
  BY <1>1, <1>2, <1>3, <1>7, DecideType, QuietStep
<1> QED
  BY <1>4, <1>5, <1>6, <1>7, Zenon DEF Reject

LEMMA TypeExplain ==
  ASSUME TypeInv, NEW w \in Workers, Explain(w)
  PROVE  TypeInv'
<1>1. At(w, "explain") /\ UNCHANGED Rest
  BY DEF Explain, Rest, observed
<1>2. frame[w].pc # "idle" /\ frame[w].seen = <<>>
  BY <1>1, AtType
<1>3. PICK status \in {"ready", "error"} : Decide(w, status, <<>>, "return")
  BY DEF Explain
<1>4. <<>> \in Seq(MetricKeys)
  OBVIOUS
<1> QED
  BY <1>1, <1>2, <1>3, <1>4, DecideType, QuietStep

(* A statement reaches the database: it is valid, and of a counted call.   *)
LEMMA TypeRan ==
  ASSUME TypeInv, NEW w \in Workers, At(w, "execute"),
         ran' = ran \cup {[call |-> Job(w), sql |-> frame[w].sql]},
         frame' \in [Workers -> Frame], FramesOK',
         UNCHANGED <<started, memory, audit, boot, crashes>>
  PROVE  TypeInv'
<1> DEFINE r == [call |-> Job(w), sql |-> frame[w].sql]
<1>1. r \in [call : Call, sql : {"none", "valid", "invalid"}]
  BY AtType DEF Frame, Job
<1>2. r.sql = "valid" /\ r.call.kind \in Counted
  BY AtType DEF FrameOK, Job
<1> QED
  BY <1>1, <1>2 DEF TypeInv, TypeOK, RanIsValidated, memory

LEMMA TypeExecute ==
  ASSUME TypeInv, NEW w \in Workers, Execute(w)
  PROVE  TypeInv'
<1>1. frame[w].pc # "idle" /\ frame[w].seen = <<>>
  BY AtType DEF Execute
<1>2. <<"queries_success">> \in Seq(MetricKeys)
  BY DEF MetricKeys
<1>3. frame' \in [Workers -> Frame] /\ FramesOK'
  BY <1>1, <1>2, DecideType DEF Execute
<1> QED
  BY <1>3, TypeRan DEF Execute

LEMMA TypeExecuteFails ==
  ASSUME TypeInv, NEW w \in Workers, ExecuteFails(w)
  PROVE  TypeInv'
<1>1. frame[w].pc # "idle" /\ frame[w].seen = <<>>
  BY AtType DEF ExecuteFails
<1>2. <<"execution_failures", "queries_error">> \in Seq(MetricKeys)
      /\ "execution_failures" \in MetricKeys
  BY DEF MetricKeys
<1>3. frame' \in [Workers -> Frame] /\ FramesOK'
  <2>1. CASE GivesUp(w)
    BY <1>1, <1>2, <2>1, DecideType DEF ExecuteFails
  <2>2. CASE ~GivesUp(w)
    BY <1>1, <1>2, <2>2, RetryType DEF ExecuteFails
  <2> QED
    BY <2>1, <2>2
<1> QED
  BY <1>3, TypeRan DEF ExecuteFails

(* A step after the decision that moves the call from one stage to another *)
(* keeps the frames in order.                                              *)
LEMMA StageType ==
  ASSUME TypeInv, NEW w \in Workers, NEW pc, At(w, pc),
         pc \in {"audit", "remember", "history", "cache"},
         NEW next \in {"remember", "history", "cache", "return"},
         next \in {"remember", "cache"} =>
           frame[w].outcome.status = "success" /\ Job(w).kind = "answer",
         frame' = [frame EXCEPT ![w].pc = next]
  PROVE  frame' \in [Workers -> Frame] /\ FramesOK'
<1> DEFINE f == frame[w]
           g == [f EXCEPT !.pc = next]
<1>1. f \in Frame /\ FrameOK(f) /\ f.pc = pc
  BY AtType
<1>2. f.outcome.status \in {"success", "blocked", "error"}
  BY <1>1 DEF FrameOK
<1>3. g \in Frame /\ FrameOK(g)
  BY <1>1, <1>2, MoveType DEF PCs, Job
<1>4. frame' = [frame EXCEPT ![w] = g]
  OBVIOUS
<1> QED
  BY <1>3, <1>4, FrameStep

LEMMA EntryType ==
  ASSUME TypeInv, NEW w \in Workers, NEW pc, At(w, pc),
         pc \in {"audit", "history"}
  PROVE  EntryOf(w) \in Entry
BY AtType DEF EntryOf, Entry, FrameOK, Job

LEMMA TypeWriteAudit ==
  ASSUME TypeInv, NEW w \in Workers, WriteAudit(w)
  PROVE  TypeInv'
<1>1. /\ At(w, "audit") /\ frame' = [frame EXCEPT ![w].pc = AfterAudit(w)]
      /\ audit' = Append(audit, EntryOf(w))
      /\ UNCHANGED <<started, memory, boot, crashes, observed>>
  BY DEF WriteAudit
<1>2. /\ AfterAudit(w) \in {"remember", "history", "return"}
      /\ AfterAudit(w) = "remember" =>
           frame[w].outcome.status = "success" /\ Job(w).kind = "answer"
  BY DEF AfterAudit
<1>3. frame' \in [Workers -> Frame] /\ FramesOK'
  BY <1>1, <1>2, StageType
<1>4. audit' \in Seq(Entry)
  BY <1>1, EntryType DEF TypeInv, TypeOK
<1> QED
  BY <1>1, <1>3, <1>4 DEF TypeInv, TypeOK, RanIsValidated, memory, observed

LEMMA TypeRemember ==
  ASSUME TypeInv, NEW w \in Workers, Remember(w)
  PROVE  TypeInv'
<1>1. /\ At(w, "remember") /\ frame' = [frame EXCEPT ![w].pc = "history"]
      /\ conversation' = [conversation EXCEPT
           ![Job(w).user] = LastN(Append(conversation[Job(w).user], Job(w)), ConversationLimit)]
      /\ UNCHANGED <<started, metrics, cache, history, userHistory, audit, boot, crashes,
                     observed>>
  BY DEF Remember
<1>2. frame' \in [Workers -> Frame] /\ FramesOK'
  BY <1>1, StageType
<1>3. Job(w) \in Call /\ Job(w).user \in Users
  BY <1>1, AtType DEF Job, Call
<1>4. Append(conversation[Job(w).user], Job(w)) \in Seq(Call)
  BY <1>3 DEF TypeInv, TypeOK
<1>5. LastN(Append(conversation[Job(w).user], Job(w)), ConversationLimit) \in Seq(Call)
  BY <1>4, LastNType, SizesAssumption
<1>6. conversation' \in [Users -> Seq(Call)]
  BY <1>1, <1>5 DEF TypeInv, TypeOK
<1> QED
  BY <1>1, <1>2, <1>6 DEF TypeInv, TypeOK, RanIsValidated, observed

LEMMA TypeAppendHistory ==
  ASSUME TypeInv, NEW w \in Workers, AppendHistory(w)
  PROVE  TypeInv'
<1> DEFINE next == IF Job(w).kind = "answer" /\ frame[w].outcome.status = "success"
                   THEN "cache" ELSE "return"
           u == Job(w).user
<1>1. /\ At(w, "history") /\ frame' = [frame EXCEPT ![w].pc = next]
      /\ history' = LastN(Append(history, EntryOf(w)), MaxHistoryEntries)
      /\ userHistory' = [userHistory EXCEPT
           ![u] = LastN(Append(userHistory[u], EntryOf(w)), MaxHistoryEntries)]
      /\ UNCHANGED <<started, metrics, cache, conversation, audit, boot, crashes, observed>>
  BY DEF AppendHistory
<1>2. /\ next \in {"cache", "return"}
      /\ next = "cache" => frame[w].outcome.status = "success" /\ Job(w).kind = "answer"
  OBVIOUS
<1>3. EntryOf(w) \in Entry /\ u \in Users
  BY <1>1, AtType, EntryType DEF Job, Call
<1> HIDE DEF next, u
<1>4. frame' \in [Workers -> Frame] /\ FramesOK'
  BY <1>1, <1>2, StageType
<1>5. Append(history, EntryOf(w)) \in Seq(Entry) /\ Append(userHistory[u], EntryOf(w)) \in Seq(Entry)
  BY <1>3 DEF TypeInv, TypeOK
<1>6. /\ LastN(Append(history, EntryOf(w)), MaxHistoryEntries) \in Seq(Entry)
      /\ LastN(Append(userHistory[u], EntryOf(w)), MaxHistoryEntries) \in Seq(Entry)
  BY <1>5, LastNType, SizesAssumption
<1>7. history' \in Seq(Entry) /\ userHistory' \in [Users -> Seq(Entry)]
  BY <1>1, <1>6 DEF TypeInv, TypeOK
<1> QED
  BY <1>1, <1>4, <1>7 DEF TypeInv, TypeOK, RanIsValidated, observed

LEMMA TypeUpsertCache ==
  ASSUME TypeInv, NEW w \in Workers, UpsertCache(w)
  PROVE  TypeInv'
<1>1. /\ At(w, "cache") /\ frame' = [frame EXCEPT ![w].pc = "return"]
      /\ UNCHANGED <<started, metrics, conversation, history, userHistory, audit, boot,
                     crashes, observed>>
  BY DEF UpsertCache
<1>2. frame' \in [Workers -> Frame] /\ FramesOK'
  BY <1>1, StageType
<1>3. cache' \in SUBSET Call
  <2>1. Job(w) \in Call
    BY <1>1, AtType DEF Job
  <2>2. CASE UNCHANGED cache
    BY <2>2 DEF TypeInv, TypeOK
  <2>3. CASE cache' \in Bounded((cache \ Hits(Job(w), cache)) \cup {Job(w)}, Job(w))
    <3>1. cache' \subseteq (cache \ Hits(Job(w), cache)) \cup {Job(w)}
      BY <2>3 DEF Bounded
    <3> QED
      BY <2>1, <3>1 DEF TypeInv, TypeOK
  <2> QED
    BY <2>2, <2>3 DEF UpsertCache
<1> QED
  BY <1>1, <1>2, <1>3 DEF TypeInv, TypeOK, RanIsValidated, observed

LEMMA TypeEnd ==
  ASSUME TypeInv, NEW w \in Workers, Return(w) \/ Raise(w)
  PROVE  TypeInv'
<1>1. frame' = [frame EXCEPT ![w] = IdleFrame] /\ UNCHANGED Rest
  BY DEF Return, Raise, Rest
<1> QED
  BY <1>1, IdleFrameType, FrameStep, QuietStep

LEMMA TypeCrash ==
  ASSUME TypeInv, Crash
  PROVE  TypeInv'
<1>1. frame' \in [Workers -> Frame] /\ FramesOK'
  BY IdleFrameType DEF Crash, FramesOK
<1>2. metrics' \in [MetricKeys -> Nat] /\ cache' \in SUBSET Call
  BY DEF Crash
<1>3. /\ conversation' \in [Users -> Seq(Call)] /\ history' \in Seq(Entry)
      /\ userHistory' \in [Users -> Seq(Entry)]
  BY DEF Crash
<1>4. boot' \in Nat /\ crashes' \in Nat /\ UNCHANGED <<started, audit, ran>>
  BY DEF Crash, TypeInv, TypeOK, observed
<1> QED
  BY <1>1, <1>2, <1>3, <1>4 DEF TypeInv, TypeOK, RanIsValidated

LEMMA TypeInit == Init => TypeInv
<1> SUFFICES ASSUME Init PROVE TypeInv
  OBVIOUS
<1>1. frame \in [Workers -> Frame] /\ FramesOK
  BY IdleFrameType DEF Init, FramesOK
<1> QED
  BY <1>1 DEF Init, TypeInv, TypeOK, RanIsValidated

LEMMA TypeNext == TypeInv /\ [Next]_vars => TypeInv'
<1> SUFFICES ASSUME TypeInv, [Next]_vars PROVE TypeInv'
  OBVIOUS
<1>1. CASE UNCHANGED vars
  BY <1>1 DEF vars, observed, Rest, TypeInv, TypeOK, FramesOK, RanIsValidated, memory
<1>2. CASE \E w \in Workers, kind \in Kinds, u \in Users, q \in Questions, d \in Databases :
             Start(w, kind, u, q, d)
  BY <1>2, TypeStart
<1>3. CASE Crash
  BY <1>3, TypeCrash
<1>4. ASSUME NEW w \in Workers, Progress(w) PROVE TypeInv'
  BY <1>4, TypeMetricRead, TypeMetricStore, TypeAskBack, TypeMoves, TypeRefuse, TypeLookup,
     TypeLoadSchema, TypeGenerate, TypeGenerateFails, TypeReject, TypeExplain, TypeExecute,
     TypeExecuteFails, TypeWriteAudit, TypeRemember, TypeAppendHistory, TypeUpsertCache,
     TypeEnd DEF Progress
<1> QED
  BY <1>1, <1>2, <1>3, <1>4 DEF Next

(* Every variable of the service holds values of its kind, and a decided   *)
(* call carries the status its next stage needs.                           *)
THEOREM TypeCorrect == Spec => []TypeOK
<1>1. TypeInv => TypeOK
  BY DEF TypeInv
<1> QED
  BY <1>1, TypeInit, TypeNext, PTL DEF Spec

(* Every statement that reaches a database, approved SQL included, was     *)
(* accepted by the validator in the same call, and belongs to answer() or  *)
(* execute_approved().                                                     *)
THEOREM OnlyValidatedRuns == Spec => []RanIsValidated
<1>1. TypeInv => RanIsValidated
  BY DEF TypeInv
<1> QED
  BY <1>1, TypeInit, TypeNext, PTL DEF Spec

-----------------------------------------------------------------------------
(* What the service remembers can be traced to the audit file: the         *)
(* histories, the conversations, the prompts built from them and the cache *)
(* hold recorded outcomes only, each under its own user and key, with any  *)
(* number of threads and through any crash.                                *)

(* What a frame holds of other calls, or has already had recorded.         *)
Traced(f) ==
  /\ f.pc \in {"remember", "history", "cache"} => Recorded(f.job, f.outcome.status)
  /\ f.outcome.via = "cache" =>
       Recorded(f.outcome.source, "success") /\ Key(f.outcome.source) = Key(f.job)
  /\ \A i \in DOMAIN f.prompt :
       f.prompt[i].user = f.job.user /\ Recorded(f.prompt[i], "success")

FramesTraced == \A w \in Workers : Traced(frame[w])

(* What CacheProvenance says of keys: from it follows what it says of      *)
(* questions, users and databases (KeyTells).                              *)
CacheTraced ==
  /\ \A p \in cache : p.kind = "answer" /\ Recorded(p, "success")
  /\ \A p, q \in cache : Key(p) = Key(q) => p = q
  /\ \A r \in replies : r.via = "cache" =>
       /\ r.call \in Call
       /\ Recorded(r.source, "success") /\ Key(r.source) = Key(r.call)

(* HistoryIsAudited says it of the histories and the conversations.        *)
TraceInv == TypeInv /\ FramesTraced /\ HistoryIsAudited /\ CacheTraced

AuditGrows == audit' = audit \/ \E e \in Entry : audit' = Append(audit, e)

(* A line of the audit file stays there.                                   *)
LEMMA RecordStays ==
  ASSUME TypeInv, NEW c, NEW s, AuditGrows, Recorded(c, s)
  PROVE  Recorded(c, s)'
<1>1. PICK i \in DOMAIN audit : audit[i].call = c /\ audit[i].status = s
  BY DEF Recorded
<1>2. audit \in Seq(Entry)
  BY DEF TypeInv, TypeOK
<1>3. i \in DOMAIN audit' /\ audit'[i] = audit[i]
  BY <1>1, <1>2 DEF AuditGrows
<1> QED
  BY <1>1, <1>3 DEF Recorded

LEMMA TracedStays ==
  ASSUME TypeInv, AuditGrows, NEW v \in Workers, Traced(frame[v]), frame'[v] = frame[v]
  PROVE  Traced(frame[v])'
<1> DEFINE f == frame[v]
<1>1. f'.pc \in {"remember", "history", "cache"} => Recorded(f.job, f.outcome.status)'
  BY RecordStays DEF Traced
<1>2. f'.outcome.via = "cache" => Recorded(f.outcome.source, "success")'
  BY RecordStays DEF Traced
<1>3. \A i \in DOMAIN f'.prompt : Recorded(f.prompt[i], "success")'
  BY RecordStays DEF Traced
<1> QED
  BY <1>1, <1>2, <1>3 DEF Traced

(* A frame that speaks of no other call and of no record.                  *)
Blank(f) ==
  /\ f.pc \notin {"remember", "history", "cache"}
  /\ f.outcome.via # "cache"
  /\ f.prompt = <<>>

(* A step of w that leaves what its frame says of records as it is.        *)
Keeps(w) ==
  /\ frame'[w].job = frame[w].job
  /\ frame'[w].prompt = frame[w].prompt \/ frame'[w].prompt = <<>>
  /\ frame'[w].outcome = frame[w].outcome \/ frame'[w].outcome.via # "cache"
  /\ frame'[w].pc \in {"remember", "history", "cache"} =>
       frame'[w].pc = frame[w].pc /\ frame'[w].outcome = frame[w].outcome

OthersStay(w) == \A v \in Workers \ {w} : frame'[v] = frame[v]

LEMMA FramesStay ==
  ASSUME TraceInv, NEW w \in Workers, OthersStay(w), AuditGrows, Traced(frame[w])'
  PROVE  FramesTraced'
<1>1. ASSUME NEW v \in Workers \ {w} PROVE Traced(frame[v])'
  BY TracedStays DEF TraceInv, FramesTraced, OthersStay
<1> QED
  BY <1>1 DEF FramesTraced

LEMMA BlankIsTraced ==
  ASSUME NEW w \in Workers, Blank(frame[w])'
  PROVE  Traced(frame[w])'
BY DEF Blank, Traced

LEMMA KeepsTraced ==
  ASSUME TraceInv, NEW w \in Workers, AuditGrows, Keeps(w)
  PROVE  Traced(frame[w])'
<1> DEFINE f == frame[w]
           g == frame'[w]
<1>1. Traced(f)
  BY DEF TraceInv, FramesTraced
<1>2. \A c, s : Recorded(c, s) => \E i \in DOMAIN audit' : audit'[i].call = c /\ audit'[i].status = s
  BY RecordStays DEF Recorded, TraceInv
<1>3. g.pc \in {"remember", "history", "cache"} =>
        \E i \in DOMAIN audit' : audit'[i].call = g.job /\ audit'[i].status = g.outcome.status
  BY <1>1, <1>2 DEF Traced, Keeps
<1>4. g.outcome.via = "cache" =>
        /\ \E i \in DOMAIN audit' :
             audit'[i].call = g.outcome.source /\ audit'[i].status = "success"
        /\ Key(g.outcome.source) = Key(g.job)
  <2> SUFFICES ASSUME g.outcome.via = "cache" PROVE <1>4!2
    OBVIOUS
  <2>1. g.outcome = f.outcome /\ g.job = f.job
    BY DEF Keeps
  <2> QED
    BY <1>1, <1>2, <2>1 DEF Traced
<1>5. ASSUME NEW i \in DOMAIN g.prompt
      PROVE  /\ g.prompt[i].user = g.job.user
             /\ \E j \in DOMAIN audit' :
                  audit'[j].call = g.prompt[i] /\ audit'[j].status = "success"
  <2>1. g.prompt = f.prompt /\ g.job = f.job
    BY DEF Keeps
  <2> QED
    BY <1>1, <1>2, <2>1 DEF Traced
<1> QED
  BY <1>3, <1>4, <1>5 DEF Traced, Recorded

(* The histories and the conversations while the audit file grows.         *)
LEMMA HistoryStays ==
  ASSUME TraceInv, AuditGrows, UNCHANGED <<history, userHistory, conversation>>
  PROVE  HistoryIsAudited'
<1>1. \A c, s : Recorded(c, s) => Recorded(c, s)'
  BY RecordStays DEF TraceInv
<1> QED
  BY <1>1 DEF HistoryIsAudited, TraceInv

LEMMA CacheStays ==
  ASSUME TraceInv, AuditGrows, cache' \subseteq cache, UNCHANGED replies
  PROVE  CacheTraced'
<1>1. \A c, s : Recorded(c, s) => Recorded(c, s)'
  BY RecordStays DEF TraceInv
<1> QED
  BY <1>1 DEF CacheTraced, TraceInv

LEMMA QuietTrace ==
  ASSUME TraceInv, TypeInv', NEW w \in Workers, OthersStay(w),
         Keeps(w) \/ Blank(frame[w])',
         UNCHANGED <<cache, conversation, history, userHistory, audit, replies>>
  PROVE  TraceInv'
<1>1. AuditGrows
  BY DEF AuditGrows
<1>2. FramesTraced'
  BY <1>1, KeepsTraced, BlankIsTraced, FramesStay
<1>3. HistoryIsAudited' /\ CacheTraced'
  BY <1>1, HistoryStays, CacheStays
<1> QED
  BY <1>2, <1>3 DEF TraceInv

LEMMA DecideKeeps ==
  ASSUME TypeInv, NEW w \in Workers, NEW status, NEW keys, NEW next \in {"audit", "return"},
         Decide(w, status, keys, next)
  PROVE  OthersStay(w) /\ Keeps(w)
<1> DEFINE o == [status |-> status, via |-> "pipeline", source |-> Job(w)]
<1>1. frame \in [Workers -> Frame]
  BY DEF TypeInv, TypeOK
<1>2. frame' = [frame EXCEPT ![w] = [frame[w] EXCEPT !.outcome = o, !.todo = keys, !.pc = next]]
  BY <1>1 DEF Decide
<1>3. o.via = "pipeline"
  OBVIOUS
<1> HIDE DEF o
<1>4. /\ frame'[w].job = frame[w].job /\ frame'[w].prompt = frame[w].prompt
      /\ frame'[w].outcome = o /\ frame'[w].pc = next
  BY <1>1, <1>2 DEF Frame
<1> QED
  BY <1>1, <1>2, <1>3, <1>4 DEF OthersStay, Keeps

LEMMA RetryKeeps ==
  ASSUME TypeInv, NEW w \in Workers, NEW key, Retry(w, key)
  PROVE  OthersStay(w) /\ Keeps(w)
<1>1. frame \in [Workers -> Frame]
  BY DEF TypeInv, TypeOK
<1>2. /\ frame'[w].job = frame[w].job /\ frame'[w].prompt = <<>>
      /\ frame'[w].outcome = frame[w].outcome /\ frame'[w].pc = "generate"
  BY <1>1 DEF Retry, Frame
<1>3. OthersStay(w)
  BY <1>1 DEF Retry, OthersStay
<1> QED
  BY <1>2, <1>3 DEF Keeps

LEMMA TraceStart ==
  ASSUME TraceInv, TypeInv', NEW w \in Workers, NEW kind \in Kinds, NEW u \in Users,
         NEW q \in Questions, NEW d \in Databases, Start(w, kind, u, q, d)
  PROVE  TraceInv'
<1> DEFINE c == [id |-> started + 1, kind |-> kind, user |-> u, question |-> q, db |-> d]
           f == FirstFrame(c)
<1>1. frame' = [frame EXCEPT ![w] = f]
  BY DEF Start
<1>2. FirstPC(c.kind) \in {"admit", "schema", "ambiguity"}
  BY DEF FirstPC
<1>3. /\ f.pc \notin {"remember", "history", "cache"} /\ f.outcome.via # "cache"
      /\ f.prompt = <<>>
  BY <1>2 DEF FirstFrame, NoOutcome
<1> HIDE DEF f
<1>4. OthersStay(w) /\ Blank(frame[w])'
  BY <1>1, <1>3 DEF TraceInv, TypeInv, TypeOK, OthersStay, Blank
<1> QED
  BY <1>4, QuietTrace DEF Start, memory, observed

(* The steps that only move a call towards its decision.                   *)
LEMMA TraceMoves ==
  ASSUME TraceInv, TypeInv', NEW w \in Workers,
         \/ MetricRead(w) \/ MetricStore(w) \/ Unambiguous(w) \/ Admit(w) \/ Generate(w)
         \/ Accept(w)
  PROVE  TraceInv'
<1>1. frame \in [Workers -> Frame]
  BY DEF TraceInv, TypeInv, TypeOK
<1>2. OthersStay(w)
  BY <1>1 DEF OthersStay, MetricRead, MetricStore, Unambiguous, Admit, Generate, Accept
<1>3. /\ frame'[w].job = frame[w].job /\ frame'[w].prompt = frame[w].prompt
      /\ frame'[w].outcome = frame[w].outcome
      /\ frame'[w].pc \notin {"remember", "history", "cache"} \/ frame'[w].pc = frame[w].pc
  <2>1. CASE MetricRead(w)
    BY <1>1, <2>1 DEF MetricRead, Frame
  <2>2. CASE MetricStore(w)
    BY <1>1, <2>2 DEF MetricStore, Frame
  <2>3. CASE Unambiguous(w)
    BY <1>1, <2>3 DEF Unambiguous, Frame
  <2>4. CASE Admit(w)
    BY <1>1, <2>4 DEF Admit, Frame
  <2>5. CASE Generate(w)
    BY <1>1, <2>5 DEF Generate, Frame
  <2>6. CASE Accept(w)
    BY <1>1, <2>6 DEF Accept, Frame
  <2> QED
    BY <2>1, <2>2, <2>3, <2>4, <2>5, <2>6
<1>4. Keeps(w)
  BY <1>3 DEF Keeps
<1>5. UNCHANGED <<cache, conversation, history, userHistory, audit, replies>>
  BY DEF MetricRead, MetricStore, Unambiguous, Admit, Generate, Accept, memory, observed
<1> QED
  BY <1>2, <1>4, <1>5, QuietTrace

(* The steps that decide a call outside the cache, or repeat an attempt.   *)
LEMMA TraceDecisions ==
  ASSUME TraceInv, TypeInv', NEW w \in Workers,
         \/ AskBack(w) \/ Refuse(w) \/ GenerateFails(w) \/ Reject(w) \/ Explain(w)
         \/ Execute(w) \/ ExecuteFails(w)
  PROVE  TraceInv'
<1>1. frame \in [Workers -> Frame] /\ TypeInv
  BY DEF TraceInv, TypeInv, TypeOK
<1>2. OthersStay(w) /\ Keeps(w)
  <2>1. CASE AskBack(w)
    BY <1>1, <2>1, DecideKeeps DEF AskBack
  <2>2. CASE Refuse(w)
    <3>1. /\ frame'[w].job = frame[w].job /\ frame'[w].prompt = frame[w].prompt
          /\ frame'[w].outcome.via = "limit" /\ frame'[w].pc = "return"
      BY <1>1, <2>2 DEF Refuse, Frame
    <3>2. OthersStay(w)
      BY <1>1, <2>2 DEF Refuse, OthersStay
    <3> QED
      BY <3>1, <3>2 DEF Keeps
  <2>3. CASE GenerateFails(w)
    <3>1. /\ frame'[w].job = frame[w].job /\ frame'[w].prompt = frame[w].prompt
          /\ frame'[w].outcome.via = "pipeline" /\ frame'[w].pc \in {"audit", "return"}
      BY <1>1, <2>3 DEF GenerateFails, AfterLLMFailure, Frame
    <3>2. OthersStay(w)
      BY <1>1, <2>3 DEF GenerateFails, OthersStay
    <3> QED
      BY <3>1, <3>2 DEF Keeps
  <2>4. CASE Reject(w)
    BY <1>1, <2>4, DecideKeeps, RetryKeeps DEF Reject
  <2>5. CASE Explain(w)
    BY <1>1, <2>5, DecideKeeps DEF Explain
  <2>6. CASE Execute(w)
    BY <1>1, <2>6, DecideKeeps DEF Execute
  <2>7. CASE ExecuteFails(w)
    BY <1>1, <2>7, DecideKeeps, RetryKeeps DEF ExecuteFails
  <2> QED
    BY <2>1, <2>2, <2>3, <2>4, <2>5, <2>6, <2>7
<1>3. UNCHANGED <<cache, conversation, history, userHistory, audit, replies>>
  BY DEF AskBack, Refuse, GenerateFails, Reject, Explain, Execute, ExecuteFails, memory, observed
<1> QED
  BY <1>2, <1>3, QuietTrace

(* The prompt is built from the user's own conversation.                   *)
LEMMA TraceLoadSchema ==
  ASSUME TraceInv, TypeInv', NEW w \in Workers, LoadSchema(w)
  PROVE  TraceInv'
<1>1. /\ frame \in [Workers -> Frame] /\ TypeInv
      /\ UNCHANGED <<cache, conversation, history, userHistory, audit, replies>>
  BY DEF TraceInv, TypeInv, TypeOK, LoadSchema, memory, observed
<1>2. CASE Job(w).kind = "approved"
  <2>1. PICK verdict \in {"valid", "invalid"} :
          frame' = [frame EXCEPT ![w].sql = verdict, ![w].pc = "validate"]
    BY <1>2 DEF LoadSchema
  <2>2. /\ frame'[w].job = frame[w].job /\ frame'[w].prompt = frame[w].prompt
        /\ frame'[w].outcome = frame[w].outcome /\ frame'[w].pc = "validate"
    BY <1>1, <2>1 DEF Frame
  <2>3. OthersStay(w)
    BY <1>1, <2>1 DEF OthersStay
  <2>4. Keeps(w)
    BY <2>2 DEF Keeps
  <2> QED
    BY <1>1, <2>3, <2>4, QuietTrace
<1>3. CASE Job(w).kind # "approved"
  <2>1. PICK context \in Contexts(Job(w).user) :
          frame' = [frame EXCEPT ![w].prompt = context, ![w].pc = "generate"]
    BY <1>3 DEF LoadSchema
  <2>2. /\ frame'[w].job = Job(w) /\ frame'[w].prompt = context
        /\ frame'[w].outcome = frame[w].outcome /\ frame'[w].pc = "generate"
    BY <1>1, <2>1 DEF Frame, Job
  <2>3. OthersStay(w) /\ AuditGrows
    BY <1>1, <2>1 DEF OthersStay, AuditGrows
  <2>4. \A i \in DOMAIN context :
          context[i].user = Job(w).user /\ Recorded(context[i], "success")
    <3> DEFINE turns == conversation[Job(w).user]
    <3>1. Job(w).user \in Users
      BY <1>1, AtType DEF LoadSchema, Job, Call
    <3>2. turns \in Seq(Call)
      BY <1>1, <3>1 DEF TypeInv, TypeOK
    <3>3. \A i \in DOMAIN turns : turns[i].user = Job(w).user /\ Recorded(turns[i], "success")
      BY <3>1 DEF TraceInv, HistoryIsAudited
    <3>4. context = LastN(turns, ConversationLimit) \/ context = <<>>
      BY <2>1, Zenon DEF Contexts
    <3>5. CASE context = LastN(turns, ConversationLimit)
      <4> HIDE DEF turns
      <4>1. \A i \in DOMAIN context : \E j \in DOMAIN turns : context[i] = turns[j]
        BY <3>2, <3>5, LastNElements, SizesAssumption
      <4> QED
        BY <3>3, <4>1
    <3>6. CASE context = <<>>
      BY <3>6
    <3> QED
      BY <3>4, <3>5, <3>6
  <2>5. Traced(frame[w])
    BY DEF TraceInv, FramesTraced
  <2>6. Traced(frame[w])'
    BY <1>1, <2>2, <2>4, <2>5 DEF Traced, Recorded, Job
  <2>7. FramesTraced'
    BY <2>3, <2>6, FramesStay
  <2>8. HistoryIsAudited' /\ CacheTraced'
    BY <1>1, <2>3, HistoryStays, CacheStays
  <2> QED
    BY <2>7, <2>8 DEF TraceInv
<1> QED
  BY <1>2, <1>3

(* A hit is an entry under the call's own key.                             *)
LEMMA TraceLookup ==
  ASSUME TraceInv, TypeInv', NEW w \in Workers, Lookup(w)
  PROVE  TraceInv'
<1>1. /\ frame \in [Workers -> Frame] /\ TypeInv /\ AuditGrows
      /\ UNCHANGED <<conversation, history, userHistory, replies>>
  BY DEF TraceInv, TypeInv, TypeOK, Lookup, AuditGrows, observed
<1>2. cache' \subseteq cache
  BY DEF Lookup
<1>3. \/ \E p \in Hits(Job(w), cache) : frame' = [frame EXCEPT
                      ![w].outcome = [status |-> "success", via |-> "cache", source |-> p],
                      ![w].todo = <<"cache_hits">>,
                      ![w].pc = "return"]
      \/ frame' = [frame EXCEPT ![w].todo = <<"cache_misses">>, ![w].pc = "schema"]
      \/ frame' = [frame EXCEPT ![w].pc = "schema"]
  BY Zenon DEF Lookup, Hits
<1>4. OthersStay(w) /\ Traced(frame[w])'
  <2>1. CASE \E p \in Hits(Job(w), cache) : frame' = [frame EXCEPT
                      ![w].outcome = [status |-> "success", via |-> "cache", source |-> p],
                      ![w].todo = <<"cache_hits">>,
                      ![w].pc = "return"]
    <3>1. PICK p \in Hits(Job(w), cache) : frame' = [frame EXCEPT
                      ![w].outcome = [status |-> "success", via |-> "cache", source |-> p],
                      ![w].todo = <<"cache_hits">>,
                      ![w].pc = "return"]
      BY <2>1
    <3> DEFINE o == [status |-> "success", via |-> "cache", source |-> p]
    <3>2. /\ frame'[w].job = Job(w) /\ frame'[w].prompt = frame[w].prompt
          /\ frame'[w].outcome = o /\ frame'[w].pc = "return"
      BY <1>1, <3>1 DEF Frame, Job
    <3>3. Recorded(p, "success")
      BY DEF TraceInv, CacheTraced, Hits
    <3>4. Key(p) = Key(Job(w))
      BY DEF Hits
    <3>5. Traced(frame[w])
      BY DEF TraceInv, FramesTraced
    <3>6. UNCHANGED audit
      BY DEF Lookup
    <3>7. Traced(frame[w])'
      BY <3>2, <3>3, <3>4, <3>5, <3>6 DEF Traced, Recorded, Job
    <3>8. OthersStay(w)
      BY <1>1, <3>1 DEF OthersStay
    <3> QED
      BY <3>7, <3>8
  <2>2. CASE \/ frame' = [frame EXCEPT ![w].todo = <<"cache_misses">>, ![w].pc = "schema"]
             \/ frame' = [frame EXCEPT ![w].pc = "schema"]
    <3>1. /\ frame'[w].job = frame[w].job /\ frame'[w].prompt = frame[w].prompt
          /\ frame'[w].outcome = frame[w].outcome /\ frame'[w].pc = "schema"
      <4>1. CASE frame' = [frame EXCEPT ![w].todo = <<"cache_misses">>, ![w].pc = "schema"]
        BY <1>1, <4>1 DEF Frame
      <4>2. CASE frame' = [frame EXCEPT ![w].pc = "schema"]
        BY <1>1, <4>2 DEF Frame
      <4> QED
        BY <2>2, <4>1, <4>2
    <3>2. OthersStay(w)
      BY <1>1, <2>2 DEF OthersStay
    <3>3. Keeps(w)
      BY <3>1 DEF Keeps
    <3> QED
      BY <1>1, <3>2, <3>3, KeepsTraced
  <2> QED
    BY <1>3, <2>1, <2>2
<1>5. FramesTraced'
  BY <1>1, <1>4, FramesStay
<1>6. HistoryIsAudited' /\ CacheTraced'
  BY <1>1, <1>2, HistoryStays, CacheStays
<1> QED
  BY <1>5, <1>6 DEF TraceInv

LEMMA TraceWriteAudit ==
  ASSUME TraceInv, TypeInv', NEW w \in Workers, WriteAudit(w)
  PROVE  TraceInv'
<1>1. /\ frame \in [Workers -> Frame] /\ audit \in Seq(Entry) /\ TypeInv
      /\ At(w, "audit") /\ audit' = Append(audit, EntryOf(w))
      /\ frame' = [frame EXCEPT ![w].pc = AfterAudit(w)]
      /\ UNCHANGED <<cache, conversation, history, userHistory, replies>>
  BY DEF TraceInv, TypeInv, TypeOK, WriteAudit, memory, observed
<1>2. EntryOf(w) \in Entry /\ AuditGrows
  BY <1>1, EntryType DEF AuditGrows
<1>3. /\ frame'[w].job = frame[w].job /\ frame'[w].prompt = frame[w].prompt
      /\ frame'[w].outcome = frame[w].outcome
  BY <1>1 DEF Frame
<1>4. \A c, s : Recorded(c, s) => \E i \in DOMAIN audit' : audit'[i].call = c /\ audit'[i].status = s
  BY <1>1, <1>2, RecordStays DEF Recorded
<1>5. \E i \in DOMAIN audit' :
        audit'[i].call = frame[w].job /\ audit'[i].status = frame[w].outcome.status
  <2>1. /\ Len(audit) + 1 \in DOMAIN audit' /\ audit'[Len(audit) + 1] = EntryOf(w)
    BY <1>1, <1>2
  <2>2. EntryOf(w).call = frame[w].job /\ EntryOf(w).status = frame[w].outcome.status
    BY DEF EntryOf, Job
  <2> QED
    BY <2>1, <2>2
<1>6. Traced(frame[w])
  BY DEF TraceInv, FramesTraced
<1>7. Traced(frame[w])'
  <2> DEFINE f == frame[w]
             g == frame'[w]
  <2>1. g.outcome.via = "cache" => Key(g.outcome.source) = Key(g.job)
    BY <1>3, <1>6 DEF Traced
  <2>2. g.outcome.via = "cache" =>
          \E i \in DOMAIN audit' : audit'[i].call = g.outcome.source /\ audit'[i].status = "success"
    BY <1>3, <1>4, <1>6 DEF Traced
  <2>3. \A i \in DOMAIN g.prompt :
          /\ g.prompt[i].user = g.job.user
          /\ \E j \in DOMAIN audit' : audit'[j].call = g.prompt[i] /\ audit'[j].status = "success"
    BY <1>3, <1>4, <1>6 DEF Traced
  <2> QED
    BY <1>3, <1>5, <2>1, <2>2, <2>3 DEF Traced, Recorded, Key
<1>8. OthersStay(w)
  BY <1>1 DEF OthersStay
<1>9. FramesTraced' /\ HistoryIsAudited' /\ CacheTraced'
  BY <1>1, <1>2, <1>7, <1>8, FramesStay, HistoryStays, CacheStays
<1> QED
  BY <1>9 DEF TraceInv

(* After the audit record the call moves to a later stage.                 *)
LEMMA StageTraced ==
  ASSUME TraceInv, NEW w \in Workers, NEW next \in {"history", "cache", "return"},
         frame[w].pc \in {"remember", "history", "cache"},
         frame' = [frame EXCEPT ![w].pc = next], UNCHANGED audit
  PROVE  FramesTraced'
<1>1. frame \in [Workers -> Frame] /\ Traced(frame[w]) /\ AuditGrows
  BY DEF TraceInv, TypeInv, TypeOK, FramesTraced, AuditGrows
<1>2. /\ frame'[w].job = frame[w].job /\ frame'[w].prompt = frame[w].prompt
      /\ frame'[w].outcome = frame[w].outcome
  BY <1>1 DEF Frame
<1>3. Traced(frame[w])'
  BY <1>1, <1>2 DEF Traced, Recorded
<1>4. OthersStay(w)
  BY <1>1 DEF OthersStay
<1> QED
  BY <1>1, <1>3, <1>4, FramesStay

LEMMA TraceRemember ==
  ASSUME TraceInv, TypeInv', NEW w \in Workers, Remember(w)
  PROVE  TraceInv'
<1> DEFINE u == Job(w).user
           turns == Append(conversation[u], Job(w))
           last == LastN(turns, ConversationLimit)
<1>1. /\ TypeInv /\ At(w, "remember") /\ frame' = [frame EXCEPT ![w].pc = "history"]
      /\ conversation' = [conversation EXCEPT ![u] = last]
      /\ UNCHANGED <<cache, history, userHistory, audit, replies>>
  BY DEF TraceInv, Remember, observed
<1>2. FramesTraced'
  BY <1>1, StageTraced DEF At
<1>3. Job(w) \in Call /\ u \in Users /\ conversation \in [Users -> Seq(Call)]
  <2>1. Job(w) \in Call
    BY <1>1, AtType DEF Job
  <2> QED
    BY <1>1, <2>1 DEF Call, TypeInv, TypeOK
<1>4. Recorded(Job(w), "success")
  <2>1. frame[w].outcome.status = "success" /\ frame[w].pc = "remember"
    BY <1>1, AtType DEF FrameOK
  <2>2. Traced(frame[w])
    BY DEF TraceInv, FramesTraced
  <2> QED
    BY <2>1, <2>2 DEF Traced, Job
<1>5. \A i \in DOMAIN last : last[i].user = u /\ Recorded(last[i], "success")
  <2>1. turns \in Seq(Call)
    BY <1>3
  <2>2. \A i \in DOMAIN turns : turns[i].user = u /\ Recorded(turns[i], "success")
    <3>1. conversation[u] \in Seq(Call)
      BY <1>3
    <3>2. \A i \in DOMAIN conversation[u] :
            conversation[u][i].user = u /\ Recorded(conversation[u][i], "success")
      BY <1>3 DEF TraceInv, HistoryIsAudited
    <3>3. \A i \in DOMAIN turns :
            turns[i] = Job(w) \/ \E j \in DOMAIN conversation[u] : turns[i] = conversation[u][j]
      BY <1>3, <3>1
    <3> QED
      BY <1>4, <3>2, <3>3
  <2> HIDE DEF turns
  <2>3. \A i \in DOMAIN last : \E j \in DOMAIN turns : last[i] = turns[j]
    BY <2>1, LastNElements, SizesAssumption
  <2> HIDE DEF last
  <2> QED
    BY <2>2, <2>3
<1> HIDE DEF last
<1>6. HistoryIsAudited'
  <2>1. \A v \in Users : \A i \in DOMAIN conversation'[v] :
          Recorded(conversation'[v][i], "success") /\ conversation'[v][i].user = v
    <3>1. conversation'[u] = last /\ \A v \in Users \ {u} : conversation'[v] = conversation[v]
      BY <1>1, <1>3
    <3> QED
      BY <1>5, <3>1 DEF TraceInv, HistoryIsAudited
  <2> QED
    BY <1>1, <2>1 DEF TraceInv, HistoryIsAudited, Recorded
<1>7. CacheTraced'
  BY <1>1, CacheStays DEF AuditGrows
<1> QED
  BY <1>2, <1>6, <1>7 DEF TraceInv

LEMMA TraceAppendHistory ==
  ASSUME TraceInv, TypeInv', NEW w \in Workers, AppendHistory(w)
  PROVE  TraceInv'
<1> DEFINE u == Job(w).user
           e == EntryOf(w)
           all == Append(history, e)
           own == Append(userHistory[u], e)
<1>1. /\ TypeInv /\ At(w, "history") 
      /\ \/ frame' = [frame EXCEPT ![w].pc = "cache"]
         \/ frame' = [frame EXCEPT ![w].pc = "return"]
      /\ history' = LastN(all, MaxHistoryEntries)
      /\ userHistory' = [userHistory EXCEPT ![u] = LastN(own, MaxHistoryEntries)]
      /\ UNCHANGED <<cache, conversation, audit, replies>>
  BY DEF TraceInv, AppendHistory, observed
<1>2. FramesTraced'
  BY <1>1, StageTraced DEF At
<1>3. e \in Entry /\ u \in Users
  <2>1. Job(w) \in Call
    BY <1>1, AtType DEF Job
  <2> QED
    BY <1>1, <2>1, EntryType DEF Call
<1>4. Recorded(e.call, e.status) /\ e.call.user = u
  <2>1. Traced(frame[w]) /\ frame[w].pc = "history"
    BY <1>1 DEF TraceInv, FramesTraced, At
  <2> QED
    BY <2>1 DEF Traced, Job, EntryOf
<1>5. history \in Seq(Entry) /\ userHistory \in [Users -> Seq(Entry)]
  BY <1>1 DEF TypeInv, TypeOK
<1> HIDE DEF e, u
<1>6. all \in Seq(Entry) /\ own \in Seq(Entry)
  BY <1>3, <1>5
<1>7. \A i \in DOMAIN all : all[i] = e \/ \E j \in DOMAIN history : all[i] = history[j]
  BY <1>3, <1>5
<1>8. \A i \in DOMAIN own : own[i] = e \/ \E j \in DOMAIN userHistory[u] : own[i] = userHistory[u][j]
  BY <1>3, <1>5
<1> HIDE DEF all, own
<1>9. \A i \in DOMAIN history' : \E j \in DOMAIN all : history'[i] = all[j]
  BY <1>1, <1>6, LastNElements, SizesAssumption
<1>10. \A i \in DOMAIN userHistory'[u] : \E j \in DOMAIN own : userHistory'[u][i] = own[j]
  <2>1. userHistory'[u] = LastN(own, MaxHistoryEntries)
    BY <1>1, <1>3, <1>5
  <2> QED
    BY <1>6, <2>1, LastNElements, SizesAssumption
<1>11. \A i \in DOMAIN history' : Recorded(history'[i].call, history'[i].status)
  BY <1>4, <1>7, <1>9 DEF TraceInv, HistoryIsAudited
<1>12. \A v \in Users : \A i \in DOMAIN userHistory'[v] :
         Recorded(userHistory'[v][i].call, userHistory'[v][i].status) /\ userHistory'[v][i].call.user = v
  <2>1. \A v \in Users \ {u} : userHistory'[v] = userHistory[v]
    BY <1>1, <1>5
  <2>2. ASSUME NEW v \in Users, NEW i \in DOMAIN userHistory'[v]
        PROVE  /\ Recorded(userHistory'[v][i].call, userHistory'[v][i].status)
               /\ userHistory'[v][i].call.user = v
    <3>1. CASE v = u
      BY <1>3, <1>4, <1>8, <1>10, <2>2, <3>1 DEF TraceInv, HistoryIsAudited
    <3>2. CASE v # u
      BY <2>1, <2>2, <3>2 DEF TraceInv, HistoryIsAudited
    <3> QED
      BY <3>1, <3>2
  <2> QED
    BY <2>2
<1>13. HistoryIsAudited'
  BY <1>1, <1>11, <1>12 DEF TraceInv, HistoryIsAudited, Recorded
<1>14. CacheTraced'
  BY <1>1, CacheStays DEF AuditGrows
<1> QED
  BY <1>2, <1>13, <1>14 DEF TraceInv

LEMMA TraceUpsertCache ==
  ASSUME TraceInv, TypeInv', NEW w \in Workers, UpsertCache(w)
  PROVE  TraceInv'
<1> DEFINE c == Job(w)
           kept == cache \ Hits(c, cache)
<1>1. /\ TypeInv /\ At(w, "cache") /\ frame' = [frame EXCEPT ![w].pc = "return"]
      /\ UNCHANGED <<conversation, history, userHistory, audit, replies>>
  BY DEF TraceInv, UpsertCache, observed
<1>2. FramesTraced'
  <2>1. frame[w].pc \in {"remember", "history", "cache"} /\ UNCHANGED audit
    BY <1>1 DEF At
  <2>2. frame' = [frame EXCEPT ![w].pc = "return"]
    BY <1>1
  <2> QED
    BY <2>1, <2>2, StageTraced
<1>3. HistoryIsAudited'
  <2>1. AuditGrows
    BY <1>1 DEF AuditGrows
  <2> QED
    BY <1>1, <2>1, HistoryStays
<1>4. c.kind = "answer" /\ Recorded(c, "success")
  <2>1. frame[w].outcome.status = "success" /\ frame[w].pc = "cache" /\ c.kind = "answer"
    BY <1>1, AtType DEF FrameOK, Job
  <2>2. Traced(frame[w])
    BY DEF TraceInv, FramesTraced
  <2> QED
    BY <2>1, <2>2 DEF Traced, Job
<1>5. cache' \subseteq kept \cup {c} \/ cache' = cache
  BY DEF UpsertCache, Bounded
<1>6. \A p \in kept : p \in cache /\ Key(p) # Key(c)
  BY DEF Hits
<1> HIDE DEF c, kept
<1>7. \A p \in cache' : p.kind = "answer" /\ Recorded(p, "success")
  BY <1>4, <1>5, <1>6 DEF TraceInv, CacheTraced
<1>8. \A p, q \in cache' : Key(p) = Key(q) => p = q
  BY <1>5, <1>6 DEF TraceInv, CacheTraced
<1>9. \A r \in replies : r.via = "cache" =>
        /\ r.call \in Call
        /\ Recorded(r.source, "success") /\ Key(r.source) = Key(r.call)
  BY DEF TraceInv, CacheTraced
<1>10. CacheTraced'
  <2>1. audit' = audit /\ replies' = replies
    BY <1>1
  <2> QED
    BY <2>1, <1>7, <1>8, <1>9 DEF CacheTraced, Recorded, Key
<1> QED
  BY <1>2, <1>3, <1>10 DEF TraceInv

LEMMA IdleFrameBlank == Blank(IdleFrame)
BY DEF Blank, IdleFrame, NoOutcome

(* A reply is served from the cache only as the frame had it.              *)
LEMMA TraceEnd ==
  ASSUME TraceInv, TypeInv', NEW w \in Workers, Return(w) \/ Raise(w)
  PROVE  TraceInv'
<1> DEFINE via == IF Return(w) THEN frame[w].outcome.via ELSE "raise"
<1>1. /\ frame \in [Workers -> Frame] /\ AuditGrows
      /\ frame' = [frame EXCEPT ![w] = IdleFrame]
      /\ UNCHANGED <<cache, conversation, history, userHistory, audit>>
  BY DEF TraceInv, TypeInv, TypeOK, Return, Raise, memory, AuditGrows
<1>2. OthersStay(w) /\ Blank(frame[w])'
  BY <1>1, IdleFrameBlank DEF OthersStay, Blank
<1>3. FramesTraced'
  BY <1>1, <1>2, BlankIsTraced, FramesStay
<1>4. HistoryIsAudited'
  BY <1>1, HistoryStays
<1>5. PICK r : /\ replies' = replies \cup {r}
               /\ r.via = "cache" =>
                    /\ r.call \in Call
                    /\ Recorded(r.source, "success") /\ Key(r.source) = Key(r.call)
  <2>1. Traced(frame[w])
    BY DEF TraceInv, FramesTraced
  <2>2. CASE Return(w)
    <3> DEFINE r == Reply(w, frame[w].outcome.via)
    <3>1. /\ r.via = frame[w].outcome.via /\ r.source = frame[w].outcome.source
          /\ r.call = frame[w].job
      BY DEF Reply, Job
    <3>2. replies' = replies \cup {r}
      BY <2>2 DEF Return
    <3> HIDE DEF r
    <3>3. frame[w].job \in Call
      BY <2>2, AtType DEF TraceInv, Return
    <3> QED
      BY <2>1, <3>1, <3>2, <3>3 DEF Traced
  <2>3. CASE Raise(w)
    <3> DEFINE r == Reply(w, "raise")
    <3>1. r.via = "raise"
      BY DEF Reply
    <3>2. replies' = replies \cup {r}
      BY <2>3 DEF Raise
    <3> HIDE DEF r
    <3> QED
      BY <3>1, <3>2
  <2> QED
    BY <2>2, <2>3
<1>6. CacheTraced'
  <2>1. \A q \in replies' : q.via = "cache" =>
          /\ q.call \in Call
          /\ Recorded(q.source, "success") /\ Key(q.source) = Key(q.call)
    BY <1>5 DEF TraceInv, CacheTraced
  <2>2. /\ \A p \in cache : p.kind = "answer" /\ Recorded(p, "success")
        /\ \A p, q \in cache : Key(p) = Key(q) => p = q
    BY DEF TraceInv, CacheTraced
  <2> QED
    BY <1>1, <2>1, <2>2 DEF CacheTraced, Recorded, Key
<1> QED
  BY <1>3, <1>4, <1>6 DEF TraceInv

LEMMA TraceCrash ==
  ASSUME TraceInv, TypeInv', Crash
  PROVE  TraceInv'
<1>1. /\ frame' = [w \in Workers |-> IdleFrame] /\ cache' = {} /\ AuditGrows
      /\ conversation' = [u \in Users |-> <<>>] /\ history' = <<>>
      /\ userHistory' = [u \in Users |-> <<>>] /\ UNCHANGED <<audit, replies>>
  BY DEF Crash, observed, AuditGrows
<1>2. \A w \in Workers : Blank(frame[w])'
  BY <1>1, IdleFrameBlank DEF Blank
<1>3. FramesTraced'
  BY <1>2, BlankIsTraced DEF FramesTraced
<1>4. HistoryIsAudited'
  BY <1>1 DEF HistoryIsAudited
<1>5. CacheTraced'
  BY <1>1, CacheStays
<1> QED
  BY <1>3, <1>4, <1>5 DEF TraceInv

LEMMA TraceInit == Init => TraceInv
<1> SUFFICES ASSUME Init PROVE TraceInv
  OBVIOUS
<1>1. Traced(IdleFrame)
  BY DEF Traced, IdleFrame, NoOutcome
<1>2. FramesTraced
  BY <1>1 DEF Init, FramesTraced
<1>3. HistoryIsAudited /\ CacheTraced
  BY DEF Init, HistoryIsAudited, CacheTraced
<1> QED
  BY <1>2, <1>3, TypeInit DEF TraceInv

LEMMA TraceNext == TraceInv /\ [Next]_vars => TraceInv'
<1> SUFFICES ASSUME TraceInv, [Next]_vars PROVE TraceInv'
  OBVIOUS
<1>1. TypeInv'
  BY TypeNext DEF TraceInv
<1>2. CASE UNCHANGED vars
  <2>1. UNCHANGED <<frame, cache, conversation, history, userHistory, audit, replies>>
    BY <1>2 DEF vars, memory, observed
  <2>2. AuditGrows
    BY <2>1 DEF AuditGrows
  <2>3. FramesTraced'
    BY <2>1 DEF TraceInv, FramesTraced, Traced, Recorded
  <2> QED
    BY <1>1, <2>1, <2>2, <2>3, HistoryStays, CacheStays DEF TraceInv
<1>3. CASE \E w \in Workers, kind \in Kinds, u \in Users, q \in Questions, d \in Databases :
             Start(w, kind, u, q, d)
  BY <1>1, <1>3, TraceStart
<1>4. CASE Crash
  BY <1>1, <1>4, TraceCrash
<1>5. ASSUME NEW w \in Workers, Progress(w) PROVE TraceInv'
  BY <1>1, <1>5, TraceMoves, TraceDecisions, TraceLoadSchema, TraceLookup, TraceWriteAudit,
     TraceRemember, TraceAppendHistory, TraceUpsertCache, TraceEnd DEF Progress
<1> QED
  BY <1>2, <1>3, <1>4, <1>5 DEF Next

(* The in-memory histories and conversations hold recorded outcomes only,  *)
(* each under its own user.                                                *)
THEOREM HistoriesAreAudited == Spec => []HistoryIsAudited
<1>1. TraceInv => HistoryIsAudited
  BY DEF TraceInv
<1> QED
  BY <1>1, TraceInit, TraceNext, PTL DEF Spec

(* A prompt carries no turn of another user, and none that was not         *)
(* answered with success and recorded.                                     *)
THEOREM ContextsAreOwn == Spec => []ContextIsOwn
<1>1. TraceInv => ContextIsOwn
  BY DEF TraceInv, FramesTraced, Traced, ContextIsOwn, Job
<1> QED
  BY <1>1, TraceInit, TraceNext, PTL DEF Spec

-----------------------------------------------------------------------------
(* The key of the cache.                                                   *)
Texts == Seq(Characters \cup {Colon})

CallTexts(c) == c.question \in Texts /\ c.user \in Texts /\ c.db \in Texts

LEMMA TextsType ==
  ASSUME NEW c \in Call
  PROVE  CallTexts(c) /\ Len(c.user) > 0
<1>1. c.question \in Questions /\ c.user \in Users /\ c.db \in Databases
  BY DEF Call
<1>2. \A t \in Seq(Characters) : t \in Texts
  BY DEF Texts
<1>3. \A t \in Seq(Characters) \ {<<>>} : Len(t) > 0
  OBVIOUS
<1> QED
  BY <1>1, <1>2, <1>3, TextsAssumption DEF CallTexts

LEMMA Joined ==
  ASSUME NEW s \in Texts, NEW t \in Texts
  PROVE  /\ s \o t \in Texts /\ Len(s \o t) = Len(s) + Len(t)
         /\ \A i \in 1 .. Len(s) : (s \o t)[i] = s[i]
         /\ \A i \in Len(s) + 1 .. Len(s) + Len(t) : (s \o t)[i] = t[i - Len(s)]
BY DEF Texts

LEMMA ColonsJoined ==
  ASSUME NEW s \in Texts
  PROVE  /\ s \o Colons \in Texts /\ Len(s \o Colons) = Len(s) + 2
         /\ \A i \in 1 .. Len(s) : (s \o Colons)[i] = s[i]
         /\ (s \o Colons)[Len(s) + 1] = Colon /\ (s \o Colons)[Len(s) + 2] = Colon
BY DEF Texts, Colons

(* What stands where in the key of a question, a user and a database of    *)
(* these lengths.                                                          *)
Laid(k, c, q, u, d) ==
  /\ q \in Nat /\ u \in Nat /\ d \in Nat /\ Len(k) = q + u + d + 4
  /\ DOMAIN c.question = 1 .. q /\ DOMAIN c.user = 1 .. u /\ DOMAIN c.db = 1 .. d
  /\ \A i \in 1 .. q : k[i] = c.question[i]
  /\ k[q + 1] = Colon /\ k[q + 2] = Colon
  /\ \A i \in q + 3 .. q + u + 2 : k[i] = c.user[i - q - 2]
  /\ k[q + u + 3] = Colon /\ k[q + u + 4] = Colon
  /\ \A i \in q + u + 5 .. q + u + d + 4 : k[i] = c.db[i - q - u - 4]

LEMMA KeyLaid ==
  ASSUME NEW c, CallTexts(c)
  PROVE  Laid(Key(c), c, Len(c.question), Len(c.user), Len(c.db))
<1> DEFINE q == Len(c.question)
           u == Len(c.user)
           d == Len(c.db)
           k1 == c.question \o Colons
           k2 == k1 \o c.user
           k3 == k2 \o Colons
           k == k3 \o c.db
<1>1. c.question \in Texts /\ c.user \in Texts /\ c.db \in Texts
  BY DEF CallTexts
<1>2. /\ q \in Nat /\ u \in Nat /\ d \in Nat
      /\ DOMAIN c.question = 1 .. q /\ DOMAIN c.user = 1 .. u /\ DOMAIN c.db = 1 .. d
  BY <1>1 DEF Texts
<1>3. /\ k1 \in Texts /\ Len(k1) = q + 2
      /\ \A i \in 1 .. q : k1[i] = c.question[i]
      /\ k1[q + 1] = Colon /\ k1[q + 2] = Colon
  BY <1>1, ColonsJoined
<1> HIDE DEF k1
<1>4. /\ k2 \in Texts /\ Len(k2) = Len(k1) + u
      /\ \A i \in 1 .. Len(k1) : k2[i] = k1[i]
      /\ \A i \in Len(k1) + 1 .. Len(k1) + u : k2[i] = c.user[i - Len(k1)]
  BY <1>1, <1>3, Joined
<1> HIDE DEF k2
<1>5. /\ k3 \in Texts /\ Len(k3) = Len(k2) + 2
      /\ \A i \in 1 .. Len(k2) : k3[i] = k2[i]
      /\ k3[Len(k2) + 1] = Colon /\ k3[Len(k2) + 2] = Colon
  BY <1>4, ColonsJoined
<1> HIDE DEF k3
<1>6. /\ k \in Texts /\ Len(k) = Len(k3) + d
      /\ \A i \in 1 .. Len(k3) : k[i] = k3[i]
      /\ \A i \in Len(k3) + 1 .. Len(k3) + d : k[i] = c.db[i - Len(k3)]
  BY <1>1, <1>5, Joined
<1>7. Key(c) = k
  BY DEF Key, k1, k2, k3
<1> HIDE DEF k, q, u, d
<1>8. Len(k2) = q + u + 2 /\ Len(k3) = q + u + 4 /\ Len(k) = q + u + d + 4
  BY <1>2, <1>3, <1>4, <1>5, <1>6
<1>9. /\ \A i \in 1 .. q : k[i] = c.question[i]
      /\ k[q + 1] = Colon /\ k[q + 2] = Colon
  <2>1. \A i \in 1 .. q + 2 : k[i] = k1[i]
    BY <1>2, <1>3, <1>4, <1>5, <1>6, <1>8
  <2> QED
    BY <1>2, <1>3, <2>1
<1>10. \A i \in q + 3 .. q + u + 2 : k[i] = c.user[i - q - 2]
  <2>1. \A i \in q + 3 .. q + u + 2 : k[i] = k2[i]
    BY <1>2, <1>5, <1>6, <1>8
  <2>2. ASSUME NEW i \in q + 3 .. q + u + 2 PROVE k2[i] = c.user[i - (q + 2)]
    <3>1. Len(k1) = q + 2
      BY <1>3
    <3>2. i \in Len(k1) + 1 .. Len(k1) + u
      BY <1>2, <3>1
    <3>3. k2[i] = c.user[i - Len(k1)]
      BY <1>4, <3>2
    <3> QED
      BY <3>1, <3>3
  <2>3. \A i \in q + 3 .. q + u + 2 : i - (q + 2) = i - q - 2
    BY <1>2
  <2> QED
    BY <2>1, <2>2, <2>3
<1>11. k[q + u + 3] = Colon /\ k[q + u + 4] = Colon
  <2>1. k3[q + u + 3] = Colon /\ k3[q + u + 4] = Colon
    <3>1. Len(k2) + 1 = q + u + 3 /\ Len(k2) + 2 = q + u + 4
      BY <1>2, <1>8
    <3> QED
      BY <1>5, <3>1
  <2>2. q + u + 3 \in 1 .. Len(k3) /\ q + u + 4 \in 1 .. Len(k3)
    BY <1>2, <1>8
  <2> QED
    BY <1>6, <2>1, <2>2
<1>12. \A i \in q + u + 5 .. q + u + d + 4 : k[i] = c.db[i - q - u - 4]
  <2>1. \A i \in q + u + 5 .. q + u + d + 4 : k[i] = c.db[i - (q + u + 4)]
    BY <1>2, <1>6, <1>8
  <2>2. \A i \in q + u + 5 .. q + u + d + 4 : i - (q + u + 4) = i - q - u - 4
    BY <1>2
  <2> QED
    BY <2>1, <2>2
<1>13. Laid(k, c, q, u, d)
  BY <1>2, <1>8, <1>9, <1>10, <1>11, <1>12 DEF Laid
<1> QED
  BY <1>7, <1>13 DEF q, u, d

(* Two colons stand together in the key of such a call where the code      *)
(* writes them, and nowhere else.                                          *)
LEMMA OnlyJoins ==
  ASSUME NEW c, Unmistakable(c),
         NEW k, NEW q, NEW u, NEW d, Laid(k, c, q, u, d), u > 0,
         NEW i \in 1 .. q + u + d + 3, k[i] = Colon, k[i + 1] = Colon
  PROVE  i = q + 1 \/ i = q + u + 3
<1>1. DOMAIN c.question = 1 .. q /\ DOMAIN c.user = 1 .. u /\ DOMAIN c.db = 1 .. d
  BY DEF Laid
<1>2. \A j \in 1 .. q : c.question[j] = Colon => j + 1 \in 1 .. q /\ c.question[j + 1] # Colon
  BY <1>1 DEF Unmistakable, ColonsBefore
<1>3. \A j \in 1 .. u : c.user[j] = Colon =>
        j - 1 \in 1 .. u /\ j + 1 \in 1 .. u /\ c.user[j + 1] # Colon
  BY <1>1 DEF Unmistakable, ColonsBefore, ColonsAfter
<1>4. \A j \in 1 .. d : c.db[j] = Colon => j - 1 \in 1 .. d /\ c.db[j - 1] # Colon
  BY <1>1 DEF Unmistakable, ColonsAfter
<1>5. q \in Nat /\ u \in Nat /\ d \in Nat
  BY DEF Laid
<1>6. ~(i \in 1 .. q)
  <2> SUFFICES ASSUME i \in 1 .. q PROVE FALSE
    OBVIOUS
  <2>1. c.question[i] = Colon
    BY DEF Laid
  <2>2. i + 1 \in 1 .. q /\ c.question[i + 1] # Colon
    BY <1>2, <2>1
  <2>3. k[i + 1] = c.question[i + 1]
    BY <2>2 DEF Laid
  <2> QED
    BY <2>2, <2>3
<1>7. i # q + 2
  <2> SUFFICES ASSUME i = q + 2 PROVE FALSE
    OBVIOUS
  <2>1. q + 3 \in q + 3 .. q + u + 2 /\ i + 1 = q + 3 /\ (q + 3) - q - 2 = 1
    BY <1>5
  <2>2. k[q + 3] = c.user[(q + 3) - q - 2]
    BY <2>1 DEF Laid
  <2>3. c.user[1] = Colon
    BY <2>1, <2>2
  <2>4. 1 \in 1 .. u /\ 1 - 1 \notin 1 .. u
    BY <1>5
  <2> QED
    BY <1>3, <2>3, <2>4
<1>8. ~(i \in q + 3 .. q + u + 2)
  <2> SUFFICES ASSUME i \in q + 3 .. q + u + 2 PROVE FALSE
    OBVIOUS
  <2>1. i - q - 2 \in 1 .. u /\ c.user[i - q - 2] = Colon
    BY <1>5 DEF Laid
  <2>2. (i - q - 2) + 1 \in 1 .. u /\ c.user[(i - q - 2) + 1] # Colon
    BY <1>3, <2>1
  <2>3. (i - q - 2) + 1 = (i + 1) - q - 2 /\ i + 1 \in q + 3 .. q + u + 2
    BY <1>5, <2>2
  <2>4. k[i + 1] = c.user[(i + 1) - q - 2]
    BY <2>3 DEF Laid
  <2> QED
    BY <2>2, <2>3, <2>4
<1>9. ~(i \in q + u + 4 .. q + u + d + 3)
  <2> SUFFICES ASSUME i \in q + u + 4 .. q + u + d + 3 PROVE FALSE
    OBVIOUS
  <2> DEFINE j == (i + 1) - q - u - 4
  <2>1. i + 1 \in q + u + 5 .. q + u + d + 4 /\ j \in 1 .. d
    BY <1>5
  <2>2. c.db[j] = Colon
    BY <2>1 DEF Laid
  <2>3. j - 1 \in 1 .. d /\ c.db[j - 1] # Colon
    BY <1>4, <2>1, <2>2
  <2>4. j - 1 = i - q - u - 4 /\ i \in q + u + 5 .. q + u + d + 4
    BY <1>5, <2>3
  <2>5. k[i] = c.db[i - q - u - 4]
    BY <2>4 DEF Laid
  <2> QED
    BY <2>3, <2>4, <2>5
<1> QED
  BY <1>5, <1>6, <1>7, <1>8, <1>9

(* The key of a call with unmistakable texts is the key of no other        *)
(* question, user and database.                                            *)
LEMMA KeyTells ==
  ASSUME NEW c \in Call, NEW s \in Call, Key(s) = Key(c), Unmistakable(c)
  PROVE  s.question = c.question /\ s.user = c.user /\ s.db = c.db
<1> DEFINE k == Key(c)
           q == Len(c.question)
           u == Len(c.user)
           d == Len(c.db)
           q1 == Len(s.question)
           u1 == Len(s.user)
           d1 == Len(s.db)
<1>1. CallTexts(c) /\ u > 0 /\ CallTexts(s) /\ u1 > 0
  BY TextsType
<1>2. Laid(k, c, q, u, d) /\ Laid(k, s, q1, u1, d1)
  BY <1>1, KeyLaid
<1>3. \A i \in 1 .. q + u + d + 3 :
        k[i] = Colon /\ k[i + 1] = Colon => i = q + 1 \/ i = q + u + 3
  <2> HIDE DEF k, q, u, d
  <2> QED
    BY <1>1, <1>2, OnlyJoins
<1>4. /\ c.question \in Texts /\ c.user \in Texts /\ c.db \in Texts
      /\ s.question \in Texts /\ s.user \in Texts /\ s.db \in Texts
  BY <1>1 DEF CallTexts
<1> HIDE DEF k, q, u, d, q1, u1, d1
<1>5. /\ q \in Nat /\ u \in Nat /\ d \in Nat /\ q1 \in Nat /\ u1 \in Nat /\ d1 \in Nat
      /\ q1 + u1 + d1 = q + u + d
  <2>1. ASSUME NEW e, NEW a, NEW b, NEW f, Laid(k, e, a, b, f)
        PROVE  a \in Nat /\ b \in Nat /\ f \in Nat /\ Len(k) = a + b + f + 4
    BY <2>1 DEF Laid
  <2> QED
    BY <1>2, <2>1
<1>6. q1 = q /\ u1 = u /\ d1 = d
  <2>1. q1 + 1 = q + 1 \/ q1 + 1 = q + u + 3
    <3>1. /\ q1 + 1 \in 1 .. q + u + d + 3 /\ (q1 + 1) + 1 = q1 + 2
          /\ k[q1 + 1] = Colon /\ k[q1 + 2] = Colon
      BY <1>2, <1>5 DEF Laid
    <3> QED
      BY <1>3, <3>1
  <2>2. q1 + u1 + 3 = q + 1 \/ q1 + u1 + 3 = q + u + 3
    <3>1. /\ q1 + u1 + 3 \in 1 .. q + u + d + 3 /\ (q1 + u1 + 3) + 1 = q1 + u1 + 4
          /\ k[q1 + u1 + 3] = Colon /\ k[q1 + u1 + 4] = Colon
      BY <1>2, <1>5 DEF Laid
    <3> QED
      BY <1>3, <3>1
  <2> QED
    BY <1>1, <1>5, <2>1, <2>2
<1>7. Laid(k, s, q, u, d)
  BY <1>2, <1>6
<1>8. s.question = c.question
  <2>1. \A j \in 1 .. q : s.question[j] = c.question[j]
    BY <1>2, <1>7 DEF Laid
  <2> QED
    BY <1>4, <1>6, <2>1, SeqEqual DEF Texts, q, q1
<1>9. s.user = c.user
  <2>1. ASSUME NEW j \in 1 .. u PROVE s.user[j] = c.user[j]
    <3>1. j + q + 2 \in q + 3 .. q + u + 2 /\ (j + q + 2) - q - 2 = j
      BY <1>5
    <3>2. /\ k[j + q + 2] = c.user[(j + q + 2) - q - 2]
          /\ k[j + q + 2] = s.user[(j + q + 2) - q - 2]
      BY <1>2, <1>7, <3>1 DEF Laid
    <3> QED
      BY <3>1, <3>2
  <2> QED
    BY <1>4, <1>6, <2>1, SeqEqual DEF Texts, u, u1
<1>10. s.db = c.db
  <2>1. ASSUME NEW j \in 1 .. d PROVE s.db[j] = c.db[j]
    <3>1. /\ j + q + u + 4 \in q + u + 5 .. q + u + d + 4
          /\ (j + q + u + 4) - q - u - 4 = j
      BY <1>5
    <3>2. /\ k[j + q + u + 4] = c.db[(j + q + u + 4) - q - u - 4]
          /\ k[j + q + u + 4] = s.db[(j + q + u + 4) - q - u - 4]
      BY <1>2, <1>7, <3>1 DEF Laid
    <3> QED
      BY <3>1, <3>2
  <2> QED
    BY <1>4, <1>6, <2>1, SeqEqual DEF Texts, d, d1
<1> QED
  BY <1>8, <1>9, <1>10

(* The cache serves recorded successes of answer() only, at most one per   *)
(* key, and each only to calls of the same key: for calls whose texts are  *)
(* unmistakable, to the same question of the same user on the same         *)
(* database, whatever the other texts are.                                 *)
THEOREM CacheIsProvenant == Spec => []CacheProvenance
<1>1. ASSUME TraceInv PROVE CacheProvenance
  <2>1. CacheTraced /\ audit \in Seq(Entry)
    BY <1>1 DEF TraceInv, TypeInv, TypeOK
  <2>2. ASSUME NEW r \in replies, r.via = "cache", Unmistakable(r.call)
        PROVE  /\ r.source.question = r.call.question
               /\ r.source.user = r.call.user
               /\ r.source.db = r.call.db
    <3>1. r.call \in Call /\ Recorded(r.source, "success") /\ Key(r.source) = Key(r.call)
      BY <2>1, <2>2 DEF CacheTraced
    <3>2. PICK i \in DOMAIN audit : audit[i].call = r.source
      BY <3>1 DEF Recorded
    <3>3. r.source \in Call
      <4>1. audit[i] \in Entry
        BY <2>1
      <4> QED
        BY <3>2, <4>1 DEF Entry
    <3> QED
      BY <2>2, <3>1, <3>3, KeyTells
  <2> QED
    BY <2>1, <2>2 DEF CacheTraced, CacheProvenance
<1>2. TraceInv => CacheProvenance
  BY <1>1
<1> QED
  BY <1>2, TraceInit, TraceNext, PTL DEF Spec

-----------------------------------------------------------------------------
(* The lines that an audit file has for a call.                            *)
Lines(log, c) == {i \in DOMAIN log : log[i].call = c}

OneLine(log, c, s) == \E i \in DOMAIN log : Lines(log, c) = {i} /\ log[i].status = s

(* The frame's call is past its audit record.                              *)
Written(f) ==
  \/ f.pc \in {"remember", "history", "cache"}
  \/ f.pc = "return" /\ f.outcome.via = "pipeline" /\ f.job.kind \in Counted

(* Which calls reach a stage.                                              *)
Staged(f) ==
  /\ f.pc \in {"audit", "remember", "history", "cache"} =>
       f.outcome.via = "pipeline" /\ f.job.kind \in Counted
  /\ f.pc \in {"ambiguity", "explain"} => f.job.kind \notin Counted
  /\ f.pc = "generate" => f.job.kind # "approved"

(* A frame's call has its line once it is written, and none before.        *)
Logged(f) ==
  f.pc # "idle" =>
    IF Written(f) THEN OneLine(audit, f.job, f.outcome.status) ELSE Lines(audit, f.job) = {}

(* No two calls are one: their ids grow with started.                      *)
CallsDiffer ==
  /\ \A w \in Workers : frame[w].pc # "idle" => frame[w].job.id \in 0 .. started
  /\ \A i \in DOMAIN audit : audit[i].call.id \in 0 .. started
  /\ \A r \in replies : r.call.id \in 0 .. started
  /\ \A v, w \in Workers :
       v # w /\ frame[v].pc # "idle" /\ frame[w].pc # "idle" =>
         frame[v].job.id # frame[w].job.id
  /\ \A r \in replies : \A w \in Workers : frame[w].pc # "idle" =>
       frame[w].job.id # r.call.id

FramesLogged == \A w \in Workers : Staged(frame[w]) /\ Logged(frame[w])

RepliesLogged ==
  \A r \in replies :
    IF r.call.kind \in Counted /\ r.via = "pipeline"
    THEN OneLine(audit, r.call, r.status)
    ELSE Lines(audit, r.call) = {} \/ \E s : OneLine(audit, r.call, s)

AuditInv == TypeInv /\ CallsDiffer /\ FramesLogged /\ RepliesLogged

-----------------------------------------------------------------------------
(* A step of w inside its call that writes no line and ends nothing.       *)
Passes(w) ==
  /\ OthersStay(w)
  /\ frame'[w].pc # "idle" => frame[w].pc # "idle"
  /\ frame'[w].job = frame[w].job
  /\ Written(frame'[w]) <=> Written(frame[w])
  /\ Written(frame[w]) => frame'[w].outcome.status = frame[w].outcome.status
  /\ Staged(frame'[w])

LEMMA PassesLogged ==
  ASSUME AuditInv, TypeInv', NEW w \in Workers, Passes(w),
         UNCHANGED <<audit, replies, started>>
  PROVE  AuditInv'
<1>1. \A v \in Workers \ {w} : frame'[v] = frame[v]
  BY DEF Passes, OthersStay
<1>2. \A v \in Workers : frame'[v].pc # "idle" =>
        frame[v].pc # "idle" /\ frame'[v].job = frame[v].job
  BY <1>1 DEF Passes
<1>3. CallsDiffer'
  BY <1>2 DEF AuditInv, CallsDiffer
<1>4. Logged(frame[w]) /\ Staged(frame'[w])
  BY DEF AuditInv, FramesLogged, Passes
<1>5. Logged(frame[w])'
  BY <1>4 DEF Logged, Passes, Written
<1>6. Staged(frame[w])'
  BY <1>4 DEF Staged
<1>7. ASSUME NEW v \in Workers \ {w} PROVE Staged(frame[v])' /\ Logged(frame[v])'
  <2>1. frame'[v] = frame[v] /\ Staged(frame[v]) /\ Logged(frame[v])
    BY <1>1 DEF AuditInv, FramesLogged
  <2> QED
    BY <2>1 DEF Staged, Logged, Written
<1>8. FramesLogged'
  BY <1>5, <1>6, <1>7 DEF FramesLogged
<1>9. RepliesLogged'
  BY DEF AuditInv, RepliesLogged
<1> QED
  BY <1>3, <1>8, <1>9 DEF AuditInv

(* A call is decided at a stage that has written no line.                  *)
LEMMA DecidePasses ==
  ASSUME AuditInv, NEW w \in Workers, NEW status, NEW keys, NEW next \in {"audit", "return"},
         frame[w].pc # "idle", ~Written(frame[w]), frame[w].job.kind \in Counted <=> next = "audit",
         Decide(w, status, keys, next)
  PROVE  Passes(w)
<1> DEFINE o == [status |-> status, via |-> "pipeline", source |-> Job(w)]
<1>1. frame \in [Workers -> Frame]
  BY DEF AuditInv, TypeInv, TypeOK
<1>2. frame' = [frame EXCEPT ![w] = [frame[w] EXCEPT !.outcome = o, !.todo = keys, !.pc = next]]
  BY <1>1 DEF Decide
<1>3. o.via = "pipeline"
  OBVIOUS
<1> HIDE DEF o
<1>4. frame'[w].job = frame[w].job /\ frame'[w].outcome = o /\ frame'[w].pc = next
  BY <1>1, <1>2 DEF Frame
<1>5. OthersStay(w)
  BY <1>1, <1>2 DEF OthersStay
<1>6. Staged(frame'[w]) /\ ~Written(frame'[w])
  BY <1>3, <1>4 DEF Staged, Written
<1> QED
  BY <1>4, <1>5, <1>6 DEF Passes

LEMMA RetryPasses ==
  ASSUME AuditInv, NEW w \in Workers, NEW key,
         frame[w].pc # "idle", ~Written(frame[w]), frame[w].job.kind # "approved",
         Retry(w, key)
  PROVE  Passes(w)
<1>1. frame \in [Workers -> Frame]
  BY DEF AuditInv, TypeInv, TypeOK
<1>2. frame'[w].job = frame[w].job /\ frame'[w].pc = "generate"
  BY <1>1 DEF Retry, Frame
<1>3. OthersStay(w)
  BY <1>1 DEF Retry, OthersStay
<1> QED
  BY <1>2, <1>3 DEF Passes, Staged, Written

(* What holds of a worker that stands at pc.                               *)
LEMMA AtAudit ==
  ASSUME AuditInv, NEW w \in Workers, NEW pc, At(w, pc), pc # "idle"
  PROVE  /\ frame \in [Workers -> Frame] /\ TypeInv
         /\ frame[w].pc = pc /\ Staged(frame[w]) /\ Logged(frame[w])
         /\ Job(w) = frame[w].job /\ Job(w) \in Call /\ Job(w).kind \in Kinds
<1>1. TypeInv /\ frame \in [Workers -> Frame] /\ Staged(frame[w]) /\ Logged(frame[w])
  BY DEF AuditInv, TypeInv, TypeOK, FramesLogged
<1>2. frame[w].job \in Call /\ frame[w].pc = pc
  BY <1>1, AtType
<1> QED
  BY <1>1, <1>2 DEF Job, Call

(* The steps that move a call on towards its decision.                     *)
LEMMA MovesPass ==
  ASSUME AuditInv, NEW w \in Workers,
         \/ MetricRead(w) \/ MetricStore(w) \/ Unambiguous(w) \/ Admit(w) \/ Generate(w)
         \/ Accept(w)
  PROVE  Passes(w)
<1>1. frame \in [Workers -> Frame] /\ Staged(frame[w])
  BY DEF AuditInv, TypeInv, TypeOK, FramesLogged
<1>2. OthersStay(w)
  BY <1>1 DEF OthersStay, MetricRead, MetricStore, Unambiguous, Admit, Generate, Accept
<1>3. frame'[w].job = frame[w].job /\ frame'[w].outcome = frame[w].outcome
  BY <1>1 DEF MetricRead, MetricStore, Unambiguous, Admit, Generate, Accept, Frame
<1>4. \/ frame'[w].pc = frame[w].pc
      \/ /\ frame[w].pc \in {"ambiguity", "admit", "generate", "validate"}
         /\ \/ frame'[w].pc \in {"schema", "lookup", "validate", "execute"}
            \/ frame'[w].pc = "explain" /\ frame[w].job.kind \notin Counted
  <2>1. CASE MetricRead(w) \/ MetricStore(w)
    BY <1>1, <2>1 DEF MetricRead, MetricStore, Frame
  <2>2. CASE Unambiguous(w)
    BY <1>1, <2>2 DEF Unambiguous, At, Frame
  <2>3. CASE Admit(w)
    BY <1>1, <2>3 DEF Admit, At, Frame
  <2>4. CASE Generate(w)
    BY <1>1, <2>4 DEF Generate, At, Frame
  <2>5. CASE Accept(w)
    BY <1>1, <2>5 DEF Accept, At, Frame, Job
  <2> QED
    BY <2>1, <2>2, <2>3, <2>4, <2>5
<1> QED
  BY <1>1, <1>2, <1>3, <1>4 DEF Passes, Staged, Written

(* The steps that bring the call to a stage before its decision, or end it *)
(* outside the pipeline.                                                   *)
LEMMA BranchesPass ==
  ASSUME AuditInv, NEW w \in Workers, Refuse(w) \/ LoadSchema(w) \/ Lookup(w)
  PROVE  Passes(w)
<1>1. frame \in [Workers -> Frame] /\ Staged(frame[w])
  BY DEF AuditInv, TypeInv, TypeOK, FramesLogged
<1>2. CASE Refuse(w)
  <2>1. /\ frame'[w].job = frame[w].job /\ frame'[w].pc = "return"
        /\ frame'[w].outcome.via = "limit" /\ frame[w].pc = "admit"
    BY <1>1, <1>2 DEF Refuse, At, Frame
  <2>2. OthersStay(w)
    BY <1>1, <1>2 DEF Refuse, OthersStay
  <2> QED
    BY <2>1, <2>2 DEF Passes, Staged, Written
<1>3. CASE LoadSchema(w)
  <2>1. OthersStay(w)
    BY <1>1, <1>3 DEF LoadSchema, OthersStay
  <2>2. /\ frame'[w].job = frame[w].job /\ frame[w].pc = "schema"
        /\ \/ frame'[w].pc = "validate"
           \/ frame'[w].pc = "generate" /\ frame[w].job.kind # "approved"
    <3>1. CASE Job(w).kind = "approved"
      BY <1>1, <1>3, <3>1 DEF LoadSchema, At, Frame, Job
    <3>2. CASE Job(w).kind # "approved"
      BY ZenonT(30), <1>1, <1>3, <3>2 DEF LoadSchema, At, Frame, Job
    <3> QED
      BY <3>1, <3>2
  <2> QED
    BY <2>1, <2>2 DEF Passes, Staged, Written
<1>4. CASE Lookup(w)
  <2>1. \/ \E p \in Hits(Job(w), cache) : frame' = [frame EXCEPT
                      ![w].outcome = [status |-> "success", via |-> "cache", source |-> p],
                      ![w].todo = <<"cache_hits">>,
                      ![w].pc = "return"]
        \/ frame' = [frame EXCEPT ![w].todo = <<"cache_misses">>, ![w].pc = "schema"]
        \/ frame' = [frame EXCEPT ![w].pc = "schema"]
    BY <1>4, Zenon DEF Lookup, Hits
  <2>2. OthersStay(w)
    BY <1>1, <2>1 DEF OthersStay
  <2>3. /\ frame'[w].job = frame[w].job
        /\ \/ frame'[w].pc = "schema"
           \/ frame'[w].pc = "return" /\ frame'[w].outcome.via = "cache"
    <3>1. ASSUME NEW p \in Hits(Job(w), cache), frame' = [frame EXCEPT
                      ![w].outcome = [status |-> "success", via |-> "cache", source |-> p],
                      ![w].todo = <<"cache_hits">>,
                      ![w].pc = "return"]
          PROVE  /\ frame'[w].job = frame[w].job
                 /\ frame'[w].pc = "return" /\ frame'[w].outcome.via = "cache"
      BY <1>1, <3>1 DEF Frame
    <3>2. ASSUME frame' = [frame EXCEPT ![w].todo = <<"cache_misses">>, ![w].pc = "schema"]
          PROVE  frame'[w].job = frame[w].job /\ frame'[w].pc = "schema"
      BY <1>1, <3>2 DEF Frame
    <3>3. ASSUME frame' = [frame EXCEPT ![w].pc = "schema"]
          PROVE  frame'[w].job = frame[w].job /\ frame'[w].pc = "schema"
      BY <1>1, <3>3 DEF Frame
    <3> QED
      BY <2>1, <3>1, <3>2, <3>3
  <2>4. frame[w].pc = "lookup"
    BY <1>4 DEF Lookup, At
  <2> QED
    BY <2>2, <2>3, <2>4 DEF Passes, Staged, Written
<1> QED
  BY <1>2, <1>3, <1>4

(* The steps that decide a call in the pipeline, or repeat an attempt.     *)
LEMMA DecisionsPass ==
  ASSUME AuditInv, NEW w \in Workers,
         \/ AskBack(w) \/ Reject(w) \/ Explain(w) \/ Execute(w) \/ ExecuteFails(w)
  PROVE  Passes(w)
<1>1. CASE AskBack(w)
  BY <1>1, AtAudit, DecidePasses DEF AskBack, Staged, Written
<1>2. CASE Reject(w)
  <2>1. frame[w].pc = "validate" /\ Job(w) = frame[w].job /\ Job(w).kind \in Kinds
    BY <1>2, AtAudit DEF Reject
  <2> QED
    BY <1>2, <2>1, DecidePasses, RetryPasses DEF Reject, Written, GivesUp, Counted
<1>3. CASE Explain(w)
  BY <1>3, AtAudit, DecidePasses DEF Explain, Staged, Written
<1>4. CASE Execute(w)
  <2>1. frame[w].pc = "execute" /\ frame[w].job.kind \in Counted
    BY <1>4, AtAudit, AtType DEF Execute, FrameOK
  <2> QED
    BY <1>4, <2>1, DecidePasses DEF Execute, Written
<1>5. CASE ExecuteFails(w)
  <2>1. frame[w].pc = "execute" /\ frame[w].job.kind \in Counted /\ Job(w) = frame[w].job
    BY <1>5, AtAudit, AtType DEF ExecuteFails, FrameOK
  <2> QED
    BY <1>5, <2>1, DecidePasses, RetryPasses DEF ExecuteFails, Written, GivesUp
<1> QED
  BY <1>1, <1>2, <1>3, <1>4, <1>5

LEMMA GenerateFailsPasses ==
  ASSUME AuditInv, NEW w \in Workers, GenerateFails(w)
  PROVE  Passes(w)
<1>1. /\ frame \in [Workers -> Frame] /\ frame[w].pc = "generate"
      /\ Job(w) = frame[w].job /\ Job(w).kind \in Kinds /\ Job(w).kind # "approved"
  BY AtAudit DEF GenerateFails, Staged
<1>2. /\ frame'[w].job = frame[w].job /\ frame'[w].pc = AfterLLMFailure(Job(w).kind)
      /\ frame'[w].outcome.via = "pipeline"
  BY <1>1 DEF GenerateFails, Frame
<1>3. OthersStay(w)
  BY <1>1 DEF GenerateFails, OthersStay
<1> QED
  BY <1>1, <1>2, <1>3 DEF Passes, Staged, Written, AfterLLMFailure, Kinds, Counted

(* The steps after the audit record.                                       *)
LEMMA StagesPass ==
  ASSUME AuditInv, NEW w \in Workers, Remember(w) \/ AppendHistory(w) \/ UpsertCache(w)
  PROVE  Passes(w)
<1>1. /\ frame \in [Workers -> Frame]
      /\ frame[w].pc \in {"remember", "history", "cache"} /\ Staged(frame[w])
  BY AtAudit DEF Remember, AppendHistory, UpsertCache
<1>2. PICK next \in {"history", "cache", "return"} : frame' = [frame EXCEPT ![w].pc = next]
  BY DEF Remember, AppendHistory, UpsertCache
<1>3. /\ frame'[w].job = frame[w].job /\ frame'[w].outcome = frame[w].outcome
      /\ frame'[w].pc = next
  BY <1>1, <1>2 DEF Frame
<1>4. OthersStay(w)
  BY <1>1, <1>2 DEF OthersStay
<1> QED
  BY <1>1, <1>3, <1>4 DEF Passes, Staged, Written

LEMMA AuditStart ==
  ASSUME AuditInv, TypeInv', NEW w \in Workers, NEW kind \in Kinds, NEW u \in Users,
         NEW q \in Questions, NEW d \in Databases, Start(w, kind, u, q, d)
  PROVE  AuditInv'
<1> DEFINE c == [id |-> started + 1, kind |-> kind, user |-> u, question |-> q, db |-> d]
           f == FirstFrame(c)
<1>1. /\ frame \in [Workers -> Frame] /\ started \in Nat /\ started' = started + 1
      /\ frame' = [frame EXCEPT ![w] = f] /\ UNCHANGED <<audit, replies>>
  BY DEF AuditInv, TypeInv, TypeOK, Start, observed
<1>2. /\ f.job = c /\ f.pc = FirstPC(kind) /\ c.id = started + 1 /\ c.kind = kind
  BY DEF FirstFrame
<1>3. /\ f.pc \in {"admit", "schema", "ambiguity"}
      /\ f.pc = "ambiguity" => kind \notin Counted
  BY <1>2 DEF FirstPC, Counted
<1> HIDE DEF f, c
<1>4. /\ \A v \in Workers : frame[v].pc # "idle" => frame[v].job.id \in 0 .. started
      /\ \A i \in DOMAIN audit : audit[i].call.id \in 0 .. started
      /\ \A r \in replies : r.call.id \in 0 .. started
  BY DEF AuditInv, CallsDiffer
<1>5. frame'[w] = f /\ \A v \in Workers \ {w} : frame'[v] = frame[v]
  BY <1>1
<1>6. CallsDiffer'
  <2>1. \A v \in Workers : frame'[v].pc # "idle" => frame'[v].job.id \in 0 .. started'
    BY <1>1, <1>2, <1>4, <1>5
  <2>2. /\ \A i \in DOMAIN audit' : audit'[i].call.id \in 0 .. started'
        /\ \A r \in replies' : r.call.id \in 0 .. started'
    BY <1>1, <1>4
  <2>3. \A v, x \in Workers :
          v # x /\ frame'[v].pc # "idle" /\ frame'[x].pc # "idle" =>
            frame'[v].job.id # frame'[x].job.id
    BY <1>1, <1>2, <1>4, <1>5 DEF AuditInv, CallsDiffer
  <2>4. \A r \in replies : \A v \in Workers : frame'[v].pc # "idle" =>
          frame'[v].job.id # r.call.id
    BY <1>1, <1>2, <1>4, <1>5 DEF AuditInv, CallsDiffer
  <2> QED
    BY <1>1, <2>1, <2>2, <2>3, <2>4 DEF CallsDiffer
<1>7. Lines(audit, c) = {}
  BY <1>1, <1>2, <1>4 DEF Lines
<1>8. Staged(f) /\ ~Written(f)
  BY <1>2, <1>3 DEF Staged, Written
<1>9. ASSUME NEW v \in Workers PROVE Staged(frame[v])' /\ Logged(frame[v])'
  <2>1. CASE v = w
    BY <1>1, <1>2, <1>5, <1>7, <1>8, <2>1 DEF Logged, Staged, Written
  <2>2. CASE v # w
    <3>1. frame'[v] = frame[v] /\ Staged(frame[v]) /\ Logged(frame[v])
      BY <1>5, <2>2 DEF AuditInv, FramesLogged
    <3> QED
      BY <1>1, <3>1 DEF Staged, Logged, Written
  <2> QED
    BY <2>1, <2>2
<1>10. RepliesLogged'
  BY <1>1 DEF AuditInv, RepliesLogged
<1> QED
  BY <1>6, <1>9, <1>10 DEF AuditInv, FramesLogged

(* A line of another call changes nothing for this one.                    *)
LEMMA OthersLines ==
  ASSUME NEW log \in Seq(Entry), NEW e \in Entry, NEW c, e.call # c
  PROVE  /\ Lines(Append(log, e), c) = Lines(log, c)
         /\ \A s : OneLine(log, c, s) => OneLine(Append(log, e), c, s)
<1> DEFINE all == Append(log, e)
<1>1. /\ DOMAIN all = DOMAIN log \cup {Len(log) + 1}
      /\ all[Len(log) + 1] = e
      /\ \A i \in DOMAIN log : all[i] = log[i]
  OBVIOUS
<1> HIDE DEF all
<1>2. Lines(all, c) = Lines(log, c)
  BY <1>1 DEF Lines
<1>3. \A s : OneLine(log, c, s) => OneLine(all, c, s)
  BY <1>1, <1>2 DEF OneLine
<1> QED
  BY <1>2, <1>3 DEF all

LEMMA AuditWriteAudit ==
  ASSUME AuditInv, TypeInv', NEW w \in Workers, WriteAudit(w)
  PROVE  AuditInv'
<1> DEFINE e == EntryOf(w)
           c == Job(w)
<1>1. /\ frame \in [Workers -> Frame] /\ TypeInv /\ At(w, "audit") /\ frame[w].pc = "audit"
      /\ Staged(frame[w]) /\ Logged(frame[w]) /\ c = frame[w].job /\ c \in Call
      /\ audit' = Append(audit, e) /\ audit \in Seq(Entry)
      /\ frame' = [frame EXCEPT ![w].pc = AfterAudit(w)]
      /\ UNCHANGED <<replies, started>>
  <2>1. At(w, "audit") /\ UNCHANGED <<replies, started>>
    BY DEF WriteAudit, observed
  <2>2. audit' = Append(audit, e) /\ frame' = [frame EXCEPT ![w].pc = AfterAudit(w)]
    BY DEF WriteAudit
  <2>3. audit \in Seq(Entry)
    BY DEF AuditInv, TypeInv, TypeOK
  <2> QED
    BY <2>1, <2>2, <2>3, AtAudit
<1>2. e \in Entry /\ e.call = c /\ e.status = frame[w].outcome.status
  BY <1>1, EntryType DEF EntryOf
<1>3. /\ frame'[w].job = c /\ frame'[w].outcome = frame[w].outcome
      /\ frame'[w].pc = AfterAudit(w)
  BY <1>1 DEF Frame
<1>4. AfterAudit(w) \in {"remember", "history", "return"}
  BY DEF AfterAudit
<1>5. \A v \in Workers \ {w} : frame'[v] = frame[v]
  BY <1>1
<1>6. Lines(audit, c) = {}
  BY <1>1 DEF Logged, Written
<1> HIDE DEF e, c
<1>7. /\ DOMAIN audit' = DOMAIN audit \cup {Len(audit) + 1}
      /\ audit'[Len(audit) + 1] = e
      /\ \A i \in DOMAIN audit : audit'[i] = audit[i]
  BY <1>1, <1>2
<1>8. Lines(audit', c) = {Len(audit) + 1}
  BY <1>2, <1>6, <1>7 DEF Lines
<1>9. CallsDiffer'
  <2>1. \A v \in Workers : frame'[v].pc # "idle" =>
          frame[v].pc # "idle" /\ frame'[v].job = frame[v].job
    BY <1>1, <1>3, <1>5
  <2>2. \A i \in DOMAIN audit' : audit'[i].call.id \in 0 .. started
    <3>1. c.id \in 0 .. started
      BY <1>1 DEF AuditInv, CallsDiffer
    <3> QED
      BY <1>2, <1>7, <3>1 DEF AuditInv, CallsDiffer
  <2> QED
    BY <1>1, <2>1, <2>2 DEF AuditInv, CallsDiffer
<1>10. ASSUME NEW v \in Workers PROVE Staged(frame[v])' /\ Logged(frame[v])'
  <2>1. CASE v = w
    <3>1. Staged(frame'[w]) /\ Written(frame'[w])
      BY <1>1, <1>3, <1>4 DEF Staged, Written
    <3>2. OneLine(audit', frame'[w].job, frame'[w].outcome.status)
      BY <1>2, <1>3, <1>7, <1>8 DEF OneLine
    <3> QED
      BY <2>1, <3>1, <3>2 DEF Staged, Logged, Written
  <2>2. CASE v # w
    <3>1. frame'[v] = frame[v] /\ Staged(frame[v]) /\ Logged(frame[v])
      BY <1>5, <2>2 DEF AuditInv, FramesLogged
    <3>2. CASE frame[v].pc = "idle"
      BY <3>1, <3>2 DEF Staged, Logged
    <3>3. CASE frame[v].pc # "idle"
      <4>1. frame[v].job # c
        BY <1>1, <2>2, <3>3 DEF AuditInv, CallsDiffer
      <4>2. /\ Lines(audit', frame[v].job) = Lines(audit, frame[v].job)
            /\ \A s : OneLine(audit, frame[v].job, s) => OneLine(audit', frame[v].job, s)
        BY <1>1, <1>2, <4>1, OthersLines
      <4> QED
        BY <3>1, <4>2 DEF Staged, Logged, Written
    <3> QED
      BY <3>2, <3>3
  <2> QED
    BY <2>1, <2>2
<1>11. RepliesLogged'
  <2>1. ASSUME NEW r \in replies
        PROVE  /\ Lines(audit', r.call) = Lines(audit, r.call)
               /\ \A s : OneLine(audit, r.call, s) => OneLine(audit', r.call, s)
    <3>1. r.call # c
      BY <1>1 DEF AuditInv, CallsDiffer
    <3> QED
      BY <1>1, <1>2, <3>1, OthersLines
  <2> QED
    BY <1>1, <2>1 DEF AuditInv, RepliesLogged
<1> QED
  BY <1>9, <1>10, <1>11 DEF AuditInv, FramesLogged

(* A call that ends leaves its frame; what it returned was as recorded.    *)
LEMMA AuditEnd ==
  ASSUME AuditInv, TypeInv', NEW w \in Workers, Return(w) \/ Raise(w)
  PROVE  AuditInv'
<1> DEFINE via == IF Return(w) THEN frame[w].outcome.via ELSE "raise"
           r == Reply(w, via)
<1>1. /\ frame \in [Workers -> Frame] /\ Logged(frame[w])
      /\ frame' = [frame EXCEPT ![w] = IdleFrame]
      /\ UNCHANGED <<audit, started>> /\ replies' = replies \cup {r}
  BY Zenon DEF AuditInv, TypeInv, TypeOK, FramesLogged, Return, Raise
<1>2. frame[w].pc # "idle" /\ (via # "raise" => frame[w].pc = "return" /\ via = frame[w].outcome.via)
  BY DEF Return, Raise, CanRaise, At
<1>3. r.call = frame[w].job /\ r.via = via /\ r.status = frame[w].outcome.status
  BY DEF Reply, Job
<1> HIDE DEF via, r
<1>4. frame'[w].pc = "idle" /\ \A v \in Workers \ {w} : frame'[v] = frame[v]
  BY <1>1 DEF IdleFrame
<1>5. CallsDiffer'
  <2>1. frame[w].job.id \in 0 .. started
    BY <1>2 DEF AuditInv, CallsDiffer
  <2>2. \A v \in Workers : frame'[v].pc # "idle" =>
          v # w /\ frame'[v] = frame[v] /\ frame[v].job.id # frame[w].job.id
    BY <1>2, <1>4 DEF AuditInv, CallsDiffer
  <2> QED
    BY <1>1, <1>3, <2>1, <2>2 DEF AuditInv, CallsDiffer
<1>6. ASSUME NEW v \in Workers PROVE Staged(frame[v])' /\ Logged(frame[v])'
  <2>1. CASE v = w
    BY <1>4, <2>1 DEF Staged, Logged
  <2>2. CASE v # w
    BY <1>1, <1>4, <2>2 DEF AuditInv, FramesLogged, Staged, Logged, Written
  <2> QED
    BY <2>1, <2>2
<1>7. RepliesLogged'
  <2>1. IF r.call.kind \in Counted /\ r.via = "pipeline"
        THEN OneLine(audit, r.call, r.status)
        ELSE Lines(audit, r.call) = {} \/ \E s : OneLine(audit, r.call, s)
    BY <1>1, <1>2, <1>3 DEF Logged, Written
  <2> QED
    BY <1>1, <2>1 DEF AuditInv, RepliesLogged
<1> QED
  BY <1>5, <1>6, <1>7 DEF AuditInv, FramesLogged

LEMMA AuditCrash ==
  ASSUME AuditInv, TypeInv', Crash
  PROVE  AuditInv'
<1>1. /\ frame' = [w \in Workers |-> IdleFrame] /\ UNCHANGED <<audit, replies, started>>
  BY DEF Crash, observed
<1>2. \A w \in Workers : frame'[w].pc = "idle"
  BY <1>1 DEF IdleFrame
<1>3. CallsDiffer'
  BY <1>1, <1>2 DEF AuditInv, CallsDiffer
<1>4. FramesLogged'
  BY <1>2 DEF FramesLogged, Staged, Logged
<1>5. RepliesLogged'
  BY <1>1 DEF AuditInv, RepliesLogged
<1> QED
  BY <1>3, <1>4, <1>5 DEF AuditInv

LEMMA AuditInit == Init => AuditInv
<1> SUFFICES ASSUME Init PROVE AuditInv
  OBVIOUS
<1>1. audit = <<>> /\ replies = {} /\ \A w \in Workers : frame[w].pc = "idle"
  BY DEF Init, IdleFrame
<1>2. CallsDiffer /\ RepliesLogged
  BY <1>1 DEF CallsDiffer, RepliesLogged
<1>3. FramesLogged
  BY <1>1 DEF FramesLogged, Staged, Logged
<1> QED
  BY <1>2, <1>3, TypeInit DEF AuditInv

LEMMA AuditNext == AuditInv /\ [Next]_vars => AuditInv'
<1> SUFFICES ASSUME AuditInv, [Next]_vars PROVE AuditInv'
  OBVIOUS
<1>1. TypeInv'
  BY TypeNext DEF AuditInv
<1>2. CASE UNCHANGED vars
  <2>1. UNCHANGED <<frame, audit, replies, started>>
    BY <1>2 DEF vars, observed
  <2>2. CallsDiffer' /\ FramesLogged' /\ RepliesLogged'
    BY <2>1 DEF AuditInv, CallsDiffer, FramesLogged, RepliesLogged, Staged, Logged, Written
  <2> QED
    BY <1>1, <2>2 DEF AuditInv
<1>3. CASE \E w \in Workers, kind \in Kinds, u \in Users, q \in Questions, d \in Databases :
             Start(w, kind, u, q, d)
  BY <1>1, <1>3, AuditStart
<1>4. CASE Crash
  BY <1>1, <1>4, AuditCrash
<1>5. ASSUME NEW w \in Workers, Progress(w) PROVE AuditInv'
  <2>1. CASE WriteAudit(w)
    BY <1>1, <2>1, AuditWriteAudit
  <2>2. CASE Return(w) \/ Raise(w)
    BY <1>1, <2>2, AuditEnd
  <2>3. CASE \/ MetricRead(w) \/ MetricStore(w) \/ Unambiguous(w) \/ Admit(w)
             \/ Generate(w) \/ Accept(w)
    <3>1. UNCHANGED <<audit, replies, started>>
      BY <2>3 DEF MetricRead, MetricStore, Unambiguous, Admit, Generate, Accept, observed
    <3> QED
      BY <1>1, <2>3, <3>1, MovesPass, PassesLogged
  <2>4. CASE Refuse(w) \/ LoadSchema(w) \/ Lookup(w)
    <3>1. UNCHANGED <<audit, replies, started>>
      BY <2>4 DEF Refuse, LoadSchema, Lookup, observed
    <3> QED
      BY <1>1, <2>4, <3>1, BranchesPass, PassesLogged
  <2>5. CASE \/ AskBack(w) \/ Reject(w) \/ Explain(w) \/ Execute(w) \/ ExecuteFails(w)
             \/ GenerateFails(w)
    <3>1. UNCHANGED <<audit, replies, started>>
      BY <2>5 DEF AskBack, Reject, Explain, Execute, ExecuteFails, GenerateFails, observed
    <3> QED
      BY <1>1, <2>5, <3>1, DecisionsPass, GenerateFailsPasses, PassesLogged
  <2>6. CASE Remember(w) \/ AppendHistory(w) \/ UpsertCache(w)
    <3>1. UNCHANGED <<audit, replies, started>>
      BY <2>6 DEF Remember, AppendHistory, UpsertCache, observed
    <3> QED
      BY <1>1, <2>6, <3>1, StagesPass, PassesLogged
  <2> QED
    BY <1>5, <2>1, <2>2, <2>3, <2>4, <2>5, <2>6 DEF Progress
<1> QED
  BY <1>2, <1>3, <1>4, <1>5 DEF Next

(* An outcome of the pipeline was recorded before the caller got it, with  *)
(* its status, and no call that has ended is in the audit file twice.      *)
THEOREM RepliesAreAudited == Spec => []ReplyIsAudited
<1>1. AuditInv => ReplyIsAudited
  <2> SUFFICES ASSUME AuditInv, NEW r \in replies
               PROVE  /\ r.call.kind \in Counted /\ r.via = "pipeline" =>
                           Recorded(r.call, r.status)
                      /\ Cardinality(Lines(audit, r.call)) <= 1
    BY DEF ReplyIsAudited, Lines
  <2>1. ASSUME NEW s, OneLine(audit, r.call, s)
        PROVE  Recorded(r.call, s) /\ Cardinality(Lines(audit, r.call)) <= 1
    <3>1. PICK i \in DOMAIN audit : Lines(audit, r.call) = {i} /\ audit[i].status = s
      BY <2>1 DEF OneLine
    <3>2. audit[i].call = r.call
      BY <3>1 DEF Lines
    <3>3. Cardinality(Lines(audit, r.call)) = 1
      BY <3>1, FS_Singleton
    <3> QED
      BY <3>1, <3>2, <3>3 DEF Recorded
  <2>2. CASE r.call.kind \in Counted /\ r.via = "pipeline"
    <3>1. OneLine(audit, r.call, r.status)
      BY <2>2 DEF AuditInv, RepliesLogged
    <3> QED
      BY <2>1, <3>1
  <2>3. CASE ~(r.call.kind \in Counted /\ r.via = "pipeline")
    <3>1. Lines(audit, r.call) = {} \/ \E s : OneLine(audit, r.call, s)
      BY <2>3 DEF AuditInv, RepliesLogged
    <3>2. Cardinality({}) <= 1
      BY FS_EmptySet
    <3>3. Cardinality(Lines(audit, r.call)) <= 1
      BY <2>1, <3>1, <3>2
    <3> QED
      BY <2>3, <3>3
  <2> QED
    BY <2>2, <2>3
<1> QED
  BY <1>1, AuditInit, AuditNext, PTL DEF Spec
-----------------------------------------------------------------------------
(* The counters that MetricsNeverOvercount compares with the replies.      *)
Tracked == {"queries_total", "queries_success", "queries_blocked", "queries_error", "cache_hits"}

(* A call of this kind that ends, or ended, this way counts under k.       *)
CountsAs(kind, status, via, k) ==
  /\ kind \in Counted
  /\ \/ k = "queries_total"
     \/ k = "queries_success" /\ status = "success" /\ via # "cache"
     \/ k = "queries_blocked" /\ status = "blocked" /\ via # "cache"
     \/ k = "queries_error" /\ status = "error" /\ via # "cache"
     \/ k = "cache_hits" /\ via = "cache"

Owes(f, k) == \E i \in DOMAIN f.todo : f.todo[i] = k

(* The frame's call has been counted under k.                              *)
HasCounted(f, k) ==
  f.pc # "idle" /\ CountsAs(f.job.kind, f.outcome.status, f.outcome.via, k) /\ ~Owes(f, k)

(* The ids of the calls of this process that have been counted under k.    *)
CountedIds(k) ==
  {i \in 1 .. started :
     \/ \E r \in replies : r.call.id = i /\ i > boot /\ CountsAs(r.call.kind, r.status, r.via, k)
     \/ \E w \in Workers : HasCounted(frame[w], k) /\ frame[w].job.id = i}

Undecided == {"ambiguity", "admit", "lookup", "schema", "generate", "validate", "execute", "explain"}

(* What a frame still has to count, it will have to answer for; a tracked  *)
(* counter is the last to record.                                          *)
CountOK(f) ==
  /\ f.pc = "idle" => f.todo = <<>>
  /\ f.pc # "idle" => f.job.id > boot
  /\ f.pc \in Undecided => f.outcome.status = "none" /\ f.outcome.via = "pipeline"
  /\ f.pc # "return" => f.outcome.via # "cache"
  /\ f.pc = "lookup" => f.job.kind \in Counted
  /\ f.pc = "admit" => f.job.kind \in Counted
  /\ \A i \in DOMAIN f.todo : f.todo[i] \in Tracked =>
       i = Len(f.todo) /\ CountsAs(f.job.kind, f.outcome.status, f.outcome.via, f.todo[i])

(* What a frame has read of a counter is not above the count.              *)
ReadOK(f) ==
  f.seen # <<>> /\ Head(f.todo) \in Tracked => f.seen[1] <= Cardinality(CountedIds(Head(f.todo)))

CountsOK ==
  /\ boot \in 0 .. started /\ IsFiniteSet(replies)
  /\ \A w \in Workers : CountOK(frame[w]) /\ ReadOK(frame[w])
  /\ \A k \in Tracked : metrics[k] <= Cardinality(CountedIds(k))

CountInv == AuditInv /\ CountsOK

LEMMA CountedFinite ==
  ASSUME started \in Nat, NEW k
  PROVE  IsFiniteSet(CountedIds(k)) /\ Cardinality(CountedIds(k)) \in Nat
<1>1. IsFiniteSet(1 .. started)
  BY FS_Interval
<1>2. CountedIds(k) \subseteq 1 .. started
  BY DEF CountedIds
<1> QED
  BY <1>1, <1>2, FS_Subset, FS_CardinalityType

(* What has been counted stays so, in the frame or in the reply.           *)
Carried(w) ==
  \A k \in Tracked : HasCounted(frame[w], k) =>
    \/ frame'[w].job = frame[w].job /\ HasCounted(frame'[w], k)
    \/ \E r \in replies' : /\ r.call.id = frame[w].job.id /\ r.call.id > boot
                           /\ CountsAs(r.call.kind, r.status, r.via, k)

LEMMA CountsGrow ==
  ASSUME CountInv, TypeInv', NEW w \in Workers, OthersStay(w), Carried(w),
         boot' = boot, replies \subseteq replies', started' >= started, NEW k \in Tracked
  PROVE  /\ CountedIds(k) \subseteq CountedIds(k)'
         /\ Cardinality(CountedIds(k)) <= Cardinality(CountedIds(k)')
<1>1. started \in Nat /\ started' \in Nat
  BY DEF CountInv, AuditInv, TypeInv, TypeOK
<1>2. CountedIds(k) \subseteq CountedIds(k)'
  <2> SUFFICES ASSUME NEW i \in CountedIds(k) PROVE i \in CountedIds(k)'
    OBVIOUS
  <2>1. i \in 1 .. started'
    BY <1>1 DEF CountedIds
  <2>2. CASE \E r \in replies : r.call.id = i /\ i > boot /\ CountsAs(r.call.kind, r.status, r.via, k)
    BY <2>1, <2>2 DEF CountedIds
  <2>3. CASE \E v \in Workers : HasCounted(frame[v], k) /\ frame[v].job.id = i
    <3>1. PICK v \in Workers : HasCounted(frame[v], k) /\ frame[v].job.id = i
      BY <2>3
    <3>2. CASE v = w
      BY <2>1, <3>1, <3>2 DEF Carried, CountedIds
    <3>3. CASE v # w
      BY <2>1, <3>1, <3>3 DEF OthersStay, CountedIds
    <3> QED
      BY <3>2, <3>3
  <2> QED
    BY <2>2, <2>3 DEF CountedIds
<1>3. IsFiniteSet(CountedIds(k)')
  <2>1. IsFiniteSet(1 .. started') /\ CountedIds(k)' \subseteq 1 .. started'
    BY <1>1, FS_Interval DEF CountedIds
  <2> QED
    BY <2>1, FS_Subset
<1> QED
  BY <1>2, <1>3, FS_Subset

(* A step that stores no counter.                                          *)
LEMMA CountStep ==
  ASSUME CountInv, AuditInv', NEW w \in Workers, OthersStay(w), Carried(w),
         UNCHANGED <<metrics, boot>>, replies \subseteq replies', IsFiniteSet(replies'),
         started' >= started, CountOK(frame[w])',
         frame'[w].seen # <<>> => frame'[w].seen[1] = metrics[Head(frame'[w].todo)]
  PROVE  CountInv'
<1>1. /\ started \in Nat /\ started' \in Nat /\ boot \in 0 .. started /\ TypeInv /\ TypeInv'
      /\ metrics \in [MetricKeys -> Nat] /\ frame \in [Workers -> Frame]
  BY DEF CountInv, CountsOK, AuditInv, TypeInv, TypeOK
<1>2. \A k \in Tracked : Cardinality(CountedIds(k)) <= Cardinality(CountedIds(k)')
  BY <1>1, CountsGrow
<1>3. \A k : Cardinality(CountedIds(k)) \in Nat
  BY <1>1, CountedFinite
<1>4. \A k : Cardinality(CountedIds(k)') \in Nat
  <2>1. ASSUME NEW k PROVE Cardinality(CountedIds(k)') \in Nat
    <3>1. IsFiniteSet(1 .. started') /\ CountedIds(k)' \subseteq 1 .. started'
      BY <1>1, FS_Interval DEF CountedIds
    <3> QED
      BY <3>1, FS_Subset, FS_CardinalityType
  <2> QED
    BY <2>1
<1>5. \A k \in Tracked : metrics'[k] <= Cardinality(CountedIds(k)')
  BY SMTT(20), <1>1, <1>2, <1>3, <1>4 DEF CountInv, CountsOK, Tracked, MetricKeys
<1>6. ASSUME NEW v \in Workers \ {w} PROVE CountOK(frame[v])' /\ ReadOK(frame[v])'
  <2>1. frame'[v] = frame[v] /\ CountOK(frame[v]) /\ ReadOK(frame[v])
    BY DEF OthersStay, CountInv, CountsOK
  <2>2. CountOK(frame[v])'
    BY <2>1 DEF CountOK
  <2>3. ASSUME frame[v].seen # <<>>, Head(frame[v].todo) \in Tracked
        PROVE  frame[v].seen[1] <= Cardinality(CountedIds(Head(frame[v].todo))')
    <3> DEFINE k == Head(frame[v].todo)
               n == frame[v].seen[1]
    <3>1. frame[v].seen \in Seq(Nat)
      BY <1>1 DEF Frame
    <3>2. n \in Nat
      BY <2>3, <3>1
    <3>3. n <= Cardinality(CountedIds(k))
      BY <2>1, <2>3 DEF ReadOK
    <3> QED
      BY <1>2, <1>3, <1>4, <2>1, <2>3, <3>2, <3>3
  <2> QED
    BY <2>1, <2>2, <2>3 DEF ReadOK
<1>7. ReadOK(frame[w])'
  BY <1>5 DEF ReadOK
<1>8. boot' \in 0 .. started'
  BY <1>1
<1> QED
  BY <1>5, <1>6, <1>7, <1>8 DEF CountInv, CountsOK

-----------------------------------------------------------------------------
(* A step of w inside its call that reads and stores no counter.           *)
CountMoves(w) ==
  /\ OthersStay(w)
  /\ frame'[w].pc # "idle" /\ frame'[w].job = frame[w].job /\ frame'[w].seen = <<>>
  /\ CountOK(frame'[w])
  /\ \A k \in Tracked : HasCounted(frame[w], k) => HasCounted(frame'[w], k)

LEMMA MovesCount ==
  ASSUME CountInv, AuditInv', NEW w \in Workers, CountMoves(w),
         UNCHANGED <<metrics, boot, replies, started>>
  PROVE  CountInv'
<1>1. Carried(w)
  BY DEF Carried, CountMoves
<1>2. OthersStay(w) /\ CountOK(frame[w])' /\ frame'[w].seen = <<>>
  BY DEF CountMoves, CountOK
<1>3. IsFiniteSet(replies') /\ replies \subseteq replies' /\ started' >= started
  BY DEF CountInv, CountsOK, AuditInv, TypeInv, TypeOK
<1> QED
  BY <1>1, <1>2, <1>3, CountStep

(* What holds of a worker at a stage where its call is not yet decided.    *)
LEMMA AtUndecided ==
  ASSUME CountInv, NEW w \in Workers, NEW pc, At(w, pc), pc # "idle"
  PROVE  /\ frame \in [Workers -> Frame] /\ AuditInv /\ TypeInv
         /\ frame[w].pc = pc /\ frame[w].todo = <<>> /\ frame[w].seen = <<>>
         /\ CountOK(frame[w]) /\ FrameOK(frame[w]) /\ Staged(frame[w])
         /\ Job(w) = frame[w].job /\ Job(w).kind \in Kinds
BY AtAudit, AtType DEF CountInv, CountsOK, At

(* An undecided call has been counted in the total only.                   *)
LEMMA UndecidedCounts ==
  ASSUME CountInv, NEW w \in Workers, frame[w].pc \in Undecided, NEW k \in Tracked,
         HasCounted(frame[w], k)
  PROVE  k = "queries_total" /\ frame[w].job.kind \in Counted
<1>1. CountOK(frame[w])
  BY DEF CountInv, CountsOK
<1>2. frame[w].outcome.status = "none" /\ frame[w].outcome.via = "pipeline"
  BY <1>1 DEF CountOK
<1> QED
  BY <1>2 DEF HasCounted, CountsAs

(* The lists of counters that a step leaves to record.                     *)
LEMMA OneKey ==
  ASSUME NEW a
  PROVE  /\ <<a>> # <<>> /\ Len(<<a>>) = 1 /\ DOMAIN <<a>> = {1} /\ <<a>>[1] = a
OBVIOUS

LEMMA TwoKeys ==
  ASSUME NEW a, NEW b
  PROVE  /\ Len(<<a, b>>) = 2 /\ DOMAIN <<a, b>> = {1, 2}
         /\ <<a, b>>[1] = a /\ <<a, b>>[2] = b
OBVIOUS

(* What a decision leaves to record is right for its status.               *)
Settles(kind, status, via, keys) ==
  \A i \in DOMAIN keys :
    /\ keys[i] # "queries_total"
    /\ keys[i] \in Tracked => i = Len(keys) /\ CountsAs(kind, status, via, keys[i])

(* A call leaves an undecided stage.                                       *)
LEMMA UndecidedMoves ==
  ASSUME CountInv, NEW w \in Workers, frame[w].pc \in Undecided, OthersStay(w),
         LET f == frame[w]
             g == frame'[w]
         IN  /\ g.job = f.job /\ g.pc # "idle" /\ g.seen = <<>>
             /\ Settles(g.job.kind, g.outcome.status, g.outcome.via, g.todo)
             /\ g.pc \in Undecided => g.outcome = f.outcome
             /\ g.pc \in {"lookup", "admit"} => g.job.kind \in Counted
             /\ g.pc # "return" => g.outcome.via # "cache"
  PROVE  CountMoves(w)
<1> DEFINE f == frame[w]
           g == frame'[w]
<1>1. CountOK(f)
  BY DEF CountInv, CountsOK
<1>2. f.outcome.status = "none" /\ f.outcome.via = "pipeline" /\ f.pc # "idle"
  BY <1>1 DEF CountOK, Undecided
<1>3. CountOK(g)
  BY <1>1, <1>2 DEF CountOK, Settles
<1>4. ASSUME NEW k \in Tracked, HasCounted(f, k) PROVE HasCounted(g, k)
  <2>1. k = "queries_total" /\ g.job.kind \in Counted
    BY <1>4, UndecidedCounts
  <2>2. ~Owes(g, k)
    BY <2>1 DEF Owes, Settles
  <2> QED
    BY <2>1, <2>2 DEF HasCounted, CountsAs
<1> QED
  BY <1>3, <1>4 DEF CountMoves

LEMMA DecideCounts ==
  ASSUME CountInv, NEW w \in Workers, NEW pc \in Undecided, At(w, pc),
         NEW status, NEW keys, NEW next \in {"audit", "return"},
         Settles(Job(w).kind, status, "pipeline", keys), Decide(w, status, keys, next)
  PROVE  CountMoves(w)
<1> DEFINE o == [status |-> status, via |-> "pipeline", source |-> Job(w)]
<1>1. /\ frame \in [Workers -> Frame] /\ frame[w].pc = pc /\ frame[w].seen = <<>>
      /\ Job(w) = frame[w].job
  BY AtUndecided DEF Undecided
<1>2. frame' = [frame EXCEPT ![w] = [frame[w] EXCEPT !.outcome = o, !.todo = keys, !.pc = next]]
  BY <1>1 DEF Decide
<1>3. o.via = "pipeline" /\ o.status = status
  OBVIOUS
<1> HIDE DEF o
<1>4. /\ frame'[w].job = frame[w].job /\ frame'[w].outcome = o /\ frame'[w].pc = next
      /\ frame'[w].todo = keys /\ frame'[w].seen = <<>>
  BY <1>1, <1>2 DEF Frame
<1>5. OthersStay(w)
  BY <1>1, <1>2 DEF OthersStay
<1> QED
  BY <1>1, <1>3, <1>4, <1>5, UndecidedMoves DEF Undecided

LEMMA RetryCounts ==
  ASSUME CountInv, NEW w \in Workers, NEW pc \in Undecided, At(w, pc), NEW key,
         key \notin Tracked, Retry(w, key)
  PROVE  CountMoves(w)
<1>1. /\ frame \in [Workers -> Frame] /\ frame[w].pc = pc /\ frame[w].seen = <<>>
      /\ CountOK(frame[w])
  BY AtUndecided DEF Undecided
<1>2. /\ frame'[w].job = frame[w].job /\ frame'[w].outcome = frame[w].outcome
      /\ frame'[w].pc = "generate" /\ frame'[w].todo = <<key>> /\ frame'[w].seen = <<>>
  BY <1>1 DEF Retry, Frame
<1>3. OthersStay(w)
  BY <1>1 DEF Retry, OthersStay
<1>4. \A kind, status, via : Settles(kind, status, via, <<key>>)
  BY OneKey DEF Settles, Tracked
<1>5. frame'[w].outcome.via = "pipeline"
  BY <1>1, <1>2 DEF CountOK
<1> QED
  BY <1>1, <1>2, <1>3, <1>4, <1>5, UndecidedMoves DEF Undecided

(* The steps that leave the call undecided.                                *)
LEMMA CountMovesOn ==
  ASSUME CountInv, NEW w \in Workers,
         \/ Unambiguous(w) \/ Admit(w) \/ Generate(w) \/ Accept(w) \/ LoadSchema(w)
  PROVE  CountMoves(w)
<1>1. /\ frame \in [Workers -> Frame] /\ frame[w].pc \in Undecided /\ frame[w].seen = <<>>
      /\ CountOK(frame[w]) /\ frame[w].todo = <<>>
  BY AtUndecided DEF Unambiguous, Admit, Generate, Accept, LoadSchema, Undecided
<1>2. OthersStay(w)
  BY <1>1 DEF OthersStay, Unambiguous, Admit, Generate, Accept, LoadSchema
<1>3. /\ frame'[w].job = frame[w].job /\ frame'[w].outcome = frame[w].outcome
      /\ frame'[w].seen = <<>>
      /\ frame'[w].todo = <<>> \/ frame'[w].todo = <<"llm_calls">>
      /\ frame'[w].pc \in Undecided \ {"admit"}
      /\ frame'[w].pc = "lookup" => frame[w].pc = "admit"
  <2>1. CASE Unambiguous(w)
    BY <1>1, <2>1 DEF Unambiguous, Frame, Undecided
  <2>2. CASE Admit(w)
    BY <1>1, <2>2 DEF Admit, At, Frame, Undecided
  <2>3. CASE Generate(w)
    BY <1>1, <2>3 DEF Generate, Frame, Undecided
  <2>4. CASE Accept(w)
    BY <1>1, <2>4 DEF Accept, Frame, Undecided
  <2>5. CASE LoadSchema(w)
    <3>1. CASE Job(w).kind = "approved"
      <4>1. PICK verdict \in {"valid", "invalid"} :
              frame' = [frame EXCEPT ![w].sql = verdict, ![w].pc = "validate"]
        BY <2>5, <3>1 DEF LoadSchema
      <4> QED
        BY <1>1, <4>1 DEF Frame, Undecided
    <3>2. CASE Job(w).kind # "approved"
      <4>1. PICK context \in Contexts(Job(w).user) :
              frame' = [frame EXCEPT ![w].prompt = context, ![w].pc = "generate"]
        BY <2>5, <3>2 DEF LoadSchema
      <4> QED
        BY <1>1, <4>1 DEF Frame, Undecided
    <3> QED
      BY <3>1, <3>2
  <2> QED
    BY <2>1, <2>2, <2>3, <2>4, <2>5
<1>4. \A kind, status, via : Settles(kind, status, via, <<>>) /\ Settles(kind, status, via, <<"llm_calls">>)
  BY OneKey DEF Settles, Tracked
<1>5. frame'[w].outcome.via = "pipeline" /\ (frame'[w].pc = "lookup" => frame[w].job.kind \in Counted)
  BY <1>1, <1>3 DEF CountOK
<1> QED
  BY <1>1, <1>2, <1>3, <1>4, <1>5, UndecidedMoves DEF Undecided

(* What the rate limiter or the cache decides.                             *)
LEMMA CountRefuse ==
  ASSUME CountInv, NEW w \in Workers, Refuse(w)
  PROVE  CountMoves(w)
<1> DEFINE o == [status |-> "blocked", via |-> "limit", source |-> Job(w)]
           keys == <<"queries_blocked">>
<1>1. /\ frame \in [Workers -> Frame] /\ frame[w].pc = "admit" /\ frame[w].seen = <<>>
      /\ CountOK(frame[w])
  BY AtUndecided DEF Refuse
<1>2. frame' = [frame EXCEPT ![w].outcome = o, ![w].todo = keys, ![w].pc = "return"]
  BY DEF Refuse
<1>3. o.via = "limit" /\ o.status = "blocked"
  OBVIOUS
<1>4. frame[w].job.kind \in Counted
  BY <1>1 DEF CountOK
<1>5. Settles(frame[w].job.kind, "blocked", "limit", keys)
  BY <1>4, OneKey DEF Settles, CountsAs
<1> HIDE DEF o, keys
<1>6. /\ frame'[w].job = frame[w].job /\ frame'[w].outcome = o /\ frame'[w].pc = "return"
      /\ frame'[w].todo = keys /\ frame'[w].seen = <<>>
  BY <1>1, <1>2 DEF Frame
<1>7. OthersStay(w)
  BY <1>1, <1>2 DEF OthersStay
<1> QED
  BY <1>1, <1>3, <1>5, <1>6, <1>7, UndecidedMoves DEF Undecided

LEMMA CountLookup ==
  ASSUME CountInv, NEW w \in Workers, Lookup(w)
  PROVE  CountMoves(w)
<1>1. /\ frame \in [Workers -> Frame] /\ frame[w].pc = "lookup" /\ frame[w].seen = <<>>
      /\ CountOK(frame[w]) /\ frame[w].todo = <<>>
  BY AtUndecided DEF Lookup
<1>2. frame[w].job.kind \in Counted /\ frame[w].outcome.via = "pipeline"
  BY <1>1 DEF CountOK, Undecided
<1>3. ASSUME NEW p, frame' = [frame EXCEPT
                      ![w].outcome = [status |-> "success", via |-> "cache", source |-> p],
                      ![w].todo = <<"cache_hits">>,
                      ![w].pc = "return"]
      PROVE  CountMoves(w)
  <2> DEFINE o == [status |-> "success", via |-> "cache", source |-> p]
             keys == <<"cache_hits">>
  <2>1. frame' = [frame EXCEPT ![w].outcome = o, ![w].todo = keys, ![w].pc = "return"]
    BY <1>3
  <2>2. o.via = "cache" /\ o.status = "success"
    OBVIOUS
  <2>3. Settles(frame[w].job.kind, "success", "cache", keys)
    BY <1>2, OneKey DEF Settles, CountsAs
  <2> HIDE DEF o, keys
  <2>4. /\ frame'[w].job = frame[w].job /\ frame'[w].outcome = o /\ frame'[w].pc = "return"
        /\ frame'[w].todo = keys /\ frame'[w].seen = <<>>
    BY <1>1, <2>1 DEF Frame
  <2>5. OthersStay(w)
    BY <1>1, <2>1 DEF OthersStay
  <2> QED
    BY <1>1, <2>2, <2>3, <2>4, <2>5, UndecidedMoves DEF Undecided
<1>4. ASSUME NEW keys, keys \in {<<>>, <<"cache_misses">>}, OthersStay(w),
             frame'[w].job = frame[w].job, frame'[w].outcome = frame[w].outcome,
             frame'[w].pc = "schema", frame'[w].todo = keys, frame'[w].seen = <<>>
      PROVE  CountMoves(w)
  <2>1. \A kind, status, via : Settles(kind, status, via, keys)
    BY <1>4, OneKey DEF Settles, Tracked
  <2> QED
    BY <1>1, <1>2, <1>4, <2>1, UndecidedMoves DEF Undecided
<1>5. \/ \E p \in Hits(Job(w), cache) : frame' = [frame EXCEPT
                      ![w].outcome = [status |-> "success", via |-> "cache", source |-> p],
                      ![w].todo = <<"cache_hits">>,
                      ![w].pc = "return"]
      \/ frame' = [frame EXCEPT ![w].todo = <<"cache_misses">>, ![w].pc = "schema"]
      \/ frame' = [frame EXCEPT ![w].pc = "schema"]
  BY Zenon DEF Lookup, Hits
<1>6. CASE frame' = [frame EXCEPT ![w].todo = <<"cache_misses">>, ![w].pc = "schema"]
  <2>1. /\ frame'[w].job = frame[w].job /\ frame'[w].outcome = frame[w].outcome
        /\ frame'[w].pc = "schema" /\ frame'[w].todo = <<"cache_misses">> /\ frame'[w].seen = <<>>
    BY <1>1, <1>6 DEF Frame
  <2>2. OthersStay(w)
    BY <1>1, <1>6 DEF OthersStay
  <2> QED
    BY <1>4, <2>1, <2>2
<1>7. CASE frame' = [frame EXCEPT ![w].pc = "schema"]
  <2>1. /\ frame'[w].job = frame[w].job /\ frame'[w].outcome = frame[w].outcome
        /\ frame'[w].pc = "schema" /\ frame'[w].todo = <<>> /\ frame'[w].seen = <<>>
    BY <1>1, <1>7 DEF Frame
  <2>2. OthersStay(w)
    BY <1>1, <1>7 DEF OthersStay
  <2> QED
    BY <1>4, <2>1, <2>2
<1> QED
  BY <1>3, <1>5, <1>6, <1>7

(* The steps that decide a call in the pipeline, or repeat an attempt.     *)
LEMMA CountDecisions ==
  ASSUME CountInv, NEW w \in Workers,
         \/ AskBack(w) \/ Reject(w) \/ Explain(w) \/ Execute(w) \/ ExecuteFails(w)
  PROVE  CountMoves(w)
<1>1. \A kind, status, via : Settles(kind, status, via, <<>>)
  BY DEF Settles
<1>2. CASE AskBack(w)
  <2>1. At(w, "ambiguity") /\ "ambiguity" \in Undecided
    BY <1>2 DEF AskBack, Undecided
  <2> QED
    BY <1>1, <1>2, <2>1, DecideCounts DEF AskBack
<1>3. CASE Reject(w)
  <2>1. At(w, "validate") /\ "validate" \in Undecided
    BY <1>3 DEF Reject, Undecided
  <2>2. \A kind, status, via : Settles(kind, status, via, <<"validation_failures">>)
    BY OneKey DEF Settles, Tracked
  <2>3. \A kind \in Counted :
          Settles(kind, "blocked", "pipeline", <<"validation_failures", "queries_blocked">>)
    BY TwoKeys DEF Settles, Tracked, CountsAs
  <2>4. "validation_failures" \notin Tracked
    BY DEF Tracked
  <2>5. CASE Job(w).kind \in Counted /\ GivesUp(w)
    <3>1. Decide(w, "blocked", <<"validation_failures", "queries_blocked">>, "audit")
      BY <1>3, <2>5 DEF Reject, Counted
    <3> QED
      BY <2>1, <2>3, <2>5, <3>1, DecideCounts
  <2>6. CASE Job(w).kind \in Counted /\ ~GivesUp(w)
    <3>1. Retry(w, "validation_failures")
      BY <1>3, <2>6 DEF Reject, Counted
    <3> QED
      BY <2>1, <2>4, <3>1, RetryCounts
  <2>7. CASE Job(w).kind \notin Counted
    <3>1. \E status : Decide(w, status, <<"validation_failures">>, "return")
      BY <1>3, <2>7 DEF Reject
    <3> QED
      BY <2>1, <2>2, <3>1, DecideCounts
  <2> QED
    BY <2>5, <2>6, <2>7
<1>4. CASE Explain(w)
  <2>1. At(w, "explain") /\ "explain" \in Undecided
    BY <1>4 DEF Explain, Undecided
  <2> QED
    BY <1>1, <1>4, <2>1, DecideCounts DEF Explain
<1>5. CASE Execute(w) \/ ExecuteFails(w)
  <2>1. At(w, "execute") /\ "execute" \in Undecided
    BY <1>5 DEF Execute, ExecuteFails, Undecided
  <2>2. Job(w).kind \in Counted
    BY <2>1, AtUndecided DEF FrameOK, Job
  <2>3. CASE Execute(w)
    <3>1. Settles(Job(w).kind, "success", "pipeline", <<"queries_success">>)
      BY <2>2, OneKey DEF Settles, CountsAs
    <3> QED
      BY <2>1, <2>3, <3>1, DecideCounts DEF Execute
  <2>4. CASE ExecuteFails(w) /\ GivesUp(w)
    <3>1. Settles(Job(w).kind, "error", "pipeline", <<"execution_failures", "queries_error">>)
      BY <2>2, TwoKeys DEF Settles, Tracked, CountsAs
    <3>2. Decide(w, "error", <<"execution_failures", "queries_error">>, "audit")
      BY <2>4 DEF ExecuteFails
    <3> QED
      BY <2>1, <3>1, <3>2, DecideCounts
  <2>5. CASE ExecuteFails(w) /\ ~GivesUp(w)
    <3>1. Retry(w, "execution_failures")
      BY <2>5 DEF ExecuteFails
    <3> QED
      BY <2>1, <3>1, RetryCounts DEF Tracked
  <2> QED
    BY <1>5, <2>3, <2>4, <2>5
<1> QED
  BY <1>2, <1>3, <1>4, <1>5

LEMMA CountGenerateFails ==
  ASSUME CountInv, NEW w \in Workers, GenerateFails(w)
  PROVE  CountMoves(w)
<1> DEFINE o == [status |-> IF Job(w).kind = "clarify" THEN "ready" ELSE "error",
                 via |-> "pipeline", source |-> Job(w)]
           keys == IF Job(w).kind = "answer" THEN <<"queries_error">> ELSE <<>>
           next == AfterLLMFailure(Job(w).kind)
<1>1. /\ frame \in [Workers -> Frame] /\ frame[w].pc = "generate" /\ frame[w].seen = <<>>
      /\ Job(w) = frame[w].job
  BY AtUndecided DEF GenerateFails
<1>2. frame' = [frame EXCEPT ![w].sql = "none", ![w].outcome = o, ![w].todo = keys, ![w].pc = next]
  BY DEF GenerateFails
<1>3. o.via = "pipeline" /\ o.status = IF Job(w).kind = "clarify" THEN "ready" ELSE "error"
  OBVIOUS
<1>4. next \in {"audit", "return"}
  BY DEF AfterLLMFailure
<1>5. Settles(Job(w).kind, o.status, "pipeline", keys)
  <2>1. CASE Job(w).kind = "answer"
    <3>1. o.status = "error" /\ keys = <<"queries_error">>
      BY <1>3, <2>1
    <3> QED
      BY <2>1, <3>1, OneKey DEF Settles, CountsAs, Counted
  <2>2. CASE Job(w).kind # "answer"
    BY <2>2 DEF Settles
  <2> QED
    BY <2>1, <2>2
<1> HIDE DEF o, keys, next
<1>6. /\ frame'[w].job = frame[w].job /\ frame'[w].outcome = o /\ frame'[w].pc = next
      /\ frame'[w].todo = keys /\ frame'[w].seen = <<>>
  BY <1>1, <1>2 DEF Frame
<1>7. OthersStay(w)
  BY <1>1, <1>2 DEF OthersStay
<1> QED
  BY <1>1, <1>3, <1>4, <1>5, <1>6, <1>7, UndecidedMoves DEF Undecided

(* The audit record and what follows it.                                   *)
LEMMA CountStages ==
  ASSUME CountInv, NEW w \in Workers,
         WriteAudit(w) \/ Remember(w) \/ AppendHistory(w) \/ UpsertCache(w)
  PROVE  CountMoves(w)
<1>1. /\ frame \in [Workers -> Frame] /\ frame[w].seen = <<>> /\ CountOK(frame[w])
      /\ frame[w].pc \in {"audit", "remember", "history", "cache"}
      /\ frame[w].todo = <<>>
  BY AtUndecided DEF WriteAudit, Remember, AppendHistory, UpsertCache
<1>2. PICK next \in {"remember", "history", "cache", "return"} :
        frame' = [frame EXCEPT ![w].pc = next]
  BY DEF WriteAudit, AfterAudit, Remember, AppendHistory, UpsertCache
<1>3. /\ frame'[w].job = frame[w].job /\ frame'[w].outcome = frame[w].outcome
      /\ frame'[w].pc = next /\ frame'[w].todo = <<>> /\ frame'[w].seen = <<>>
  BY <1>1, <1>2 DEF Frame
<1>4. OthersStay(w)
  BY <1>1, <1>2 DEF OthersStay
<1>5. CountOK(frame'[w])
  BY <1>1, <1>3 DEF CountOK, Undecided
<1>6. \A k \in Tracked : HasCounted(frame[w], k) => HasCounted(frame'[w], k)
  BY <1>3 DEF HasCounted, Owes
<1> QED
  BY <1>3, <1>4, <1>5, <1>6 DEF CountMoves

-----------------------------------------------------------------------------
LEMMA CountRead ==
  ASSUME CountInv, AuditInv', NEW w \in Workers, MetricRead(w)
  PROVE  CountInv'
<1>1. /\ frame \in [Workers -> Frame] /\ CountOK(frame[w])
      /\ UNCHANGED <<metrics, boot, replies, started>>
  BY DEF CountInv, CountsOK, AuditInv, TypeInv, TypeOK, MetricRead, memory, observed
<1>2. frame' = [frame EXCEPT ![w].seen = <<metrics[Head(frame[w].todo)]>>]
  BY DEF MetricRead
<1>3. /\ frame'[w].job = frame[w].job /\ frame'[w].outcome = frame[w].outcome
      /\ frame'[w].pc = frame[w].pc /\ frame'[w].todo = frame[w].todo
      /\ frame'[w].seen = <<metrics[Head(frame[w].todo)]>>
  BY <1>1, <1>2 DEF Frame
<1>4. OthersStay(w)
  BY <1>1, <1>2 DEF OthersStay
<1>5. CountOK(frame[w])'
  BY <1>1, <1>3 DEF CountOK
<1>6. Carried(w)
  BY <1>3 DEF Carried, HasCounted, Owes
<1>7. frame'[w].seen[1] = metrics[Head(frame'[w].todo)]
  BY <1>3
<1>8. IsFiniteSet(replies') /\ replies \subseteq replies' /\ started' >= started
  BY <1>1 DEF CountInv, CountsOK, AuditInv, TypeInv, TypeOK
<1> QED
  BY <1>1, <1>4, <1>5, <1>6, <1>7, <1>8, CountStep

(* The counter becomes what was read of it plus one: not more than the     *)
(* calls counted by now, of which this call is a new one.                  *)
LEMMA CountStore ==
  ASSUME CountInv, AuditInv', NEW w \in Workers, MetricStore(w)
  PROVE  CountInv'
<1> DEFINE f == frame[w]
           g == frame'[w]
<1>0. PICK key : key = Head(f.todo)
  OBVIOUS
<1>1. /\ frame \in [Workers -> Frame] /\ f \in Frame /\ CountOK(f) /\ ReadOK(f) /\ FrameOK(f)
      /\ metrics \in [MetricKeys -> Nat] /\ started \in Nat /\ boot \in 0 .. started
      /\ IsFiniteSet(replies) /\ TypeInv /\ TypeInv' /\ CallsDiffer
  BY DEF CountInv, CountsOK, AuditInv, TypeInv, TypeOK, FramesOK
<1>2. /\ f.seen # <<>> /\ f.todo # <<>> /\ f.pc # "idle"
      /\ UNCHANGED <<boot, replies, started>>
  BY <1>1 DEF MetricStore, FrameOK, CountOK, observed
<1>3. /\ metrics' = [metrics EXCEPT ![key] = f.seen[1] + 1]
      /\ frame' = [frame EXCEPT ![w].todo = Tail(@), ![w].seen = <<>>]
  BY <1>0 DEF MetricStore
<1>4. /\ g.job = f.job /\ g.outcome = f.outcome /\ g.pc = f.pc /\ g.todo = Tail(f.todo)
      /\ g.seen = <<>>
  BY <1>1, <1>3 DEF Frame
<1>5. OthersStay(w)
  BY <1>1, <1>3 DEF OthersStay
<1>6. f.todo \in Seq(MetricKeys) /\ f.seen \in Seq(Nat)
  BY <1>1 DEF Frame
<1>7. /\ key = f.todo[1] /\ 1 \in DOMAIN f.todo /\ key \in MetricKeys /\ f.seen[1] \in Nat
      /\ \A i \in DOMAIN Tail(f.todo) : i + 1 \in DOMAIN f.todo /\ Tail(f.todo)[i] = f.todo[i + 1]
      /\ Len(Tail(f.todo)) = Len(f.todo) - 1
  BY <1>0, <1>2, <1>6
<1>8. \A k : Owes(g, k) => Owes(f, k)
  BY <1>4, <1>7 DEF Owes
<1>9. Carried(w)
  BY <1>4, <1>8 DEF Carried, HasCounted
<1>10. CountOK(g)
  <2>1. ASSUME NEW i \in DOMAIN g.todo, g.todo[i] \in Tracked
        PROVE  i = Len(g.todo) /\ CountsAs(g.job.kind, g.outcome.status, g.outcome.via, g.todo[i])
    <3>1. i + 1 \in DOMAIN f.todo /\ g.todo[i] = f.todo[i + 1] /\ i \in Nat
      BY <1>4, <1>6, <1>7, <2>1
    <3>2. /\ i + 1 = Len(f.todo)
          /\ CountsAs(f.job.kind, f.outcome.status, f.outcome.via, f.todo[i + 1])
      BY <1>1, <2>1, <3>1 DEF CountOK
    <3> QED
      BY <1>4, <1>7, <3>1, <3>2
  <2> QED
    BY <1>1, <1>2, <1>4, <2>1 DEF CountOK
<1>11. \A k \in Tracked : /\ CountedIds(k) \subseteq CountedIds(k)'
                          /\ Cardinality(CountedIds(k)) <= Cardinality(CountedIds(k)')
  BY <1>1, <1>2, <1>5, <1>9, CountsGrow
<1>12. \A k : /\ IsFiniteSet(CountedIds(k)') /\ Cardinality(CountedIds(k)') \in Nat
              /\ IsFiniteSet(CountedIds(k)) /\ Cardinality(CountedIds(k)) \in Nat
  <2> SUFFICES ASSUME NEW k
               PROVE  /\ IsFiniteSet(CountedIds(k)') /\ Cardinality(CountedIds(k)') \in Nat
                      /\ IsFiniteSet(CountedIds(k)) /\ Cardinality(CountedIds(k)) \in Nat
    OBVIOUS
  <2>1. IsFiniteSet(1 .. started) /\ CountedIds(k)' \subseteq 1 .. started
    BY <1>1, <1>2, FS_Interval DEF CountedIds
  <2> QED
    BY <1>1, <2>1, FS_Subset, FS_CardinalityType, CountedFinite
<1>13. ASSUME key \in Tracked PROVE f.seen[1] + 1 <= Cardinality(CountedIds(key)')
  <2> DEFINE id == f.job.id
  <2>1. id \in 1 .. started /\ id > boot
    <3>1. id \in 0 .. started /\ id > boot
      BY <1>1, <1>2 DEF CallsDiffer, CountOK
    <3> QED
      BY <1>1, <3>1
  <2>2. CountsAs(f.job.kind, f.outcome.status, f.outcome.via, key) /\ Len(f.todo) = 1
    BY <1>1, <1>7, <1>13 DEF CountOK
  <2>3. ~Owes(g, key)
    BY <1>4, <1>6, <1>7, <2>2 DEF Owes
  <2>4. HasCounted(g, key) /\ g.job.id = id
    BY <1>2, <1>4, <2>2, <2>3 DEF HasCounted
  <2>5. id \in CountedIds(key)'
    BY <1>2, <2>1, <2>4 DEF CountedIds
  <2>6. id \notin CountedIds(key)
    <3>1. Owes(f, key)
      BY <1>7 DEF Owes
    <3>2. \A r \in replies : r.call.id # id
      BY <1>1, <1>2 DEF CallsDiffer
    <3>3. \A v \in Workers : HasCounted(frame[v], key) => frame[v].job.id # id
      BY <1>1, <1>2, <3>1 DEF CallsDiffer, HasCounted
    <3> QED
      BY <3>2, <3>3 DEF CountedIds
  <2> HIDE DEF id
  <2>7. Cardinality(CountedIds(key) \cup {id}) = Cardinality(CountedIds(key)) + 1
    BY <1>12, <2>6, FS_AddElement
  <2>8. CountedIds(key) \cup {id} \subseteq CountedIds(key)'
    BY <1>11, <1>13, <2>5
  <2>9. Cardinality(CountedIds(key) \cup {id}) <= Cardinality(CountedIds(key)')
    BY <1>12, <2>8, FS_Subset
  <2>10. f.seen[1] <= Cardinality(CountedIds(key))
    BY <1>0, <1>2, <1>13 DEF ReadOK, CountInv, CountsOK
  <2> QED
    BY <1>7, <1>12, <2>7, <2>9, <2>10
<1>14. \A k \in Tracked : metrics'[k] <= Cardinality(CountedIds(k)')
  <2> SUFFICES ASSUME NEW k \in Tracked PROVE metrics'[k] <= Cardinality(CountedIds(k)')
    OBVIOUS
  <2>1. CASE k = key
    <3>1. metrics'[key] = f.seen[1] + 1
      BY <1>1, <1>3, <1>7
    <3> QED
      BY <1>13, <2>1, <3>1
  <2>2. CASE k # key
    <3>1. metrics'[k] = metrics[k] /\ metrics[k] \in Nat
      BY <1>1, <1>3, <2>2 DEF Tracked, MetricKeys
    <3>2. metrics[k] <= Cardinality(CountedIds(k))
      BY DEF CountInv, CountsOK
    <3> QED
      BY <1>11, <1>12, <3>1, <3>2
  <2> QED
    BY <2>1, <2>2
<1>15. ASSUME NEW v \in Workers PROVE CountOK(frame[v])' /\ ReadOK(frame[v])'
  <2>1. CASE v = w
    BY <1>2, <1>4, <1>10, <2>1 DEF CountOK, ReadOK
  <2>2. CASE v # w
    <3>1. frame'[v] = frame[v] /\ CountOK(frame[v]) /\ ReadOK(frame[v]) /\ frame[v] \in Frame
      BY <1>1, <1>5, <2>2 DEF OthersStay, CountInv, CountsOK
    <3>2. CountOK(frame[v])'
      BY <1>2, <3>1 DEF CountOK
    <3>3. ASSUME frame[v].seen # <<>>, Head(frame[v].todo) \in Tracked
          PROVE  frame[v].seen[1] <= Cardinality(CountedIds(Head(frame[v].todo))')
      <4> DEFINE k == Head(frame[v].todo)
                 n == frame[v].seen[1]
      <4>1. frame[v].seen \in Seq(Nat)
        BY <3>1 DEF Frame
      <4>2. n \in Nat /\ n <= Cardinality(CountedIds(k))
        BY <3>1, <3>3, <4>1 DEF ReadOK
      <4> QED
        BY <1>11, <1>12, <3>1, <3>3, <4>2
    <3> QED
      BY <3>1, <3>2, <3>3 DEF ReadOK
  <2> QED
    BY <2>1, <2>2
<1> QED
  BY <1>1, <1>2, <1>14, <1>15 DEF CountInv, CountsOK

LEMMA CountStart ==
  ASSUME CountInv, AuditInv', NEW w \in Workers, NEW kind \in Kinds, NEW u \in Users,
         NEW q \in Questions, NEW d \in Databases, Start(w, kind, u, q, d)
  PROVE  CountInv'
<1> DEFINE c == [id |-> started + 1, kind |-> kind, user |-> u, question |-> q, db |-> d]
           g == FirstFrame(c)
<1>1. /\ frame \in [Workers -> Frame] /\ started \in Nat /\ started' = started + 1
      /\ boot \in 0 .. started /\ IsFiniteSet(replies)
      /\ frame' = [frame EXCEPT ![w] = g] /\ UNCHANGED <<metrics, boot, replies>>
  BY DEF CountInv, CountsOK, AuditInv, TypeInv, TypeOK, Start, memory, observed
<1>2. frame[w].pc = "idle"
  BY DEF Start, At
<1>3. /\ g.job = c /\ g.pc = FirstPC(kind) /\ c.id = started + 1 /\ c.kind = kind
      /\ g.outcome = NoOutcome /\ g.todo = FirstMetrics(kind) /\ g.seen = <<>>
  BY DEF FirstFrame
<1>4. /\ g.pc \in {"admit", "schema", "ambiguity"}
      /\ g.pc = "admit" => kind \in Counted
  BY <1>3 DEF FirstPC, Counted
<1>5. NoOutcome.status = "none" /\ NoOutcome.via = "pipeline"
  BY DEF NoOutcome
<1>6. \A i \in DOMAIN FirstMetrics(kind) :
        i = Len(FirstMetrics(kind)) /\ CountsAs(kind, "none", "pipeline", FirstMetrics(kind)[i])
  <2>1. CASE kind \in Counted
    <3>1. FirstMetrics(kind) = <<"queries_total">>
      BY <2>1 DEF FirstMetrics
    <3> QED
      BY <2>1, <3>1, OneKey DEF CountsAs
  <2>2. CASE kind \notin Counted
    BY <2>2 DEF FirstMetrics
  <2> QED
    BY <2>1, <2>2
<1> HIDE DEF g, c
<1>7. frame'[w] = g /\ OthersStay(w)
  BY <1>1 DEF OthersStay
<1>8. CountOK(frame[w])'
  <2>1. g.job.id > boot'
    BY <1>1, <1>3
  <2> QED
    BY <1>3, <1>4, <1>5, <1>6, <1>7, <2>1 DEF CountOK
<1>9. Carried(w)
  BY <1>2 DEF Carried, HasCounted
<1> QED
  BY <1>1, <1>3, <1>7, <1>8, <1>9, CountStep

(* A call that ends carries its counts into the reply.                     *)
LEMMA CountEnd ==
  ASSUME CountInv, AuditInv', NEW w \in Workers, Return(w) \/ Raise(w)
  PROVE  CountInv'
<1> DEFINE f == frame[w]
           via == IF Return(w) THEN f.outcome.via ELSE "raise"
           r == Reply(w, via)
<1>1. /\ frame \in [Workers -> Frame] /\ CountOK(f) /\ IsFiniteSet(replies) /\ started \in Nat
      /\ frame' = [frame EXCEPT ![w] = IdleFrame]
      /\ UNCHANGED <<metrics, boot, started>> /\ replies' = replies \cup {r}
  BY Zenon DEF CountInv, CountsOK, AuditInv, TypeInv, TypeOK, Return, Raise, memory
<1>2. f.pc # "idle" /\ (via = f.outcome.via \/ (via = "raise" /\ f.pc # "return"))
  <2>1. CASE Return(w)
    BY <2>1 DEF Return, At
  <2>2. CASE ~Return(w)
    BY <2>2 DEF Raise, CanRaise
  <2> QED
    BY <2>1, <2>2
<1>3. r.call = f.job /\ r.via = via /\ r.status = f.outcome.status
  BY DEF Reply, Job
<1> HIDE DEF via, r
<1>4. \A k \in Tracked : HasCounted(f, k) => CountsAs(r.call.kind, r.status, r.via, k)
  BY <1>1, <1>2, <1>3 DEF HasCounted, CountsAs, CountOK
<1>5. Carried(w)
  BY <1>1, <1>2, <1>3, <1>4 DEF Carried, CountOK
<1>6. OthersStay(w) /\ frame'[w] = IdleFrame
  BY <1>1 DEF OthersStay
<1>7. CountOK(frame[w])' /\ frame'[w].seen = <<>>
  BY <1>6 DEF CountOK, IdleFrame, NoOutcome, Undecided
<1>8. IsFiniteSet(replies') /\ replies \subseteq replies' /\ started' >= started
  BY <1>1, FS_AddElement
<1> QED
  BY <1>1, <1>5, <1>6, <1>7, <1>8, CountStep

(* A new process starts from nought, and counts its own calls.             *)
LEMMA CountCrash ==
  ASSUME CountInv, AuditInv', Crash
  PROVE  CountInv'
<1>1. /\ started \in Nat /\ IsFiniteSet(replies) /\ boot' = started
      /\ frame' = [w \in Workers |-> IdleFrame] /\ metrics' = [k \in MetricKeys |-> 0]
      /\ UNCHANGED <<started, replies>> /\ CallsDiffer
  BY DEF CountInv, CountsOK, AuditInv, TypeInv, TypeOK, Crash, observed
<1>2. ASSUME NEW w \in Workers PROVE CountOK(frame[w])' /\ ReadOK(frame[w])'
  BY <1>1 DEF CountOK, ReadOK, IdleFrame, NoOutcome, Undecided
<1>3. ASSUME NEW k \in Tracked PROVE metrics'[k] <= Cardinality(CountedIds(k)')
  <2>1. IsFiniteSet(1 .. started) /\ CountedIds(k)' \subseteq 1 .. started
    BY <1>1, FS_Interval DEF CountedIds
  <2>2. Cardinality(CountedIds(k)') \in Nat
    BY <2>1, FS_Subset, FS_CardinalityType
  <2>3. metrics'[k] = 0
    BY <1>1 DEF Tracked, MetricKeys
  <2> QED
    BY <2>2, <2>3
<1>4. boot' \in 0 .. started' /\ IsFiniteSet(replies')
  BY <1>1
<1> QED
  BY <1>2, <1>3, <1>4 DEF CountInv, CountsOK

LEMMA CountInit == Init => CountInv
<1> SUFFICES ASSUME Init PROVE CountInv
  OBVIOUS
<1>1. /\ frame = [w \in Workers |-> IdleFrame] /\ metrics = [k \in MetricKeys |-> 0]
      /\ started = 0 /\ boot = 0 /\ replies = {}
  BY DEF Init
<1>2. ASSUME NEW w \in Workers PROVE CountOK(frame[w]) /\ ReadOK(frame[w])
  BY <1>1 DEF CountOK, ReadOK, IdleFrame, NoOutcome, Undecided
<1>3. ASSUME NEW k \in Tracked PROVE metrics[k] <= Cardinality(CountedIds(k))
  <2>1. Cardinality(CountedIds(k)) \in Nat
    BY <1>1, CountedFinite
  <2> QED
    BY <1>1, <2>1 DEF Tracked, MetricKeys
<1>4. boot \in 0 .. started /\ IsFiniteSet(replies)
  BY <1>1, FS_EmptySet
<1> QED
  BY <1>2, <1>3, <1>4, AuditInit DEF CountInv, CountsOK

LEMMA CountNext == CountInv /\ [Next]_vars => CountInv'
<1> SUFFICES ASSUME CountInv, [Next]_vars PROVE CountInv'
  OBVIOUS
<1>1. AuditInv'
  BY AuditNext DEF CountInv
<1>2. CASE UNCHANGED vars
  <2>1. UNCHANGED <<frame, metrics, boot, replies, started>>
    BY <1>2 DEF vars, memory, observed
  <2>2. \A k : CountedIds(k)' = CountedIds(k)
    BY <2>1 DEF CountedIds, HasCounted
  <2>3. ASSUME NEW w \in Workers PROVE CountOK(frame[w])' /\ ReadOK(frame[w])'
    <3>1. frame'[w] = frame[w] /\ CountOK(frame[w]) /\ ReadOK(frame[w])
      BY <2>1 DEF CountInv, CountsOK
    <3>2. CountOK(frame[w])'
      BY <2>1, <3>1 DEF CountOK
    <3>3. ReadOK(frame[w])'
      BY <2>2, <3>1 DEF ReadOK
    <3> QED
      BY <3>2, <3>3
  <2> QED
    BY <1>1, <2>1, <2>2, <2>3 DEF CountInv, CountsOK
<1>3. CASE \E w \in Workers, kind \in Kinds, u \in Users, q \in Questions, d \in Databases :
             Start(w, kind, u, q, d)
  BY <1>1, <1>3, CountStart
<1>4. CASE Crash
  BY <1>1, <1>4, CountCrash
<1>5. ASSUME NEW w \in Workers, Progress(w) PROVE CountInv'
  <2>1. CASE MetricRead(w)
    BY <1>1, <2>1, CountRead
  <2>2. CASE MetricStore(w)
    BY <1>1, <2>2, CountStore
  <2>3. CASE Return(w) \/ Raise(w)
    BY <1>1, <2>3, CountEnd
  <2>4. CASE \/ Unambiguous(w) \/ Admit(w) \/ Generate(w) \/ Accept(w) \/ LoadSchema(w)
    <3>1. UNCHANGED <<metrics, boot, replies, started>>
      BY <2>4 DEF Unambiguous, Admit, Generate, Accept, LoadSchema, memory, observed
    <3> QED
      BY <1>1, <2>4, <3>1, CountMovesOn, MovesCount
  <2>5. CASE Refuse(w) \/ Lookup(w) \/ GenerateFails(w)
    <3>1. UNCHANGED <<metrics, boot, replies, started>>
      BY <2>5 DEF Refuse, Lookup, GenerateFails, memory, observed
    <3> QED
      BY <1>1, <2>5, <3>1, CountRefuse, CountLookup, CountGenerateFails, MovesCount
  <2>6. CASE \/ AskBack(w) \/ Reject(w) \/ Explain(w) \/ Execute(w) \/ ExecuteFails(w)
    <3>1. UNCHANGED <<metrics, boot, replies, started>>
      BY <2>6 DEF AskBack, Reject, Explain, Execute, ExecuteFails, memory, observed
    <3> QED
      BY <1>1, <2>6, <3>1, CountDecisions, MovesCount
  <2>7. CASE WriteAudit(w) \/ Remember(w) \/ AppendHistory(w) \/ UpsertCache(w)
    <3>1. UNCHANGED <<metrics, boot, replies, started>>
      BY <2>7 DEF WriteAudit, Remember, AppendHistory, UpsertCache, memory, observed
    <3> QED
      BY <1>1, <2>7, <3>1, CountStages, MovesCount
  <2> QED
    BY <1>5, <2>1, <2>2, <2>3, <2>4, <2>5, <2>6, <2>7 DEF Progress
<1> QED
  BY <1>2, <1>3, <1>4, <1>5 DEF Next

(* When no call is under way, what was counted stands in the replies.      *)
LEMMA CountedReplied ==
  ASSUME CountInv, Quiet, NEW k \in Tracked, NEW S \in SUBSET replies,
         \A r \in replies : r.call.id > boot /\ CountsAs(r.call.kind, r.status, r.via, k) => r \in S
  PROVE  metrics[k] <= Cardinality(S)
<1>1. IsFiniteSet(S) /\ Cardinality(S) \in Nat
  BY FS_Subset, FS_CardinalityType DEF CountInv, CountsOK
<1> DEFINE id == [r \in S |-> r.call.id]
           T == {id[r] : r \in S}
<1>2. id \in Surjection(S, T)
  BY DEF Surjection
<1>3. IsFiniteSet(T) /\ Cardinality(T) <= Cardinality(S)
  BY <1>1, <1>2, FS_Surjection
<1>4. CountedIds(k) \subseteq T
  <2> SUFFICES ASSUME NEW i \in CountedIds(k) PROVE i \in T
    OBVIOUS
  <2>1. \A w \in Workers : ~HasCounted(frame[w], k)
    BY DEF Quiet, HasCounted
  <2>2. PICK r \in replies : r.call.id = i /\ i > boot /\ CountsAs(r.call.kind, r.status, r.via, k)
    BY <2>1 DEF CountedIds
  <2>3. r \in S /\ id[r] = i
    BY <2>2
  <2> QED
    BY <2>3
<1>5. /\ Cardinality(CountedIds(k)) <= Cardinality(T) /\ Cardinality(CountedIds(k)) \in Nat
      /\ Cardinality(T) \in Nat
  BY <1>3, <1>4, FS_Subset, FS_CardinalityType
<1>6. metrics[k] <= Cardinality(CountedIds(k)) /\ metrics[k] \in Nat
  BY DEF CountInv, CountsOK, AuditInv, TypeInv, TypeOK, Tracked, MetricKeys
<1> QED
  BY <1>1, <1>3, <1>5, <1>6

(* Threads may lose increments of a counter, but never invent one: an idle *)
(* service has counted no more calls than have ended that way.             *)
THEOREM MetricsAreBounded == Spec => []MetricsNeverOvercount
<1>1. CountInv => MetricsNeverOvercount
  <2> SUFFICES ASSUME CountInv, Quiet
               PROVE  /\ metrics["queries_total"] <= Cardinality(Ended)
                      /\ metrics["queries_success"] <= Cardinality(EndedAs("success"))
                      /\ metrics["queries_blocked"] <= Cardinality(EndedAs("blocked"))
                      /\ metrics["queries_error"] <= Cardinality(EndedAs("error"))
                      /\ metrics["cache_hits"] <= Cardinality({r \in Ended : r.via = "cache"})
    BY DEF MetricsNeverOvercount
  <2> USE DEF Tracked, CountsAs, Ended, EndedAs
  <2>1. metrics["queries_total"] <= Cardinality(Ended)
    BY CountedReplied
  <2>2. metrics["queries_success"] <= Cardinality(EndedAs("success"))
    BY CountedReplied
  <2>3. metrics["queries_blocked"] <= Cardinality(EndedAs("blocked"))
    BY CountedReplied
  <2>4. metrics["queries_error"] <= Cardinality(EndedAs("error"))
    BY CountedReplied
  <2>5. metrics["cache_hits"] <= Cardinality({r \in Ended : r.via = "cache"})
    BY CountedReplied
  <2> QED
    BY <2>1, <2>2, <2>3, <2>4, <2>5
<1> QED
  BY <1>1, CountInit, CountNext, PTL DEF Spec

-----------------------------------------------------------------------------
(* The event loop alone (Streams is empty).  A counter is the number of    *)
(* the calls counted under it: nothing comes between a read and its store. *)
RepliesDiffer == \A r, q \in replies : r.call.id = q.call.id => r = q

ReadsAreFresh ==
  \A w \in Workers : frame[w].seen # <<>> => frame[w].seen[1] = metrics[Head(frame[w].todo)]

BalanceInv ==
  /\ CountInv /\ RepliesDiffer /\ ReadsAreFresh
  /\ \A k \in Tracked : metrics[k] = Cardinality(CountedIds(k))

(* A step that stores no counter, and after which no more calls count.     *)
LEMMA BalanceKept ==
  ASSUME BalanceInv, CountInv', metrics' = metrics, RepliesDiffer', ReadsAreFresh',
         \A k \in Tracked : CountedIds(k)' \subseteq CountedIds(k)
  PROVE  BalanceInv'
<1>1. ASSUME NEW k \in Tracked PROVE metrics'[k] = Cardinality(CountedIds(k)')
  <2>1. started \in Nat /\ metrics[k] \in Nat /\ metrics[k] = Cardinality(CountedIds(k))
    BY DEF BalanceInv, CountInv, AuditInv, TypeInv, TypeOK, Tracked, MetricKeys
  <2>2. IsFiniteSet(CountedIds(k))
    BY <2>1, CountedFinite
  <2>3. /\ Cardinality(CountedIds(k)') <= Cardinality(CountedIds(k))
        /\ Cardinality(CountedIds(k)') \in Nat
    BY <2>2, FS_Subset, FS_CardinalityType
  <2>4. metrics'[k] <= Cardinality(CountedIds(k)')
    BY DEF CountInv, CountsOK
  <2> QED
    BY <2>1, <2>3, <2>4
<1> QED
  BY <1>1 DEF BalanceInv

(* Under what its call is counted after a step of w, it was before.        *)
CountsNoMore(w) ==
  \A k \in Tracked : HasCounted(frame'[w], k) =>
    HasCounted(frame[w], k) /\ frame'[w].job = frame[w].job

LEMMA BalanceStep ==
  ASSUME Streams = {}, BalanceInv, CountInv', NEW w \in Workers, CountsNoMore(w),
         UNCHANGED <<metrics, boot, replies, started>>,
         frame'[w].seen # <<>> => frame'[w].seen[1] = metrics[Head(frame'[w].todo)]
  PROVE  BalanceInv'
<1>1. Workers = {w}
  BY DEF Workers
<1>2. \A k \in Tracked : CountedIds(k)' \subseteq CountedIds(k)
  BY <1>1 DEF CountedIds, CountsNoMore
<1>3. RepliesDiffer' /\ ReadsAreFresh'
  BY <1>1 DEF BalanceInv, RepliesDiffer, ReadsAreFresh
<1> QED
  BY <1>2, <1>3, BalanceKept

(* The steps after which the call has the outcome it had.                  *)
LEMMA SameOutcome ==
  ASSUME NEW w \in Workers, frame[w].todo = <<>>, frame[w].pc # "idle",
         frame'[w].job = frame[w].job, frame'[w].outcome = frame[w].outcome
  PROVE  CountsNoMore(w)
BY DEF CountsNoMore, HasCounted, Owes

LEMMA StepsCountNothing ==
  ASSUME CountInv, NEW w \in Workers,
         \/ Unambiguous(w) \/ Admit(w) \/ Generate(w) \/ Accept(w) \/ LoadSchema(w)
         \/ WriteAudit(w) \/ Remember(w) \/ AppendHistory(w) \/ UpsertCache(w)
  PROVE  CountsNoMore(w) /\ frame'[w].seen = <<>> /\ UNCHANGED <<metrics, boot, replies, started>>
<1>1. /\ frame \in [Workers -> Frame] /\ frame[w].pc # "idle" /\ frame[w].seen = <<>>
      /\ frame[w].todo = <<>>
  BY AtUndecided DEF Unambiguous, Admit, Generate, Accept, LoadSchema, WriteAudit, Remember,
     AppendHistory, UpsertCache
<1>2. /\ frame'[w].job = frame[w].job /\ frame'[w].outcome = frame[w].outcome
      /\ frame'[w].seen = <<>>
  <2>1. CASE Unambiguous(w) \/ Admit(w) \/ Generate(w) \/ Accept(w)
    BY <1>1, <2>1 DEF Unambiguous, Admit, Generate, Accept, Frame
  <2>2. CASE LoadSchema(w)
    <3>1. CASE Job(w).kind = "approved"
      <4>1. PICK verdict \in {"valid", "invalid"} :
              frame' = [frame EXCEPT ![w].sql = verdict, ![w].pc = "validate"]
        BY <2>2, <3>1 DEF LoadSchema
      <4> QED
        BY <1>1, <4>1 DEF Frame
    <3>2. CASE Job(w).kind # "approved"
      <4>1. PICK context \in Contexts(Job(w).user) :
              frame' = [frame EXCEPT ![w].prompt = context, ![w].pc = "generate"]
        BY <2>2, <3>2 DEF LoadSchema
      <4> QED
        BY <1>1, <4>1 DEF Frame
    <3> QED
      BY <3>1, <3>2
  <2>3. CASE WriteAudit(w) \/ Remember(w) \/ AppendHistory(w) \/ UpsertCache(w)
    <3>1. PICK next \in {"remember", "history", "cache", "return"} :
            frame' = [frame EXCEPT ![w].pc = next]
      BY <2>3 DEF WriteAudit, AfterAudit, Remember, AppendHistory, UpsertCache
    <3> QED
      BY <1>1, <3>1 DEF Frame
  <2> QED
    BY <2>1, <2>2, <2>3
<1>3. UNCHANGED <<metrics, boot, replies, started>>
  BY DEF Unambiguous, Admit, Generate, Accept, LoadSchema, WriteAudit, Remember, AppendHistory,
     UpsertCache, memory, observed
<1> QED
  BY <1>1, <1>2, <1>3, SameOutcome

(* A decision leaves to record whatever its call is to be counted under.   *)
Covers(kind, status, via, keys) ==
  \A k \in Tracked \ {"queries_total"} :
    CountsAs(kind, status, via, k) => \E i \in DOMAIN keys : keys[i] = k

LEMMA CoveredCounts ==
  ASSUME CountInv, NEW w \in Workers, frame[w].todo = <<>>, frame[w].pc # "idle",
         frame'[w].job = frame[w].job,
         Covers(frame[w].job.kind, frame'[w].outcome.status, frame'[w].outcome.via, frame'[w].todo)
  PROVE  CountsNoMore(w)
BY DEF CountsNoMore, HasCounted, Owes, Covers, CountsAs

LEMMA DecisionCovers ==
  ASSUME CountInv, NEW w \in Workers, NEW pc, pc # "idle", At(w, pc), NEW status, NEW keys, NEW next,
         Covers(Job(w).kind, status, "pipeline", keys), Decide(w, status, keys, next)
  PROVE  CountsNoMore(w) /\ frame'[w].seen = <<>>
<1> DEFINE o == [status |-> status, via |-> "pipeline", source |-> Job(w)]
<1>1. /\ frame \in [Workers -> Frame] /\ frame[w].pc # "idle" /\ frame[w].todo = <<>>
      /\ frame[w].seen = <<>> /\ Job(w) = frame[w].job
  BY AtUndecided
<1>2. frame' = [frame EXCEPT ![w] = [frame[w] EXCEPT !.outcome = o, !.todo = keys, !.pc = next]]
  BY <1>1 DEF Decide
<1>3. o.via = "pipeline" /\ o.status = status
  OBVIOUS
<1> HIDE DEF o
<1>4. /\ frame'[w].job = frame[w].job /\ frame'[w].outcome = o
      /\ frame'[w].todo = keys /\ frame'[w].seen = <<>>
  BY <1>1, <1>2 DEF Frame
<1> QED
  BY <1>1, <1>3, <1>4, CoveredCounts

LEMMA RetryCountsNothing ==
  ASSUME CountInv, NEW w \in Workers, NEW pc, pc # "idle", At(w, pc), NEW key, Retry(w, key)
  PROVE  CountsNoMore(w) /\ frame'[w].seen = <<>>
<1>1. /\ frame \in [Workers -> Frame] /\ frame[w].pc # "idle" /\ frame[w].todo = <<>>
      /\ frame[w].seen = <<>>
  BY AtUndecided
<1>2. /\ frame'[w].job = frame[w].job /\ frame'[w].outcome = frame[w].outcome
      /\ frame'[w].seen = <<>>
  BY <1>1 DEF Retry, Frame
<1> QED
  BY <1>1, <1>2, SameOutcome

(* What each status has to be recorded under.                              *)
LEMMA CoversStatus ==
  /\ \A kind, status, via, keys : kind \notin Counted => Covers(kind, status, via, keys)
  /\ \A kind : Covers(kind, "success", "pipeline", <<"queries_success">>)
  /\ \A kind : Covers(kind, "error", "pipeline", <<"queries_error">>)
  /\ \A kind : Covers(kind, "blocked", "limit", <<"queries_blocked">>)
  /\ \A kind : Covers(kind, "success", "cache", <<"cache_hits">>)
  /\ \A kind : Covers(kind, "error", "pipeline", <<"execution_failures", "queries_error">>)
  /\ \A kind : Covers(kind, "blocked", "pipeline", <<"validation_failures", "queries_blocked">>)
<1>1. \A kind, status, via, keys : kind \notin Counted => Covers(kind, status, via, keys)
  BY DEF Covers, CountsAs
<1>2. /\ \A kind : Covers(kind, "success", "pipeline", <<"queries_success">>)
      /\ \A kind : Covers(kind, "error", "pipeline", <<"queries_error">>)
      /\ \A kind : Covers(kind, "blocked", "limit", <<"queries_blocked">>)
      /\ \A kind : Covers(kind, "success", "cache", <<"cache_hits">>)
  BY OneKey DEF Covers, CountsAs
<1>3. /\ \A kind : Covers(kind, "error", "pipeline", <<"execution_failures", "queries_error">>)
      /\ \A kind : Covers(kind, "blocked", "pipeline", <<"validation_failures", "queries_blocked">>)
  BY TwoKeys DEF Covers, CountsAs
<1> QED
  BY <1>1, <1>2, <1>3

LEMMA DecisionsCount ==
  ASSUME CountInv, NEW w \in Workers,
         \/ AskBack(w) \/ Reject(w) \/ Explain(w) \/ Execute(w) \/ ExecuteFails(w)
  PROVE  CountsNoMore(w) /\ frame'[w].seen = <<>> /\ UNCHANGED <<metrics, boot, replies, started>>
<1>0. UNCHANGED <<metrics, boot, replies, started>>
  BY DEF AskBack, Reject, Explain, Execute, ExecuteFails, memory, observed
<1>1. CASE AskBack(w) \/ Explain(w)
  <2>1. PICK pc \in {"ambiguity", "explain"} : At(w, pc)
    BY <1>1 DEF AskBack, Explain
  <2>2. Job(w).kind \notin Counted
    BY <2>1, AtUndecided DEF Staged
  <2>3. \E status : Decide(w, status, <<>>, "return")
    BY <1>1 DEF AskBack, Explain
  <2> QED
    BY <1>0, <2>1, <2>2, <2>3, CoversStatus, DecisionCovers
<1>2. CASE Reject(w)
  <2>1. At(w, "validate")
    BY <1>2 DEF Reject
  <2>2. CASE Job(w).kind \in Counted /\ GivesUp(w)
    <3>1. Decide(w, "blocked", <<"validation_failures", "queries_blocked">>, "audit")
      BY <1>2, <2>2 DEF Reject, Counted
    <3> QED
      BY <1>0, <2>1, <3>1, CoversStatus, DecisionCovers
  <2>3. CASE Job(w).kind \in Counted /\ ~GivesUp(w)
    <3>1. Retry(w, "validation_failures")
      BY <1>2, <2>3 DEF Reject, Counted
    <3> QED
      BY <1>0, <2>1, <3>1, RetryCountsNothing
  <2>4. CASE Job(w).kind \notin Counted
    <3>1. \E status : Decide(w, status, <<"validation_failures">>, "return")
      BY <1>2, <2>4 DEF Reject
    <3> QED
      BY <1>0, <2>1, <2>4, <3>1, CoversStatus, DecisionCovers
  <2> QED
    BY <2>2, <2>3, <2>4
<1>3. CASE Execute(w)
  <2>1. At(w, "execute") /\ Decide(w, "success", <<"queries_success">>, "audit")
    BY <1>3 DEF Execute
  <2> QED
    BY <1>0, <2>1, CoversStatus, DecisionCovers
<1>4. CASE ExecuteFails(w)
  <2>1. At(w, "execute")
    BY <1>4 DEF ExecuteFails
  <2>2. CASE GivesUp(w)
    <3>1. Decide(w, "error", <<"execution_failures", "queries_error">>, "audit")
      BY <1>4, <2>2 DEF ExecuteFails
    <3> QED
      BY <1>0, <2>1, <3>1, CoversStatus, DecisionCovers
  <2>3. CASE ~GivesUp(w)
    <3>1. Retry(w, "execution_failures")
      BY <1>4, <2>3 DEF ExecuteFails
    <3> QED
      BY <1>0, <2>1, <3>1, RetryCountsNothing
  <2> QED
    BY <2>2, <2>3
<1> QED
  BY <1>1, <1>2, <1>3, <1>4

(* The decisions that are not written as Decide.                           *)
LEMMA OtherDecisionsCount ==
  ASSUME CountInv, NEW w \in Workers, Refuse(w) \/ Lookup(w) \/ GenerateFails(w)
  PROVE  CountsNoMore(w) /\ frame'[w].seen = <<>> /\ UNCHANGED <<metrics, boot, replies, started>>
<1>0. UNCHANGED <<metrics, boot, replies, started>>
  BY DEF Refuse, Lookup, GenerateFails, memory, observed
<1>1. /\ frame \in [Workers -> Frame] /\ frame[w].pc # "idle" /\ frame[w].seen = <<>>
      /\ frame[w].todo = <<>> /\ Job(w) = frame[w].job /\ Staged(frame[w])
  <2>1. PICK pc \in {"admit", "lookup", "generate"} : At(w, pc)
    BY Zenon DEF Refuse, Lookup, GenerateFails
  <2> QED
    BY <2>1, AtUndecided
<1>2. ASSUME NEW o, NEW keys, NEW s \in {"none", frame[w].sql}, NEW next,
             frame' = [frame EXCEPT ![w] = [frame[w] EXCEPT !.sql = s, !.outcome = o, !.todo = keys,
                                                            !.pc = next]],
             Covers(Job(w).kind, o.status, o.via, keys)
      PROVE  CountsNoMore(w) /\ frame'[w].seen = <<>>
  <2>1. /\ frame'[w].job = frame[w].job /\ frame'[w].outcome = o
        /\ frame'[w].todo = keys /\ frame'[w].seen = <<>>
    BY <1>1, <1>2 DEF Frame
  <2> QED
    BY <1>1, <1>2, <2>1, CoveredCounts
<1>3. CASE Refuse(w)
  <2> DEFINE o == [status |-> "blocked", via |-> "limit", source |-> Job(w)]
             keys == <<"queries_blocked">>
  <2>1. frame' = [frame EXCEPT ![w] = [frame[w] EXCEPT !.sql = frame[w].sql, !.outcome = o,
                                                       !.todo = keys, !.pc = "return"]]
    BY <1>1, <1>3 DEF Refuse, Frame
  <2>2. Covers(Job(w).kind, o.status, o.via, keys)
    BY CoversStatus
  <2> HIDE DEF o, keys
  <2> QED
    BY <1>0, <1>2, <2>1, <2>2
<1>4. CASE Lookup(w)
  <2>1. \/ \E p \in Hits(Job(w), cache) : frame' = [frame EXCEPT
                        ![w].outcome = [status |-> "success", via |-> "cache", source |-> p],
                        ![w].todo = <<"cache_hits">>,
                        ![w].pc = "return"]
        \/ frame' = [frame EXCEPT ![w].todo = <<"cache_misses">>, ![w].pc = "schema"]
        \/ frame' = [frame EXCEPT ![w].pc = "schema"]
    BY <1>4, Zenon DEF Lookup, Hits
  <2>2. ASSUME NEW p, frame' = [frame EXCEPT
                        ![w].outcome = [status |-> "success", via |-> "cache", source |-> p],
                        ![w].todo = <<"cache_hits">>,
                        ![w].pc = "return"]
        PROVE  CountsNoMore(w) /\ frame'[w].seen = <<>>
    <3> DEFINE o == [status |-> "success", via |-> "cache", source |-> p]
               keys == <<"cache_hits">>
    <3>1. frame' = [frame EXCEPT ![w] = [frame[w] EXCEPT !.sql = frame[w].sql, !.outcome = o,
                                                         !.todo = keys, !.pc = "return"]]
      BY <1>1, <2>2 DEF Frame
    <3>2. Covers(Job(w).kind, o.status, o.via, keys)
      BY CoversStatus
    <3> HIDE DEF o, keys
    <3> QED
      BY <1>2, <3>1, <3>2
  <2>3. CASE \/ frame' = [frame EXCEPT ![w].todo = <<"cache_misses">>, ![w].pc = "schema"]
             \/ frame' = [frame EXCEPT ![w].pc = "schema"]
    <3>1. /\ frame'[w].job = frame[w].job /\ frame'[w].outcome = frame[w].outcome
          /\ frame'[w].seen = <<>>
      BY <1>1, <2>3 DEF Frame
    <3> QED
      BY <1>0, <1>1, <3>1, SameOutcome
  <2> QED
    BY <1>0, <2>1, <2>2, <2>3
<1>5. CASE GenerateFails(w)
  <2> DEFINE o == [status |-> IF Job(w).kind = "clarify" THEN "ready" ELSE "error",
                   via |-> "pipeline", source |-> Job(w)]
             keys == IF Job(w).kind = "answer" THEN <<"queries_error">> ELSE <<>>
             next == AfterLLMFailure(Job(w).kind)
  <2>1. frame' = [frame EXCEPT ![w] = [frame[w] EXCEPT !.sql = "none", !.outcome = o,
                                                       !.todo = keys, !.pc = next]]
    BY <1>1, <1>5 DEF GenerateFails
  <2>2. Covers(Job(w).kind, o.status, o.via, keys)
    <3>1. CASE Job(w).kind = "answer"
      <4>1. o.status = "error" /\ o.via = "pipeline" /\ keys = <<"queries_error">>
        BY <3>1
      <4> QED
        BY <4>1, CoversStatus
    <3>2. CASE Job(w).kind # "answer"
      <4>1. At(w, "generate") /\ Job(w).kind # "approved"
        BY <1>1, <1>5 DEF GenerateFails, Staged, At
      <4>2. Job(w).kind \notin Counted
        BY <3>2, <4>1 DEF Counted
      <4> QED
        BY <4>2, CoversStatus
    <3> QED
      BY <3>1, <3>2
  <2> HIDE DEF o, keys, next
  <2> QED
    BY <1>0, <1>2, <2>1, <2>2
<1> QED
  BY <1>3, <1>4, <1>5

LEMMA BalanceRead ==
  ASSUME Streams = {}, BalanceInv, CountInv', NEW w \in Workers, MetricRead(w)
  PROVE  BalanceInv'
<1>1. frame \in [Workers -> Frame] /\ UNCHANGED <<metrics, boot, replies, started>>
  BY DEF BalanceInv, CountInv, AuditInv, TypeInv, TypeOK, MetricRead, memory, observed
<1>2. frame' = [frame EXCEPT ![w].seen = <<metrics[Head(frame[w].todo)]>>]
  BY DEF MetricRead
<1>3. /\ frame'[w].job = frame[w].job /\ frame'[w].outcome = frame[w].outcome
      /\ frame'[w].pc = frame[w].pc /\ frame'[w].todo = frame[w].todo
      /\ frame'[w].seen = <<metrics[Head(frame[w].todo)]>>
  BY <1>1, <1>2 DEF Frame
<1>4. CountsNoMore(w)
  BY <1>3 DEF CountsNoMore, HasCounted, Owes
<1>5. frame'[w].seen[1] = metrics[Head(frame'[w].todo)]
  BY <1>3
<1> QED
  BY <1>1, <1>4, <1>5, BalanceStep

(* The counter gains one, and so do the calls counted under it.            *)
LEMMA BalanceStore ==
  ASSUME Streams = {}, BalanceInv, CountInv', NEW w \in Workers, MetricStore(w)
  PROVE  BalanceInv'
<1> DEFINE f == frame[w]
           g == frame'[w]
           key == Head(f.todo)
<1>1. /\ frame \in [Workers -> Frame] /\ f \in Frame /\ Workers = {w} /\ CountInv
      /\ metrics \in [MetricKeys -> Nat] /\ started \in Nat /\ f.seen # <<>>
      /\ UNCHANGED <<boot, replies, started>>
  BY DEF BalanceInv, CountInv, AuditInv, TypeInv, TypeOK, Workers, MetricStore, observed
<1>2. f.todo # <<>>
  <2>1. FrameOK(f)
    BY <1>1 DEF CountInv, AuditInv, TypeInv, FramesOK
  <2> QED
    BY <1>1, <2>1 DEF FrameOK
<1>3. /\ metrics' = [metrics EXCEPT ![key] = f.seen[1] + 1]
      /\ frame' = [frame EXCEPT ![w].todo = Tail(@), ![w].seen = <<>>]
  BY DEF MetricStore
<1>4. /\ g.job = f.job /\ g.outcome = f.outcome /\ g.pc = f.pc /\ g.todo = Tail(f.todo)
      /\ g.seen = <<>>
  BY <1>1, <1>3 DEF Frame
<1>5. f.todo \in Seq(MetricKeys) /\ key \in MetricKeys /\ metrics'[key] = metrics[key] + 1
  <2>1. f.todo \in Seq(MetricKeys)
    BY <1>1 DEF Frame
  <2>2. key \in MetricKeys
    BY <1>2, <2>1
  <2>3. f.seen[1] = metrics[key]
    BY <1>1 DEF BalanceInv, ReadsAreFresh
  <2> QED
    BY <1>1, <1>3, <2>1, <2>2, <2>3
<1>6. \A k : k # key /\ Owes(f, k) => Owes(g, k)
  <2> SUFFICES ASSUME NEW k, k # key, NEW i \in DOMAIN f.todo, f.todo[i] = k
               PROVE  Owes(g, k)
    BY DEF Owes
  <2>1. key = f.todo[1] /\ i \in 1 .. Len(f.todo)
    BY <1>2, <1>5
  <2>2. i - 1 \in DOMAIN g.todo /\ g.todo[i - 1] = f.todo[i]
    BY <1>2, <1>4, <1>5, <2>1
  <2> QED
    BY <2>2 DEF Owes
<1>7. CountInv => \A k \in Tracked : metrics'[k] <= Cardinality(CountedIds(k)')
  BY DEF CountInv, CountsOK
<1>8. ASSUME NEW k \in Tracked PROVE metrics'[k] = Cardinality(CountedIds(k)')
  <2>1. /\ IsFiniteSet(CountedIds(k)) /\ Cardinality(CountedIds(k)) \in Nat
        /\ metrics[k] = Cardinality(CountedIds(k))
    BY <1>1, CountedFinite DEF BalanceInv
  <2>2. CountedIds(k)' \subseteq CountedIds(k) \cup {f.job.id}
    BY <1>1, <1>4 DEF CountedIds
  <2>3. /\ IsFiniteSet(CountedIds(k) \cup {f.job.id})
        /\ Cardinality(CountedIds(k) \cup {f.job.id}) <= Cardinality(CountedIds(k)) + 1
        /\ Cardinality(CountedIds(k) \cup {f.job.id}) \in Nat
    <3>1. IsFiniteSet(CountedIds(k) \cup {f.job.id})
      BY <2>1, FS_AddElement
    <3>2. \/ Cardinality(CountedIds(k) \cup {f.job.id}) = Cardinality(CountedIds(k))
          \/ Cardinality(CountedIds(k) \cup {f.job.id}) = Cardinality(CountedIds(k)) + 1
      BY <2>1, FS_AddElement
    <3> QED
      BY <2>1, <3>1, <3>2
  <2>4. /\ IsFiniteSet(CountedIds(k)') /\ Cardinality(CountedIds(k)') \in Nat
        /\ Cardinality(CountedIds(k)') <= Cardinality(CountedIds(k) \cup {f.job.id})
    BY <2>2, <2>3, FS_Subset, FS_CardinalityType
  <2>5. metrics'[k] <= Cardinality(CountedIds(k)')
    BY DEF CountInv, CountsOK
  <2>6. CASE k = key
    BY <1>5, <2>1, <2>3, <2>4, <2>5, <2>6
  <2>7. CASE k # key
    <3>1. HasCounted(g, k) => HasCounted(f, k)
      BY <1>4, <1>6, <2>7 DEF HasCounted
    <3>2. CountedIds(k)' \subseteq CountedIds(k)
      BY <1>1, <1>4, <3>1 DEF CountedIds
    <3>3. Cardinality(CountedIds(k)') <= Cardinality(CountedIds(k))
      BY <2>1, <3>2, FS_Subset
    <3>4. metrics'[k] = metrics[k]
      BY <1>1, <1>3, <2>7 DEF Tracked, MetricKeys
    <3> QED
      BY <2>1, <2>4, <2>5, <3>3, <3>4
  <2> QED
    BY <2>6, <2>7
<1>9. RepliesDiffer' /\ ReadsAreFresh'
  BY <1>1, <1>4 DEF BalanceInv, RepliesDiffer, ReadsAreFresh
<1> QED
  BY <1>8, <1>9 DEF BalanceInv

(* A new call has been counted under nothing: it owes the total.           *)
LEMMA BalanceStart ==
  ASSUME Streams = {}, BalanceInv, CountInv', NEW w \in Workers, NEW kind \in Kinds, NEW u \in Users,
         NEW q \in Questions, NEW d \in Databases, Start(w, kind, u, q, d)
  PROVE  BalanceInv'
<1> DEFINE c == [id |-> started + 1, kind |-> kind, user |-> u, question |-> q, db |-> d]
           g == FirstFrame(c)
<1>1. /\ frame \in [Workers -> Frame] /\ started \in Nat /\ started' = started + 1 /\ Workers = {w}
      /\ frame' = [frame EXCEPT ![w] = g] /\ UNCHANGED <<metrics, boot, replies>>
      /\ CallsDiffer
  BY DEF BalanceInv, CountInv, AuditInv, TypeInv, TypeOK, Start, memory, observed, Workers
<1>2. /\ g.job = c /\ c.kind = kind /\ g.outcome = NoOutcome /\ g.todo = FirstMetrics(kind)
      /\ g.seen = <<>>
  BY DEF FirstFrame
<1>3. ASSUME NEW k \in Tracked PROVE ~HasCounted(g, k)
  <2> SUFFICES ASSUME HasCounted(g, k) PROVE FALSE
    OBVIOUS
  <2>1. k = "queries_total" /\ kind \in Counted /\ ~Owes(g, k)
    BY <1>2 DEF HasCounted, CountsAs, NoOutcome
  <2>2. FirstMetrics(kind) = <<"queries_total">>
    BY <2>1 DEF FirstMetrics
  <2>3. Owes(g, k)
    BY <1>2, <2>1, <2>2, OneKey DEF Owes
  <2> QED
    BY <2>1, <2>3
<1> HIDE DEF g, c
<1>4. frame'[w] = g
  BY <1>1
<1>5. ASSUME NEW k \in Tracked PROVE CountedIds(k)' \subseteq CountedIds(k)
  <2> SUFFICES ASSUME NEW i \in CountedIds(k)' PROVE i \in CountedIds(k)
    OBVIOUS
  <2>1. PICK r \in replies : r.call.id = i /\ i > boot /\ CountsAs(r.call.kind, r.status, r.via, k)
    BY <1>1, <1>3, <1>4 DEF CountedIds
  <2>2. i \in 1 .. started
    <3>1. i \in 1 .. (started + 1) /\ i \in 0 .. started
      BY <1>1, <2>1 DEF CountedIds, CallsDiffer
    <3> QED
      BY <1>1, <3>1
  <2> QED
    BY <2>1, <2>2 DEF CountedIds
<1>6. RepliesDiffer' /\ ReadsAreFresh'
  BY <1>1, <1>2, <1>4 DEF BalanceInv, RepliesDiffer, ReadsAreFresh
<1> QED
  BY <1>1, <1>5, <1>6, BalanceKept

(* The reply of a call is counted under what its frame was counted under.  *)
LEMMA BalanceEnd ==
  ASSUME Streams = {}, BalanceInv, CountInv', NEW w \in Workers, Return(w) \/ Raise(w)
  PROVE  BalanceInv'
<1> DEFINE f == frame[w]
           via == IF Return(w) THEN f.outcome.via ELSE "raise"
           r == Reply(w, via)
<1>1. /\ frame \in [Workers -> Frame] /\ CountOK(f) /\ Workers = {w} /\ CallsDiffer
      /\ frame' = [frame EXCEPT ![w] = IdleFrame] /\ f.todo = <<>>
      /\ UNCHANGED <<metrics, boot, started>> /\ replies' = replies \cup {r}
  BY Zenon DEF BalanceInv, CountInv, CountsOK, AuditInv, TypeInv, TypeOK, Return, Raise, memory, At,
     Workers
<1>2. f.pc # "idle" /\ (via = f.outcome.via \/ (via = "raise" /\ f.pc # "return"))
  <2>1. CASE Return(w)
    BY <2>1 DEF Return, At
  <2>2. CASE ~Return(w)
    BY <2>2 DEF Raise, CanRaise
  <2> QED
    BY <2>1, <2>2
<1>3. r.call = f.job /\ r.via = via /\ r.status = f.outcome.status
  BY DEF Reply, Job
<1> HIDE DEF via, r
<1>4. \A k \in Tracked : CountsAs(r.call.kind, r.status, r.via, k) => HasCounted(f, k)
  BY <1>1, <1>2, <1>3 DEF HasCounted, CountsAs, CountOK, Owes
<1>5. frame'[w] = IdleFrame /\ IdleFrame.pc = "idle" /\ IdleFrame.seen = <<>>
  BY <1>1 DEF IdleFrame
<1>6. \A k \in Tracked : CountedIds(k)' \subseteq CountedIds(k)
  BY <1>1, <1>3, <1>4, <1>5 DEF CountedIds, HasCounted
<1>7. ASSUME NEW p \in replies', NEW q \in replies', p.call.id = q.call.id PROVE p = q
  <2>1. \A x \in replies : x.call.id # r.call.id
    BY <1>1, <1>2, <1>3 DEF CallsDiffer
  <2> QED
    BY <1>1, <1>7, <2>1 DEF BalanceInv, RepliesDiffer
<1>8. RepliesDiffer' /\ ReadsAreFresh'
  BY <1>1, <1>5, <1>7 DEF RepliesDiffer, ReadsAreFresh
<1> QED
  BY <1>1, <1>6, <1>8, BalanceKept

(* A new process has counted none of the calls there were.                 *)
LEMMA BalanceCrash ==
  ASSUME BalanceInv, CountInv', Crash
  PROVE  BalanceInv'
<1>1. /\ started \in Nat /\ boot' = started /\ UNCHANGED <<started, replies>>
      /\ frame' = [w \in Workers |-> IdleFrame] /\ metrics' = [k \in MetricKeys |-> 0]
  BY DEF BalanceInv, CountInv, AuditInv, TypeInv, TypeOK, Crash, observed
<1>2. \A w \in Workers : frame'[w] = IdleFrame
  BY <1>1
<1>3. ASSUME NEW k \in Tracked PROVE metrics'[k] = Cardinality(CountedIds(k)')
  <2>1. CountedIds(k)' = {}
    <3>1. \A i \in 1 .. started : ~(i > started)
      BY <1>1
    <3> QED
      BY <1>1, <1>2, <3>1 DEF CountedIds, HasCounted, IdleFrame
  <2> QED
    BY <1>1, <2>1, FS_EmptySet DEF Tracked, MetricKeys
<1>4. RepliesDiffer' /\ ReadsAreFresh'
  BY <1>1, <1>2 DEF BalanceInv, RepliesDiffer, ReadsAreFresh, IdleFrame
<1> QED
  BY <1>3, <1>4 DEF BalanceInv

LEMMA BalanceInit == Init => BalanceInv
<1> SUFFICES ASSUME Init PROVE BalanceInv
  OBVIOUS
<1>1. /\ frame = [w \in Workers |-> IdleFrame] /\ metrics = [k \in MetricKeys |-> 0]
      /\ started = 0 /\ replies = {}
  BY DEF Init
<1>2. ASSUME NEW k \in Tracked PROVE metrics[k] = Cardinality(CountedIds(k))
  <2>1. CountedIds(k) = {}
    BY <1>1 DEF CountedIds
  <2> QED
    BY <1>1, <2>1, FS_EmptySet DEF Tracked, MetricKeys
<1>3. RepliesDiffer /\ ReadsAreFresh
  BY <1>1 DEF RepliesDiffer, ReadsAreFresh, IdleFrame
<1> QED
  BY <1>2, <1>3, CountInit DEF BalanceInv

LEMMA BalanceNext ==
  ASSUME Streams = {}, BalanceInv, [Next]_vars
  PROVE  BalanceInv'
<1>1. CountInv'
  BY CountNext DEF BalanceInv
<1>2. CASE UNCHANGED vars
  <2>1. UNCHANGED <<frame, metrics, boot, replies, started>>
    BY <1>2 DEF vars, memory, observed
  <2>2. \A k : CountedIds(k)' = CountedIds(k)
    BY <2>1 DEF CountedIds, HasCounted
  <2>3. RepliesDiffer' /\ ReadsAreFresh'
    BY <2>1 DEF BalanceInv, RepliesDiffer, ReadsAreFresh
  <2> QED
    BY <1>1, <2>1, <2>2, <2>3, BalanceKept
<1>3. CASE \E w \in Workers, kind \in Kinds, u \in Users, q \in Questions, d \in Databases :
             Start(w, kind, u, q, d)
  BY <1>1, <1>3, BalanceStart
<1>4. CASE Crash
  BY <1>1, <1>4, BalanceCrash
<1>5. ASSUME NEW w \in Workers, Progress(w) PROVE BalanceInv'
  <2>1. CASE MetricRead(w)
    BY <1>1, <2>1, BalanceRead
  <2>2. CASE MetricStore(w)
    BY <1>1, <2>2, BalanceStore
  <2>3. CASE Return(w) \/ Raise(w)
    BY <1>1, <2>3, BalanceEnd
  <2>4. CASE ~(MetricRead(w) \/ MetricStore(w) \/ Return(w) \/ Raise(w))
    <3>1. /\ CountsNoMore(w) /\ frame'[w].seen = <<>>
          /\ UNCHANGED <<metrics, boot, replies, started>>
      <4>1. CountInv
        BY DEF BalanceInv
      <4>2. CASE \/ Unambiguous(w) \/ Admit(w) \/ Generate(w) \/ Accept(w) \/ LoadSchema(w)
                 \/ WriteAudit(w) \/ Remember(w) \/ AppendHistory(w) \/ UpsertCache(w)
        BY <4>1, <4>2, StepsCountNothing
      <4>3. CASE \/ AskBack(w) \/ Reject(w) \/ Explain(w) \/ Execute(w) \/ ExecuteFails(w)
        BY <4>1, <4>3, DecisionsCount
      <4>4. CASE Refuse(w) \/ Lookup(w) \/ GenerateFails(w)
        BY <4>1, <4>4, OtherDecisionsCount
      <4> QED
        BY <1>5, <2>4, <4>2, <4>3, <4>4 DEF Progress
    <3> QED
      BY <1>1, <3>1, BalanceStep
  <2> QED
    BY <2>1, <2>2, <2>3, <2>4
<1> QED
  BY <1>2, <1>3, <1>4, <1>5 DEF Next

(* When no call is under way, the counter is the number of the replies.    *)
LEMMA BalanceReplied ==
  ASSUME BalanceInv, Quiet, NEW k \in Tracked, NEW S,
         S = {r \in replies : r.call.id > boot /\ CountsAs(r.call.kind, r.status, r.via, k)}
  PROVE  metrics[k] = Cardinality(S)
<1>1. IsFiniteSet(S) /\ started \in Nat /\ boot \in 0 .. started /\ CallsDiffer
  BY FS_Subset DEF BalanceInv, CountInv, CountsOK, AuditInv, TypeInv, TypeOK
<1> DEFINE id == [r \in S |-> r.call.id]
           T == {id[r] : r \in S}
<1>2. id \in Surjection(S, T) /\ id \in Injection(S, T)
  <2>1. id \in [S -> T] /\ \A t \in T : \E r \in S : id[r] = t
    OBVIOUS
  <2>2. \A p, q \in S : id[p] = id[q] => p = q
    BY DEF BalanceInv, RepliesDiffer
  <2> HIDE DEF id, T
  <2> QED
    BY <2>1, <2>2 DEF Surjection, Injection, IsInjective
<1>3. IsFiniteSet(T) /\ Cardinality(T) = Cardinality(S)
  BY <1>1, <1>2, FS_Surjection
<1>4. CountedIds(k) = T
  <2>1. \A w \in Workers : ~HasCounted(frame[w], k)
    BY DEF Quiet, HasCounted
  <2>2. ASSUME NEW i \in CountedIds(k) PROVE i \in T
    <3>1. PICK r \in S : r.call.id = i
      BY <2>1 DEF CountedIds
    <3>2. id[r] = i
      BY <3>1
    <3> QED
      BY <3>2
  <2>3. ASSUME NEW i \in T PROVE i \in CountedIds(k)
    <3>1. PICK r \in S : r.call.id = i
      OBVIOUS
    <3>2. i \in 0 .. started /\ i > boot
      BY <3>1 DEF BalanceInv, CountInv, AuditInv, CallsDiffer
    <3>3. i \in 1 .. started
      BY <1>1, <3>2
    <3> QED
      BY <3>1, <3>3 DEF CountedIds
  <2> QED
    BY <2>2, <2>3
<1> QED
  BY <1>3, <1>4 DEF BalanceInv

(* With the event loop alone, the counters of an idle service are what its *)
(* replies say, call by call: nothing is lost and nothing is counted twice *)
(* however a call ends, retried, failed or raised, and across crashes.     *)
THEOREM MetricsAddUp == ASSUME Streams = {} PROVE Spec => []MetricsBalance
<1>1. BalanceInv => MetricsBalance
  <2> SUFFICES ASSUME BalanceInv, Quiet
               PROVE  /\ metrics["queries_total"] = Cardinality(Ended)
                      /\ metrics["queries_success"] = Cardinality(EndedAs("success"))
                      /\ metrics["queries_blocked"] = Cardinality(EndedAs("blocked"))
                      /\ metrics["queries_error"] = Cardinality(EndedAs("error"))
                      /\ metrics["cache_hits"] = Cardinality({r \in Ended : r.via = "cache"})
    BY DEF MetricsBalance
  <2> USE DEF Tracked, CountsAs, Ended, EndedAs
  <2>1. metrics["queries_total"] = Cardinality(Ended)
    BY BalanceReplied
  <2>2. metrics["queries_success"] = Cardinality(EndedAs("success"))
    BY BalanceReplied
  <2>3. metrics["queries_blocked"] = Cardinality(EndedAs("blocked"))
    BY BalanceReplied
  <2>4. metrics["queries_error"] = Cardinality(EndedAs("error"))
    BY BalanceReplied
  <2>5. metrics["cache_hits"] = Cardinality({r \in Ended : r.via = "cache"})
    BY BalanceReplied
  <2> QED
    BY <2>1, <2>2, <2>3, <2>4, <2>5
<1> QED
  BY <1>1, BalanceInit, BalanceNext, PTL DEF Spec

-----------------------------------------------------------------------------
(* The event loop alone: what the service remembers is a window on the     *)
(* audit file, but for the line its only call may still have to remember.  *)

Unnoted == frame[Loop].pc \in {"remember", "history"}

(* log is the part of the audit file that the histories know of, and the   *)
(* rest of it the line of the call under way.                              *)
Noted(log) ==
  /\ log \in Seq(Entry)
  /\ audit = IF Unnoted THEN Append(log, EntryOf(Loop)) ELSE log

Keep(b) == {e \in Entry : /\ e.call.id > b
                          /\ e.status = "success" \/ (e.call.kind = "answer" /\ e.generated)}

Callees(s) == [i \in DOMAIN s |-> s[i].call]

Turns(log, u) == LastN(Filter(Filter(log, Keep(boot)), TurnsOf(u)), ConversationLimit)

Mirrors(log) ==
  /\ history = LastN(Filter(log, Keep(boot)), MaxHistoryEntries)
  /\ \A u \in Users :
       /\ userHistory[u] =
            LastN(Filter(Filter(log, Keep(boot)), EntriesOf(u)), MaxHistoryEntries)
       /\ conversation[u] =
            Callees(Turns(IF frame[Loop].pc = "remember" THEN log ELSE audit, u))

MirrorInv ==
  /\ CountInv
  /\ Unnoted => EntryOf(Loop) \in Keep(boot)
  /\ \E log : Noted(log) /\ Mirrors(log)

Callee == [e \in Entry |-> e.call]

LEMMA CalleesImage ==
  ASSUME NEW s \in Seq(Entry)
  PROVE  Callees(s) = Image(s, Callee)
<1>1. DOMAIN s = 1..Len(s) /\ \A i \in 1..Len(s) : s[i] \in Entry
  BY LenProperties, ElementOfSeq
<1> QED
  BY <1>1 DEF Callees, Image, Callee

LEMMA CalleesAppend ==
  ASSUME NEW s \in Seq(Entry), NEW e \in Entry
  PROVE  /\ Callees(s) \in Seq(Call)
         /\ Callees(Append(s, e)) = Append(Callees(s), e.call)
<1>1. \A x \in Entry : Callee[x] = x.call /\ Callee[x] \in Call
  BY DEF Entry, Callee
<1>2. Image(s, Callee) \in Seq(Call)
  BY <1>1, ImageType
<1>3. Image(Append(s, e), Callee) = Append(Image(s, Callee), Callee[e])
  BY ImageAppend
<1>4. Append(s, e) \in Seq(Entry)
  BY AppendProperties
<1> QED
  BY <1>1, <1>2, <1>3, <1>4, CalleesImage

LEMMA CalleesLastN ==
  ASSUME NEW s \in Seq(Entry), NEW n \in Nat
  PROVE  Callees(LastN(s, n)) = LastN(Callees(s), n)
<1>1. LastN(s, n) \in Seq(Entry)
  BY LastNType
<1>2. Image(LastN(s, n), Callee) = LastN(Image(s, Callee), n)
  BY ImageLastN
<1> QED
  BY <1>1, <1>2, CalleesImage

(* A window while the list grows by one value, that it shows or not.       *)
LEMMA WindowSlides ==
  ASSUME NEW s \in Seq(Entry), NEW e \in Entry, NEW T, NEW n \in Nat
  PROVE  /\ Filter(s, T) \in Seq(Entry) /\ Filter(Append(s, e), T) \in Seq(Entry)
         /\ e \in T => LastN(Append(LastN(Filter(s, T), n), e), n) = LastN(Filter(Append(s, e), T), n)
         /\ e \notin T => Filter(Append(s, e), T) = Filter(s, T)
<1>1. Append(s, e) \in Seq(Entry)
  BY AppendProperties
<1>2. Filter(s, T) \in Seq(Entry) /\ Filter(Append(s, e), T) \in Seq(Entry)
  BY <1>1, FilterPicks
<1>3. Filter(Append(s, e), T) = IF e \in T THEN Append(Filter(s, T), e) ELSE Filter(s, T)
  BY FilterAppend
<1>4. LastN(Append(LastN(Filter(s, T), n), e), n) = LastN(Append(Filter(s, T), e), n)
  BY <1>2, LastNAppend
<1> QED
  BY <1>2, <1>3, <1>4

LEMMA TurnsSlide ==
  ASSUME SizesAssumption, NEW s \in Seq(Entry), NEW e \in Entry, e \in Keep(boot), NEW u \in Users
  PROVE  Callees(Turns(Append(s, e), u)) =
           IF e \in TurnsOf(u) THEN LastN(Append(Callees(Turns(s, u)), e.call), ConversationLimit)
           ELSE Callees(Turns(s, u))
<1> DEFINE K == Keep(boot)
           T == TurnsOf(u)
           n == ConversationLimit
           old == Filter(Filter(s, K), T)
           new == Filter(Filter(Append(s, e), K), T)
<1>1. n \in Nat
  BY DEF SizesAssumption
<1>2. Filter(s, K) \in Seq(Entry) /\ Filter(Append(s, e), K) = Append(Filter(s, K), e)
  BY FilterPicks, FilterAppend
<1>3. /\ old \in Seq(Entry) /\ new \in Seq(Entry)
      /\ e \in T => LastN(Append(LastN(old, n), e), n) = LastN(new, n)
      /\ e \notin T => new = old
  BY <1>1, <1>2, WindowSlides
<1>4. Turns(s, u) = LastN(old, n) /\ Turns(Append(s, e), u) = LastN(new, n)
  BY DEF Turns
<1> HIDE DEF K, T, n, old, new
<1>5. LastN(old, n) \in Seq(Entry)
  BY <1>1, <1>3, LastNType
<1>6. CASE e \in T
  <2>1. /\ Append(LastN(old, n), e) \in Seq(Entry)
        /\ Callees(Append(LastN(old, n), e)) = Append(Callees(LastN(old, n)), e.call)
    BY <1>5, CalleesAppend, AppendProperties
  <2>2. Callees(LastN(new, n)) = LastN(Append(Callees(LastN(old, n)), e.call), n)
    BY <1>1, <1>3, <1>6, <2>1, CalleesLastN
  <2> QED
    BY <1>4, <1>6, <2>2 DEF T, n
<1>7. CASE e \notin T
  BY <1>3, <1>4, <1>7 DEF T
<1> QED
  BY <1>6, <1>7

(* A step that remembers nothing and writes nothing. *)
LEMMA MirrorKept ==
  ASSUME MirrorInv, CountInv', UNCHANGED <<audit, boot, history, userHistory, conversation>>,
         \/ ~Unnoted /\ ~Unnoted'
         \/ frame'[Loop].pc = frame[Loop].pc /\ EntryOf(Loop)' = EntryOf(Loop)
  PROVE  MirrorInv'
<1>1. PICK log : Noted(log) /\ Mirrors(log)
  BY DEF MirrorInv
<1>2. Noted(log)'
  BY <1>1 DEF Noted, Unnoted
<1>3. (frame'[Loop].pc = "remember") <=> (frame[Loop].pc = "remember")
  BY DEF Unnoted
<1>4. \A l, u : Turns(l, u)' = Turns(l, u)
  BY DEF Turns
<1>5. Mirrors(log)'
  BY <1>1, <1>3, <1>4 DEF Mirrors
<1>6. Unnoted' => EntryOf(Loop)' \in Keep(boot')
  BY DEF MirrorInv, Unnoted
<1> QED
  BY <1>2, <1>5, <1>6 DEF MirrorInv

LEMMA MirrorWriteAudit ==
  ASSUME MirrorInv, CountInv', WriteAudit(Loop)
  PROVE  MirrorInv'
<1> DEFINE e == EntryOf(Loop)
<1>0. Loop \in Workers /\ TypeInv
  BY DEF Workers, MirrorInv, CountInv, AuditInv
<1>1. /\ frame \in [Workers -> Frame] /\ frame[Loop].pc = "audit" /\ audit \in Seq(Entry)
      /\ frame[Loop].job \in Call /\ frame[Loop].job.id > boot
      /\ frame[Loop].outcome.status \in {"success", "blocked", "error"}
  BY <1>0 DEF TypeInv, TypeOK, FramesOK, FrameOK, MirrorInv, CountInv, CountsOK, CountOK, WriteAudit, At
<1>2. /\ audit' = Append(audit, e)
      /\ frame' = [frame EXCEPT ![Loop].pc = AfterAudit(Loop)]
      /\ UNCHANGED <<boot, history, userHistory, conversation>>
  BY DEF WriteAudit, memory
<1>3. frame'[Loop].pc = AfterAudit(Loop) /\ EntryOf(Loop)' = e
  BY <1>0, <1>1, <1>2 DEF Frame, EntryOf, Job
<1>4. /\ e \in Entry /\ e.call = frame[Loop].job /\ e.status = frame[Loop].outcome.status
      /\ e.generated <=> frame[Loop].sql # "none"
  BY <1>1 DEF EntryOf, Entry, Job
<1> HIDE DEF e
<1>5. /\ Noted(audit) /\ Mirrors(audit)
  BY <1>1 DEF MirrorInv, Noted, Mirrors, Unnoted
<1>6. \A l, u : Turns(l, u)' = Turns(l, u)
  BY <1>2 DEF Turns
<1>7. CASE AfterAudit(Loop) = "remember"
  <2>1. e \in Keep(boot)
    BY <1>1, <1>4, <1>7 DEF AfterAudit, Keep
  <2>2. PICK log : log = audit
    OBVIOUS
  <2>3. Unnoted' /\ frame'[Loop].pc = "remember"
    BY <1>3, <1>7 DEF Unnoted
  <2>4. Noted(log)'
    BY <1>1, <1>2, <1>3, <2>2, <2>3 DEF Noted
  <2>5. Mirrors(log)'
    BY <1>2, <1>5, <1>6, <2>2, <2>3 DEF Mirrors
  <2> QED
    BY <1>2, <1>3, <2>1, <2>4, <2>5 DEF MirrorInv
<1>8. CASE AfterAudit(Loop) = "history"
  <2>1. e \in Keep(boot) /\ \A u \in Users : e \notin TurnsOf(u)
    BY <1>1, <1>4, <1>8 DEF AfterAudit, Keep, TurnsOf, EntriesOf, Job
  <2>2. \A u \in Users : Callees(Turns(audit', u)) = Callees(Turns(audit, u))
    BY <1>1, <1>2, <1>4, <2>1, SizesAssumption, TurnsSlide
  <2>3. PICK log : log = audit
    OBVIOUS
  <2>4. Unnoted' /\ frame'[Loop].pc # "remember"
    BY <1>3, <1>8 DEF Unnoted
  <2>5. Noted(log)'
    BY <1>1, <1>2, <1>3, <2>3, <2>4 DEF Noted
  <2>6. Mirrors(log)'
    BY <1>1, <1>2, <1>5, <1>6, <2>2, <2>3, <2>4 DEF Mirrors
  <2> QED
    BY <1>2, <1>3, <2>1, <2>5, <2>6 DEF MirrorInv
<1>9. CASE AfterAudit(Loop) = "return"
  <2>1. e \notin Keep(boot)
    BY <1>4, <1>9 DEF AfterAudit, Keep, Job
  <2>2. Filter(audit', Keep(boot)) = Filter(audit, Keep(boot)) /\ audit' \in Seq(Entry)
    BY <1>1, <1>2, <1>4, <2>1, FilterAppend, AppendProperties
  <2>3. \A u : Turns(audit', u) = Turns(audit, u)
    BY <2>2 DEF Turns
  <2>4. \E log : Noted(log)' /\ Mirrors(log)'
    <3>1. audit' \in Seq(Entry) /\ ~Unnoted' /\ frame'[Loop].pc # "remember"
      BY <1>3, <1>9, <2>2 DEF Unnoted
    <3>2. PICK log : log = audit'
      OBVIOUS
    <3>3. Noted(log)'
      BY <3>1, <3>2 DEF Noted
    <3>4. Mirrors(log)'
      BY <1>1, <1>2, <1>5, <1>6, <2>2, <2>3, <3>1, <3>2 DEF Mirrors
    <3> QED
      BY <3>3, <3>4
  <2> QED
    BY <1>3, <1>9, <2>4 DEF MirrorInv, Unnoted
<1> QED
  BY <1>7, <1>8, <1>9 DEF AfterAudit

(* At "remember" and at "history": the line that was written last.         *)
LEMMA MirrorUnnoted ==
  ASSUME MirrorInv, Unnoted
  PROVE  \E log \in Seq(Entry) :
           /\ audit = Append(log, EntryOf(Loop)) /\ Mirrors(log)
           /\ EntryOf(Loop) \in Entry /\ EntryOf(Loop) \in Keep(boot)
           /\ EntryOf(Loop).call = Job(Loop) /\ Job(Loop) \in Call /\ Job(Loop).user \in Users
           /\ frame \in [Workers -> Frame] /\ Loop \in Workers
           /\ FrameOK(frame[Loop])
           /\ conversation \in [Users -> Seq(Call)] /\ userHistory \in [Users -> Seq(Entry)]
<1>1. PICK log : Noted(log) /\ Mirrors(log)
  BY DEF MirrorInv
<1>2. EntryOf(Loop) \in Keep(boot) /\ EntryOf(Loop) \in Entry
  BY DEF MirrorInv, Keep
<1>3. EntryOf(Loop).call = Job(Loop) /\ EntryOf(Loop).call \in Call
  BY <1>2 DEF EntryOf, Entry
<1>4. Job(Loop) \in Call /\ Job(Loop).user \in Users
  BY <1>3 DEF Call
<1>5. Loop \in Workers /\ TypeInv
  BY DEF Workers, MirrorInv, CountInv, AuditInv
<1>6. /\ frame \in [Workers -> Frame] /\ FrameOK(frame[Loop])
      /\ conversation \in [Users -> Seq(Call)] /\ userHistory \in [Users -> Seq(Entry)]
  BY <1>5 DEF TypeInv, TypeOK, FramesOK
<1> QED
  BY <1>1, <1>2, <1>3, <1>4, <1>5, <1>6 DEF Noted

LEMMA MirrorRemember ==
  ASSUME MirrorInv, CountInv', Remember(Loop)
  PROVE  MirrorInv'
<1> DEFINE e == EntryOf(Loop)
<1>1. frame[Loop].pc = "remember" /\ Unnoted
  BY DEF Remember, At, Unnoted
<1>2. PICK log \in Seq(Entry) :
        /\ audit = Append(log, e) /\ Mirrors(log) /\ e \in Entry /\ e \in Keep(boot)
        /\ e.call = Job(Loop) /\ Job(Loop) \in Call /\ Job(Loop).user \in Users
        /\ frame \in [Workers -> Frame] /\ Loop \in Workers /\ FrameOK(frame[Loop])
        /\ conversation \in [Users -> Seq(Call)]
  BY <1>1, MirrorUnnoted
<1>3. /\ conversation' = [conversation EXCEPT
           ![Job(Loop).user] = LastN(Append(@, Job(Loop)), ConversationLimit)]
      /\ frame' = [frame EXCEPT ![Loop].pc = "history"]
      /\ UNCHANGED <<audit, boot, history, userHistory>>
  BY DEF Remember
<1>4. frame'[Loop].pc = "history" /\ EntryOf(Loop)' = e
  BY <1>2, <1>3 DEF Frame, EntryOf, Job
<1>5. \A u \in Users : e \in TurnsOf(u) <=> u = Job(Loop).user
  <2>1. e.status = "success" /\ e.call.kind = "answer"
    BY <1>1, <1>2 DEF EntryOf, FrameOK, Job
  <2> QED
    BY <1>2, <2>1 DEF TurnsOf, EntriesOf
<1> HIDE DEF e
<1>6. Unnoted' /\ frame'[Loop].pc # "remember"
  BY <1>4 DEF Unnoted
<1>7. Noted(log)'
  BY <1>2, <1>3, <1>4, <1>6 DEF Noted
<1>8. ASSUME NEW u \in Users PROVE conversation'[u] = Callees(Turns(audit, u))
  <2>1. conversation[u] = Callees(Turns(log, u))
    BY <1>1, <1>2 DEF Mirrors
  <2>2. Callees(Turns(audit, u)) =
          IF e \in TurnsOf(u) THEN LastN(Append(Callees(Turns(log, u)), e.call), ConversationLimit)
          ELSE Callees(Turns(log, u))
    BY <1>2, SizesAssumption, TurnsSlide
  <2> QED
    BY <1>2, <1>3, <1>5, <2>1, <2>2
<1>9. \A l, u : Turns(l, u)' = Turns(l, u)
  BY <1>3 DEF Turns
<1>10. Mirrors(log)'
  BY <1>2, <1>3, <1>6, <1>8, <1>9 DEF Mirrors
<1> QED
  BY <1>2, <1>3, <1>4, <1>7, <1>10 DEF MirrorInv

LEMMA MirrorHistory ==
  ASSUME MirrorInv, CountInv', AppendHistory(Loop)
  PROVE  MirrorInv'
<1> DEFINE e == EntryOf(Loop)
           K == Keep(boot)
           n == MaxHistoryEntries
<1>1. frame[Loop].pc = "history" /\ Unnoted
  BY DEF AppendHistory, At, Unnoted
<1>2. PICK log \in Seq(Entry) :
        /\ audit = Append(log, e) /\ Mirrors(log) /\ e \in Entry /\ e \in K
        /\ e.call = Job(Loop) /\ Job(Loop) \in Call /\ Job(Loop).user \in Users
        /\ frame \in [Workers -> Frame] /\ Loop \in Workers
        /\ userHistory \in [Users -> Seq(Entry)]
  BY <1>1, MirrorUnnoted
<1>3. /\ history' = LastN(Append(history, e), n)
      /\ userHistory' = [userHistory EXCEPT ![Job(Loop).user] = LastN(Append(@, e), n)]
      /\ UNCHANGED <<audit, boot, conversation>>
  BY DEF AppendHistory
<1>4. PICK next \in {"cache", "return"} : frame' = [frame EXCEPT ![Loop].pc = next]
  BY DEF AppendHistory
<1>5. ~Unnoted' /\ frame'[Loop].pc # "remember"
  BY <1>2, <1>4 DEF Unnoted, Frame
<1>6. \A u \in Users : e \in EntriesOf(u) <=> u = Job(Loop).user
  BY <1>2 DEF EntriesOf
<1>7. n \in Nat
  BY SizesAssumption
<1>8. /\ history = LastN(Filter(log, K), n)
      /\ \A u \in Users : userHistory[u] = LastN(Filter(Filter(log, K), EntriesOf(u)), n)
      /\ \A u \in Users : conversation[u] = Callees(Turns(audit, u))
  BY <1>1, <1>2 DEF Mirrors
<1> HIDE DEF e, K, n
<1>9. Filter(log, K) \in Seq(Entry) /\ Filter(audit, K) = Append(Filter(log, K), e)
  BY <1>2, FilterPicks, FilterAppend
<1>10. history' = LastN(Filter(audit, K), n)
  BY <1>2, <1>3, <1>7, <1>8, WindowSlides
<1>11. ASSUME NEW u \in Users
       PROVE  userHistory'[u] = LastN(Filter(Filter(audit, K), EntriesOf(u)), n)
  <2>1. /\ e \in EntriesOf(u) =>
             LastN(Append(userHistory[u], e), n) = LastN(Filter(Filter(audit, K), EntriesOf(u)), n)
        /\ e \notin EntriesOf(u) =>
             Filter(Filter(audit, K), EntriesOf(u)) = Filter(Filter(log, K), EntriesOf(u))
    BY <1>2, <1>7, <1>8, <1>9, WindowSlides
  <2> QED
    BY <1>2, <1>3, <1>6, <1>8, <2>1
<1>12. PICK all : all = audit
  OBVIOUS
<1>13. Noted(all)'
  BY <1>2, <1>3, <1>5, <1>12, AppendProperties DEF Noted
<1>14. \A l, u : Turns(l, u)' = Turns(l, u)
  BY <1>3 DEF Turns
<1>15. Mirrors(all)'
  BY <1>3, <1>5, <1>8, <1>10, <1>11, <1>12, <1>14 DEF Mirrors, K, n
<1> QED
  BY <1>5, <1>13, <1>15 DEF MirrorInv

(* After a crash no line of the file is of this process.                   *)
Forgotten ==
  /\ CountInv /\ ~Unnoted /\ boot = started /\ history = <<>>
  /\ userHistory = [u \in Users |-> <<>>] /\ conversation = [u \in Users |-> <<>>]

LEMMA MirrorEmpty == Forgotten => MirrorInv
<1> SUFFICES ASSUME Forgotten PROVE MirrorInv
  OBVIOUS
<1> DEFINE K == Keep(boot)
<1>1. audit \in Seq(Entry) /\ boot \in Nat /\ \A i \in DOMAIN audit : audit[i].call.id \in 0 .. boot
  BY DEF Forgotten, CountInv, AuditInv, TypeInv, TypeOK, CallsDiffer
<1>2. Filter(audit, K) = <<>>
  <2>1. \A i \in 1..Len(audit) : audit[i] \notin K
    BY <1>1 DEF Keep
  <2>2. {Filter(audit, K)[i] : i \in 1..Len(Filter(audit, K))} = {}
    <3> HIDE DEF K
    <3>1. {Filter(audit, K)[i] : i \in 1..Len(Filter(audit, K))} =
            {audit[i] : i \in 1..Len(audit)} \cap K
      BY <1>1, FilterMembers
    <3>2. {audit[i] : i \in 1..Len(audit)} \cap K = {}
      BY <2>1
    <3> QED
      BY <3>1, <3>2
  <2>3. Filter(audit, K) \in Seq(Entry)
    BY <1>1, FilterPicks
  <2>4. Len(Filter(audit, K)) = 0
    <3>1. Len(Filter(audit, K)) \in Nat
      BY <2>3, LenProperties
    <3>2. 1 \notin 1..Len(Filter(audit, K))
      BY <2>2
    <3> QED
      BY <3>1, <3>2
  <2> QED
    BY <2>3, <2>4, EmptySeq
<1>3. \A T : Filter(<<>>, T) = <<>>
  BY FilterEmpty
<1>4. \A m \in Nat : LastN(<<>>, m) = <<>>
  BY DEF LastN
<1>5. Callees(<<>>) = <<>>
  BY DEF Callees
<1>6. \A u : Turns(audit, u) = <<>>
  BY <1>2, <1>3, <1>4, SizesAssumption DEF Turns
<1>7. Mirrors(audit)
  BY <1>2, <1>3, <1>4, <1>5, <1>6, SizesAssumption DEF Forgotten, Mirrors, Unnoted
<1> QED
  BY <1>1, <1>7 DEF Forgotten, MirrorInv, Noted

LEMMA MirrorInit == Init => MirrorInv
<1> SUFFICES ASSUME Init PROVE MirrorInv
  OBVIOUS
<1>1. frame[Loop].pc = "idle"
  BY DEF Init, Workers, IdleFrame
<1>2. Forgotten
  BY <1>1, CountInit DEF Init, Forgotten, Unnoted
<1> QED
  BY <1>2, MirrorEmpty

LEMMA MirrorCrash ==
  ASSUME CountInv', Crash
  PROVE  MirrorInv'
<1>1. /\ frame' = [w \in Workers |-> IdleFrame] /\ boot' = started' /\ history' = <<>>
      /\ userHistory' = [u \in Users |-> <<>>] /\ conversation' = [u \in Users |-> <<>>]
  BY DEF Crash
<1>2. frame'[Loop].pc = "idle"
  BY <1>1 DEF Workers, IdleFrame
<1>3. Forgotten'
  BY <1>1, <1>2 DEF Forgotten, Unnoted
<1> QED
  BY <1>3, MirrorEmpty, PTL

LEMMA MirrorQuiet ==
  ASSUME MirrorInv, CountInv',
         \/ UNCHANGED vars
         \/ \E kind \in Kinds, u \in Users, q \in Questions, d \in Databases :
              Start(Loop, kind, u, q, d)
         \/ /\ Progress(Loop)
            /\ ~(WriteAudit(Loop) \/ Remember(Loop) \/ AppendHistory(Loop))
  PROVE  MirrorInv'
<1>0. Loop \in Workers /\ frame \in [Workers -> Frame] /\ frame[Loop] \in Frame
  BY DEF Workers, MirrorInv, CountInv, AuditInv, TypeInv, TypeOK
<1>1. CASE UNCHANGED vars
  BY <1>1, MirrorKept DEF vars, memory, EntryOf, Job
<1>2. ASSUME NEW kind \in Kinds, NEW u \in Users, NEW q \in Questions, NEW d \in Databases,
             Start(Loop, kind, u, q, d)
      PROVE  MirrorInv'
  <2>1. /\ frame[Loop].pc = "idle" /\ frame'[Loop].pc \in {"admit", "schema", "ambiguity"}
        /\ UNCHANGED <<audit, boot, history, userHistory, conversation>>
    BY <1>0, <1>2 DEF Start, At, FirstFrame, FirstPC, memory
  <2> QED
    BY <2>1, MirrorKept DEF Unnoted
<1>3. CASE MetricRead(Loop) \/ MetricStore(Loop)
  <2>1. UNCHANGED <<audit, boot, history, userHistory, conversation>>
    BY <1>3 DEF MetricRead, MetricStore, memory
  <2>2. /\ frame'[Loop].pc = frame[Loop].pc /\ frame'[Loop].job = frame[Loop].job
        /\ frame'[Loop].outcome = frame[Loop].outcome /\ frame'[Loop].sql = frame[Loop].sql
    <3>1. CASE MetricRead(Loop)
      BY <1>0, <3>1 DEF MetricRead, Frame
    <3>2. CASE MetricStore(Loop)
      <4>1. PICK keys : frame' = [frame EXCEPT ![Loop].todo = keys, ![Loop].seen = <<>>]
        BY <3>2 DEF MetricStore
      <4> QED
        BY <1>0, <4>1 DEF Frame
    <3> QED
      BY <1>3, <3>1, <3>2
  <2>3. EntryOf(Loop)' = EntryOf(Loop)
    BY <2>2 DEF EntryOf, Job
  <2> QED
    BY <2>1, <2>2, <2>3, MirrorKept
<1>4. CASE Return(Loop) \/ Raise(Loop)
  <2>1. /\ frame[Loop].pc \notin {"remember", "history"} /\ frame'[Loop].pc = "idle"
        /\ UNCHANGED <<audit, boot, history, userHistory, conversation>>
    BY <1>0, <1>4 DEF Return, Raise, CanRaise, At, IdleFrame, memory
  <2> QED
    BY <2>1, MirrorKept DEF Unnoted
<1>5. CASE \/ Unambiguous(Loop) \/ Admit(Loop) \/ Refuse(Loop) \/ Generate(Loop)
           \/ GenerateFails(Loop) \/ Accept(Loop) \/ UpsertCache(Loop)
  <2>1. /\ frame[Loop].pc \notin {"remember", "history"}
        /\ UNCHANGED <<audit, boot, history, userHistory, conversation>>
    BY <1>5 DEF Unambiguous, Admit, Refuse, Generate, GenerateFails, Accept, UpsertCache, At, memory
  <2>2. frame'[Loop].pc \notin {"remember", "history"}
    BY <1>0, <1>5 DEF Unambiguous, Admit, Refuse, Generate, GenerateFails, AfterLLMFailure,
       Accept, UpsertCache, Frame
  <2> QED
    BY <2>1, <2>2, MirrorKept DEF Unnoted
<1>6. CASE Lookup(Loop) \/ LoadSchema(Loop)
  <2>1. /\ frame[Loop].pc \notin {"remember", "history"}
        /\ UNCHANGED <<audit, boot, history, userHistory, conversation>>
    BY <1>6 DEF Lookup, LoadSchema, At, memory
  <2>2. frame'[Loop].pc \notin {"remember", "history"}
    <3>1. CASE Lookup(Loop)
      <4>1. \/ \E p : frame' = [frame EXCEPT
                 ![Loop].outcome = [status |-> "success", via |-> "cache", source |-> p],
                 ![Loop].todo = <<"cache_hits">>,
                 ![Loop].pc = "return"]
            \/ frame' = [frame EXCEPT ![Loop].todo = <<"cache_misses">>, ![Loop].pc = "schema"]
            \/ frame' = [frame EXCEPT ![Loop].pc = "schema"]
        BY <3>1 DEF Lookup
      <4>2. CASE \E p : frame' = [frame EXCEPT
                   ![Loop].outcome = [status |-> "success", via |-> "cache", source |-> p],
                   ![Loop].todo = <<"cache_hits">>,
                   ![Loop].pc = "return"]
        <5>1. PICK o, keys : frame' = [frame EXCEPT
                ![Loop].outcome = o, ![Loop].todo = keys, ![Loop].pc = "return"]
          BY <4>2
        <5> QED
          BY <1>0, <5>1 DEF Frame
      <4>3. CASE frame' = [frame EXCEPT ![Loop].todo = <<"cache_misses">>, ![Loop].pc = "schema"]
        BY <1>0, <4>3 DEF Frame
      <4>4. CASE frame' = [frame EXCEPT ![Loop].pc = "schema"]
        BY <1>0, <4>4 DEF Frame
      <4> QED
        BY <4>1, <4>2, <4>3, <4>4
    <3>2. CASE LoadSchema(Loop)
      <4>1. \/ \E verdict : frame' = [frame EXCEPT ![Loop].sql = verdict, ![Loop].pc = "validate"]
            \/ \E context : frame' = [frame EXCEPT ![Loop].prompt = context, ![Loop].pc = "generate"]
        BY <3>2 DEF LoadSchema
      <4> QED
        BY ZenonT(30), <1>0, <4>1 DEF Frame
    <3> QED
      BY <1>6, <3>1, <3>2
  <2> QED
    BY <2>1, <2>2, MirrorKept DEF Unnoted
<1>7. CASE AskBack(Loop) \/ Reject(Loop) \/ Explain(Loop) \/ Execute(Loop) \/ ExecuteFails(Loop)
  <2>1. /\ frame[Loop].pc \notin {"remember", "history"}
        /\ UNCHANGED <<audit, boot, history, userHistory, conversation>>
    BY <1>7 DEF AskBack, Reject, Explain, Execute, ExecuteFails, At, memory
  <2>2. ASSUME NEW status, NEW keys, NEW next \in {"audit", "return"},
               Decide(Loop, status, keys, next)
        PROVE  frame'[Loop].pc \notin {"remember", "history"}
    BY <1>0, <2>2 DEF Decide, Frame
  <2>3. ASSUME NEW key, Retry(Loop, key)
        PROVE  frame'[Loop].pc \notin {"remember", "history"}
    BY <1>0, <2>3 DEF Retry, Frame
  <2>4. frame'[Loop].pc \notin {"remember", "history"}
    BY <1>7, <2>2, <2>3 DEF AskBack, Reject, Explain, Execute, ExecuteFails
  <2> QED
    BY <2>1, <2>4, MirrorKept DEF Unnoted
<1> QED
  BY <1>1, <1>2, <1>3, <1>4, <1>5, <1>6, <1>7 DEF Progress

LEMMA MirrorNext ==
  ASSUME Streams = {}, MirrorInv, [Next]_vars
  PROVE  MirrorInv'
<1>1. CountInv'
  BY CountNext DEF MirrorInv
<1>2. Workers = {Loop}
  BY DEF Workers
<1>3. CASE WriteAudit(Loop)
  BY <1>1, <1>3, MirrorWriteAudit
<1>4. CASE Remember(Loop)
  BY <1>1, <1>4, MirrorRemember
<1>5. CASE AppendHistory(Loop)
  BY <1>1, <1>5, MirrorHistory
<1>6. CASE Crash
  BY <1>1, <1>6, MirrorCrash
<1>7. CASE ~(WriteAudit(Loop) \/ Remember(Loop) \/ AppendHistory(Loop) \/ Crash)
  <2>1. \/ UNCHANGED vars
        \/ \E kind \in Kinds, u \in Users, q \in Questions, d \in Databases :
             Start(Loop, kind, u, q, d)
        \/ Progress(Loop)
    BY <1>2, <1>7 DEF Next
  <2> QED
    BY <1>1, <1>7, <2>1, MirrorQuiet
<1> QED
  BY <1>3, <1>4, <1>5, <1>6, <1>7

(* What an idle service without threads remembers is a window on the audit *)
(* file: its histories are the youngest lines of this process that carry   *)
(* SQL, and a conversation its user's youngest successful answers, however *)
(* the calls before were answered, refused, retried or cut short.          *)
THEOREM MemoryMirrors == ASSUME Streams = {} PROVE Spec => []MemoryMirrorsAudit
<1>1. MirrorInv => MemoryMirrorsAudit
  <2> SUFFICES ASSUME MirrorInv, Quiet PROVE MemoryMirrorsAudit
    BY DEF MemoryMirrorsAudit
  <2>1. frame[Loop].pc = "idle"
    BY DEF Quiet, Workers
  <2>2. PICK log : Noted(log) /\ Mirrors(log)
    BY DEF MirrorInv
  <2>3. log = audit
    BY <2>1, <2>2 DEF Noted, Unnoted
  <2>4. Remembered = Filter(audit, Keep(boot))
    BY DEF Remembered, Keep
  <2>5. history = LastN(Remembered, MaxHistoryEntries)
    BY <2>2, <2>3, <2>4 DEF Mirrors
  <2>6. ASSUME NEW u \in Users
        PROVE  /\ userHistory[u] = LastN(Filter(Remembered, EntriesOf(u)), MaxHistoryEntries)
               /\ conversation[u] =
                    Callees(LastN(Filter(Remembered, TurnsOf(u)), ConversationLimit))
    BY <2>1, <2>2, <2>3, <2>4 DEF Mirrors, Turns
  <2> QED
    BY <2>5, <2>6 DEF MemoryMirrorsAudit, Callees
<1> QED
  BY <1>1, MirrorInit, MirrorNext, PTL DEF Spec
=============================================================================
