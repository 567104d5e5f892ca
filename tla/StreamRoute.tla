----------------------------- MODULE StreamRoute ----------------------------
(***************************************************************************)
(* POST /query/stream (query_stream_route of src/src/api/routes.py): a     *)
(* thread runs answer() and hands each progress event, the outcome and a   *)
(* last "done" to the event loop with call_soon_threadsafe; the loop puts  *)
(* them on a queue, and a generator sends what it finds there.             *)
(*                                                                         *)
(* The loop runs its callbacks one at a time, in the order in which they   *)
(* were handed over.  A callback is the put of an event, or the            *)
(* continuation of the generator of a stream.  The handlers that serve a   *)
(* whole query between two callbacks take time, and nothing else.          *)
(***************************************************************************)
EXTENDS Slices, FiniteSets

CONSTANTS
  Streams,
  MaxRetries,   \* max_retries
  MaxBacklog    \* bound: threads pause while the loop is so far behind

BoundsAssumption == MaxRetries \in Nat /\ MaxBacklog \in Nat \ {0}

VARIABLES
  phase,    \* per thread: "new", "answer", "finally" or "ended"
  stage,    \* per thread: the stage answer() emitted last
  attempt,  \* per thread: attempt
  odd,      \* per thread: a row of the outcome is no JSON (bytes, Decimal, date)
  posted,   \* history variable: the events a thread handed over
  ready,    \* the callbacks of the loop
  queue,    \* per stream: events
  gen,      \* per stream: what the generator is doing
  sent      \* per stream: the events the client received

thread == <<phase, stage, attempt, odd>>
loop == <<queue, gen, sent>>
vars == <<thread, posted, ready, loop>>

Final == {"done", "blocked", "error"}
Stages == {"none", "generating", "validating", "executing", "formatting"} \cup Final
Events == ({"progress"} \X Stages) \cup ({"result"} \X {"success", "blocked", "error"})
            \cup {<<"error">>, <<"done">>}
Callbacks == ({"put"} \X Streams \X Events) \cup ({"resume"} \X Streams)

Init ==
  /\ phase = [s \in Streams |-> "new"]
  /\ stage = [s \in Streams |-> "none"]
  /\ attempt = [s \in Streams |-> 0]
  /\ odd \in [Streams -> BOOLEAN]
  /\ posted = [s \in Streams |-> <<>>]
  /\ ready = <<>>
  /\ queue = [s \in Streams |-> <<>>]
  /\ gen = [s \in Streams |-> "none"]
  /\ sent = [s \in Streams |-> <<>>]

-----------------------------------------------------------------------------
(* The thread. *)

(* Mutant of Post: "done" overtakes what the loop has still to put, as     *)
(* events.put_nowait called in the thread would.                           *)
PutFromThread(s, e) ==
  /\ Len(ready) < MaxBacklog
  /\ posted' = [posted EXCEPT ![s] = Append(@, e)]
  /\ ready' = IF e = <<"done">> THEN <<<<"put", s, e>>>> \o ready
              ELSE Append(ready, <<"put", s, e>>)

(* loop.call_soon_threadsafe(events.put_nowait, e) *)
Post(s, e) ==
  /\ Len(ready) < MaxBacklog
  /\ posted' = [posted EXCEPT ![s] = Append(@, e)]
  /\ ready' = Append(ready, <<"put", s, e>>)

(* The handler starts the thread and returns the response. *)
Start(s) ==
  /\ phase[s] = "new"
  /\ phase' = [phase EXCEPT ![s] = "answer"]
  /\ gen' = [gen EXCEPT ![s] = "woken"]
  /\ ready' = Append(ready, <<"resume", s>>)
  /\ UNCHANGED <<stage, attempt, odd, posted, queue, sent>>

(* The stages answer() can emit next: the path of an attempt that succeeds *)
(* and the ways to leave it.  A failure of the LLM is not retried.         *)
Onward == {<<"none", "generating">>, <<"generating", "validating">>,
           <<"validating", "executing">>, <<"executing", "formatting">>,
           <<"formatting", "done">>, <<"generating", "error">>}
Retry == {<<"validating", "generating">>, <<"executing", "generating">>}
GiveUp == {<<"validating", "blocked">>, <<"executing", "error">>}

(* Mutant of Steps: attempts are not counted. *)
StepsOfAny(s) == Onward \cup Retry \cup GiveUp

Steps(s) == Onward \cup (IF attempt[s] < MaxRetries THEN Retry ELSE GiveUp)

Emit(s) ==
  /\ phase[s] = "answer"
  /\ \E x \in Stages :
       /\ <<stage[s], x>> \in Steps(s)
       /\ stage' = [stage EXCEPT ![s] = x]
       /\ attempt' = [attempt EXCEPT ![s] = IF <<stage[s], x>> \in Retry THEN @ + 1 ELSE @]
       /\ Post(s, <<"progress", x>>)
  /\ UNCHANGED <<phase, odd, loop>>

(* A call that the rate limiter refuses, or the cache answers, has no      *)
(* stages.                                                                 *)
Outcomes(s) ==
  CASE stage[s] = "none" -> {"success", "blocked"}
    [] stage[s] = "done" -> {"success"}
    [] stage[s] = "blocked" -> {"blocked"}
    [] stage[s] = "error" -> {"error"}
    [] OTHER -> {}

Return(s) ==
  /\ phase[s] = "answer"
  /\ \E o \in Outcomes(s) : Post(s, <<"result", o>>)
  /\ phase' = [phase EXCEPT ![s] = "finally"]
  /\ UNCHANGED <<stage, attempt, odd, loop>>

(* Mutant of Fail: nothing is said of an exception but "done". *)
FailSilently(s) ==
  /\ phase[s] = "answer"
  /\ stage[s] \notin Final
  /\ phase' = [phase EXCEPT ![s] = "finally"]
  /\ UNCHANGED <<stage, attempt, odd, posted, ready, loop>>

(* An exception leaves answer(). *)
Fail(s) ==
  /\ phase[s] = "answer"
  /\ stage[s] \notin Final
  /\ Post(s, <<"error">>)
  /\ phase' = [phase EXCEPT ![s] = "finally"]
  /\ UNCHANGED <<stage, attempt, odd, loop>>

Finally(s) ==
  /\ phase[s] = "finally"
  /\ Post(s, <<"done">>)
  /\ phase' = [phase EXCEPT ![s] = "ended"]
  /\ UNCHANGED <<stage, attempt, odd, loop>>

Work(s) == Emit(s) \/ Return(s) \/ Fail(s) \/ Finally(s)

-----------------------------------------------------------------------------
(* The event loop: one callback, the oldest. *)
Callback == Head(ready)

(* Mutant of Put: the waiting generator is not woken. *)
PutSilently(s) ==
  /\ ready # <<>> /\ Callback[1] = "put" /\ Callback[2] = s
  /\ queue' = [queue EXCEPT ![s] = Append(@, Callback[3])]
  /\ ready' = Tail(ready)
  /\ UNCHANGED <<thread, posted, gen, sent>>

(* put_nowait: appends, and wakes the getter. *)
Put(s) ==
  /\ ready # <<>> /\ Callback[1] = "put" /\ Callback[2] = s
  /\ queue' = [queue EXCEPT ![s] = Append(@, Callback[3])]
  /\ IF gen[s] = "waiting"
     THEN /\ gen' = [gen EXCEPT ![s] = "woken"]
          /\ ready' = Append(Tail(ready), <<"resume", s>>)
     ELSE ready' = Tail(ready) /\ UNCHANGED gen
  /\ UNCHANGED <<thread, posted, sent>>

(* The generator's turn: it waits for an event, *)
Turn(s) == ready # <<>> /\ Callback = <<"resume", s>>

Wait(s) ==
  /\ Turn(s)
  /\ queue[s] = <<>>
  /\ gen' = [gen EXCEPT ![s] = "waiting"]
  /\ ready' = Tail(ready)
  /\ UNCHANGED <<thread, posted, queue, sent>>

(* or sends one and goes on, at once or when the transport has room again, *)
(* until the event was "done";                                             *)
Unsendable(s) == odd[s] /\ Head(queue[s]) = <<"result", "success">>

Send(s) ==
  /\ Turn(s)
  /\ queue[s] # <<>>
  /\ ~Unsendable(s)
  /\ queue' = [queue EXCEPT ![s] = Tail(@)]
  /\ sent' = [sent EXCEPT ![s] = Append(@, Head(queue[s]))]
  /\ IF Head(queue[s]) = <<"done">>
     THEN gen' = [gen EXCEPT ![s] = "finished"] /\ ready' = Tail(ready)
     ELSE ready' = Append(Tail(ready), Callback) /\ UNCHANGED gen
  /\ UNCHANGED <<thread, posted>>

(* or json.dumps raises a TypeError, which ends it. *)
Break(s) ==
  /\ Turn(s)
  /\ queue[s] # <<>>
  /\ Unsendable(s)
  /\ queue' = [queue EXCEPT ![s] = Tail(@)]
  /\ gen' = [gen EXCEPT ![s] = "broken"]
  /\ ready' = Tail(ready)
  /\ UNCHANGED <<thread, posted, sent>>

(* The client goes away, or gives up after a silence: the generator is     *)
(* closed, and its continuation with it.  The thread does not learn of it. *)
Leave(s) ==
  /\ gen[s] \in {"woken", "waiting"}
  /\ gen' = [gen EXCEPT ![s] = "closed"]
  /\ ready' = Filter(ready, Callbacks \ {<<"resume", s>>})
  /\ UNCHANGED <<thread, posted, queue, sent>>

Serve(s) == Put(s) \/ Wait(s) \/ Send(s) \/ Break(s)

Next == \E s \in Streams : Start(s) \/ Work(s) \/ Serve(s) \/ Leave(s)

Spec == Init /\ [][Next]_vars

(* The interpreter schedules the threads, whose requests and statements    *)
(* have timeouts; the loop runs its callbacks, and handlers end.           *)
Fairness ==
  /\ \A s \in Streams : WF_vars(Work(s))
  /\ WF_vars(\E s \in Streams : Serve(s))

FairSpec == Spec /\ Fairness

-----------------------------------------------------------------------------
(* Every variable holds values of its kind; a generator that is to run has *)
(* one continuation, any other has none.                                   *)
Resumes(s) == Filter(ready, {<<"resume", s>>})

TypeOK ==
  /\ phase \in [Streams -> {"new", "answer", "finally", "ended"}]
  /\ stage \in [Streams -> Stages]
  /\ attempt \in [Streams -> 0..MaxRetries]
  /\ odd \in [Streams -> BOOLEAN]
  /\ posted \in [Streams -> Seq(Events)]
  /\ ready \in Seq(Callbacks)
  /\ queue \in [Streams -> Seq(Events)]
  /\ sent \in [Streams -> Seq(Events)]
  /\ gen \in [Streams -> {"none", "woken", "waiting", "finished", "broken", "closed"}]
  /\ \A s \in Streams : Len(Resumes(s)) = IF gen[s] = "woken" THEN 1 ELSE 0

(* The events in the loop's callbacks. *)
Puts(s) ==
  LET puts == Filter(ready, {"put"} \X {s} \X Events)
  IN  [i \in 1..Len(puts) |-> puts[i][3]]

(* What the client received, what is queued for it and what the loop has   *)
(* still to queue are together what the thread handed over, in its order:  *)
(* nothing is lost, repeated or overtaken on the way.                      *)
HeardInOrder ==
  \A s \in Streams : gen[s] # "broken" => sent[s] \o queue[s] \o Puts(s) = posted[s]

(* A client that stayed to the end heard stages, one result or error, and  *)
(* "done"; after a result its last stage says the same as the result, and  *)
(* it heard of at most MaxRetries + 1 attempts.                            *)
EndsAsItSays ==
  \A s \in Streams : gen[s] = "finished" =>
    LET heard == sent[s]
        n == Len(heard)
        stages == SubSeq(heard, 1, n - 2)
    IN  /\ n >= 2 /\ heard[n] = <<"done">>
        /\ \A i \in 1..(n - 2) : heard[i][1] = "progress"
        /\ heard[n - 1][1] \in {"result", "error"}
        /\ (heard[n - 1][1] = "result" /\ n > 2) =>
             <<stages[n - 2][2], heard[n - 1][2]>> \in
               {<<"done", "success">>, <<"blocked", "blocked">>, <<"error", "error">>}
        /\ Cardinality({i \in 1..(n - 2) : stages[i][2] = "generating"}) <= MaxRetries + 1

(* The stream of a client that stays ends; and its thread ends whether the *)
(* client stays or not.                                                    *)
StreamsEnd ==
  \A s \in Streams :
    /\ phase[s] = "answer" ~> gen[s] \in {"finished", "broken", "closed"}
    /\ phase[s] = "answer" ~> phase[s] = "ended"
=============================================================================
