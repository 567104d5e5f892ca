----------------------------- MODULE ResultCache ----------------------------
(***************************************************************************)
(* self.cache, the OrderedDict of TextToSQLService (src/src/services/      *)
(* text2sql_service.py), under concurrent calls of answer(): the sweep of  *)
(* expired entries, the lookup, the pipeline in between, the upsert.       *)
(*                                                                         *)
(* A call is cut where the interpreter may switch threads: after items,    *)
(* pop, deepcopy, len and popitem, and when a loop turns.  "in" and the    *)
(* pop that follows are one step.  An iterator of an OrderedDict fails     *)
(* once a key was added or removed behind its back; one that is left alone *)
(* is taken to read the entries at its end.                                *)
(*                                                                         *)
(* An entry is named after the call that made it.                          *)
(***************************************************************************)
EXTENDS Slices, FiniteSets

CONSTANTS
  Calls, Keys,
  CacheEnabled,  \* cache_enabled
  Ttl,           \* cache_ttl_seconds
  MaxEntries,    \* max_cache_entries, 0 = unbounded
  MaxActive,     \* calls at a time: 1 if only the event loop serves answer()
  MaxTime,       \* bound: the clock stops there
  NoCall

ASSUME BoundsAssumption ==
  /\ CacheEnabled \in BOOLEAN
  /\ Ttl \in Nat /\ MaxEntries \in Nat /\ MaxTime \in Nat
  /\ MaxActive \in Nat \ {0}
  /\ NoCall \notin Calls

VARIABLES
  clock,      \* time.monotonic()
  pc, key,    \* per call: where it is, and its cache_key
  now, at,    \* per call: when it began, and the timestamp of its entry
  order,      \* the keys of the dictionary, oldest first
  slot,       \* the entry under each key
  todo,       \* per call: expired_keys that are still to be popped
  held,       \* per call: cached, the entry it popped
  disturbed   \* calls whose iterator was disturbed

dict == <<order, slot, disturbed>>
vars == <<clock, pc, key, now, at, dict, todo, held>>

Looking == {"sweep", "scan", "expire", "lookup", "restore"}
Saving == {"replace", "store", "measure", "evict"}
Failed == {"RuntimeError", "KeyError"}

Active == {c \in Calls : pc[c] \in Looking \cup Saving \cup {"run"}}

Init ==
  /\ clock = 0
  /\ pc = [c \in Calls |-> "new"]
  /\ key \in [Calls -> Keys]
  /\ now = [c \in Calls |-> 0]
  /\ at = [c \in Calls |-> 0]
  /\ order = <<>>
  /\ slot = [k \in Keys |-> NoCall]
  /\ todo = [c \in Calls |-> <<>>]
  /\ held = [c \in Calls |-> NoCall]
  /\ disturbed = {}

-----------------------------------------------------------------------------
Goto(c, next) == pc' = [pc EXCEPT ![c] = next]
At(c, here, next) == pc[c] = here /\ Goto(c, next)

Scanning == {c \in Calls : pc[c] = "scan"}

(* pop(k, None) *)
Remove(k) ==
  /\ order' = Filter(order, Keys \ {k})
  /\ slot' = [slot EXCEPT ![k] = NoCall]
  /\ disturbed' = IF slot[k] = NoCall THEN disturbed ELSE disturbed \cup Scanning

(* Mutant of Put: every store takes the last place. *)
PutLast(k, m) ==
  /\ slot' = [slot EXCEPT ![k] = m]
  /\ order' = Append(order, k)
  /\ disturbed' = disturbed \cup Scanning

(* self.cache[k] = m: a key that is there keeps its place. *)
Put(k, m) ==
  /\ slot' = [slot EXCEPT ![k] = m]
  /\ IF slot[k] # NoCall THEN UNCHANGED <<order, disturbed>>
     ELSE order' = Append(order, k) /\ disturbed' = disturbed \cup Scanning

Begin(c) ==
  /\ Cardinality(Active) < MaxActive
  /\ At(c, "new", IF CacheEnabled THEN "sweep" ELSE "run")
  /\ now' = [now EXCEPT ![c] = clock]
  /\ UNCHANGED <<clock, key, at, dict, todo, held>>

(* iter(self.cache.items()); over an empty dictionary it ends at once. *)
Sweep(c) ==
  /\ At(c, "sweep", IF order = <<>> THEN "lookup" ELSE "scan")
  /\ UNCHANGED <<clock, key, now, at, dict, todo, held>>

ExpiredKeys(c) == {k \in Keys : slot[k] # NoCall /\ now[c] >= at[slot[k]] + Ttl}

Scan(c) ==
  /\ c \notin disturbed
  /\ At(c, "scan", "expire")
  /\ todo' = [todo EXCEPT ![c] = Filter(order, ExpiredKeys(c))]
  /\ UNCHANGED <<clock, key, now, at, dict, held>>

(* "RuntimeError: OrderedDict mutated during iteration" *)
ScanFails(c) ==
  /\ c \in disturbed
  /\ At(c, "scan", "RuntimeError")
  /\ disturbed' = disturbed \ {c}
  /\ UNCHANGED <<clock, key, now, at, order, slot, todo, held>>

(* One turn of the loop; the key may have a fresh entry by now. *)
Expire(c) ==
  /\ IF todo[c] = <<>> THEN At(c, "expire", "lookup") /\ UNCHANGED <<dict, todo>>
     ELSE /\ At(c, "expire", "expire")
          /\ Remove(Head(todo[c]))
          /\ todo' = [todo EXCEPT ![c] = Tail(@)]
  /\ UNCHANGED <<clock, key, now, at, held>>

Lookup(c) ==
  /\ IF slot[key[c]] = NoCall THEN At(c, "lookup", "run") /\ UNCHANGED <<dict, held>>
     ELSE /\ At(c, "lookup", "restore")
          /\ held' = [held EXCEPT ![c] = slot[key[c]]]
          /\ Remove(key[c])
  /\ UNCHANGED <<clock, key, now, at, todo>>

(* Mutant of StillFresh: the sweep has removed what is expired. *)
SweptIsFresh(c) == TRUE

(* now - cached["timestamp"] < self.cache_ttl_seconds *)
StillFresh(c) == now[c] < at[held[c]] + Ttl

(* Mutant of Restore: a hit returns to the place of the oldest. *)
RestoreFirst(c) ==
  /\ At(c, "restore", "hit")
  /\ slot' = [slot EXCEPT ![key[c]] = held[c]]
  /\ order' = <<key[c]>> \o Filter(order, Keys \ {key[c]})
  /\ UNCHANGED <<clock, key, now, at, disturbed, todo, held>>

(* A hit becomes the youngest key and ends the call. *)
Restore(c) ==
  /\ At(c, "restore", "hit")
  /\ StillFresh(c)
  /\ Put(key[c], held[c])
  /\ UNCHANGED <<clock, key, now, at, todo, held>>

(* The popped entry is dropped, which makes the lookup a miss. *)
TooOld(c) ==
  /\ At(c, "restore", "run")
  /\ ~StillFresh(c)
  /\ held' = [held EXCEPT ![c] = NoCall]
  /\ UNCHANGED <<clock, key, now, at, dict, todo>>

(* The pipeline ends in success, and _upsert_cache is given the time, or   *)
(* with anything else.                                                     *)
Succeed(c) ==
  /\ At(c, "run", IF CacheEnabled THEN "replace" ELSE "ended")
  /\ at' = [at EXCEPT ![c] = clock]
  /\ UNCHANGED <<clock, key, now, dict, todo, held>>

Fail(c) ==
  /\ At(c, "run", "ended")
  /\ UNCHANGED <<clock, key, now, at, dict, todo, held>>

Replace(c) ==
  /\ At(c, "replace", "store")
  /\ Remove(key[c])
  /\ UNCHANGED <<clock, key, now, at, todo, held>>

Store(c) ==
  /\ At(c, "store", "measure")
  /\ Put(key[c], c)
  /\ UNCHANGED <<clock, key, now, at, todo, held>>

(* Mutant of Measure: the comparison is turned round. *)
MeasureReversed(c) ==
  /\ At(c, "measure", IF MaxEntries > 0 /\ Len(order) < MaxEntries THEN "evict" ELSE "stored")
  /\ UNCHANGED <<clock, key, now, at, dict, todo, held>>

(* while len(self.cache) > self.max_cache_entries *)
Measure(c) ==
  /\ At(c, "measure", IF MaxEntries > 0 /\ Len(order) > MaxEntries THEN "evict" ELSE "stored")
  /\ UNCHANGED <<clock, key, now, at, dict, todo, held>>

(* popitem(last=False) *)
Evict(c) ==
  /\ IF order = <<>> THEN At(c, "evict", "KeyError") /\ UNCHANGED dict
     ELSE At(c, "evict", "measure") /\ Remove(Head(order))
  /\ UNCHANGED <<clock, key, now, at, todo, held>>

Tick ==
  /\ clock < MaxTime
  /\ clock' = clock + 1
  /\ UNCHANGED <<pc, key, now, at, dict, todo, held>>

Step(c) ==
  \/ Sweep(c) \/ Scan(c) \/ ScanFails(c) \/ Expire(c) \/ Lookup(c) \/ Restore(c)
  \/ TooOld(c) \/ Succeed(c) \/ Fail(c)
  \/ Replace(c) \/ Store(c) \/ Measure(c) \/ Evict(c)

Next == (\E c \in Calls : Begin(c) \/ Step(c)) \/ Tick

Spec == Init /\ [][Next]_vars

-----------------------------------------------------------------------------
(* Every variable holds values of its kind, and order is the order of the  *)
(* keys of slot.                                                           *)
TypeOK ==
  /\ clock \in 0..MaxTime
  /\ pc \in [Calls -> Looking \cup Saving \cup Failed \cup {"new", "run", "hit", "stored", "ended"}]
  /\ key \in [Calls -> Keys]
  /\ now \in [Calls -> 0..MaxTime] /\ at \in [Calls -> 0..MaxTime]
  /\ slot \in [Keys -> Calls \cup {NoCall}]
  /\ order \in Seq(Keys)
  /\ {order[i] : i \in 1..Len(order)} = {k \in Keys : slot[k] # NoCall}
  /\ Len(order) = Cardinality({k \in Keys : slot[k] # NoCall})
  /\ todo \in [Calls -> Seq(Keys)]
  /\ held \in [Calls -> Calls \cup {NoCall}]
  /\ disturbed \subseteq Scanning

(* A hit serves an answer to the same key that was younger than the TTL    *)
(* when its call began.  The sweep does not see to that: while it runs,    *)
(* another call may hold the entry in its hands, and put it back.          *)
HitIsFresh ==
  \A c \in Calls : pc[c] = "hit" =>
    /\ key[held[c]] = key[c]
    /\ now[c] < at[held[c]] + Ttl

(* When no call is past its lookup the cache exceeds its bound by at most  *)
(* one entry for each other call there can be: a hit goes back without an  *)
(* eviction, and another key may have taken its place meanwhile.           *)
SizeBound ==
  (MaxEntries > 0 /\ \A c \in Calls : pc[c] \notin {"restore", "measure", "evict"})
    => Len(order) <= MaxEntries + MaxActive - 1

(* A call that has the cache to itself never fails in it. *)
LoopNeverFails == MaxActive = 1 => \A c \in Calls : pc[c] \notin Failed

(* One call at a time, the cache is an LruCache.  A popped hit counts as   *)
(* the youngest entry already, and a stored answer as cut to the bound.    *)
InHand == {c \in Calls : pc[c] = "restore"}

Lru == INSTANCE LruCache WITH
  entries <- LastN([i \in 1..Len(order) |-> slot[order[i]]]
                   \o (IF InHand = {} THEN <<>> ELSE <<held[CHOOSE c \in InHand : TRUE]>>),
                   MaxEntries),
  used <- {c \in Calls : pc[c] \in {"restore", "hit", "measure", "evict", "stored"}}

ImplementsLru == Lru!Spec

=============================================================================
