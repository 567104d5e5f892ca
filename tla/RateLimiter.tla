----------------------------- MODULE RateLimiter ----------------------------
(***************************************************************************)
(* TextToSQLService._check_rate_limit (src/src/services/                   *)
(* text2sql_service.py) under concurrent calls.                            *)
(*                                                                         *)
(* self.rate_limit_history maps a user to a list of timestamps, and is     *)
(* shared without a lock by the event loop and the threads of              *)
(* /query/stream.  A call is split wherever the interpreter may switch     *)
(* threads: when a call it makes (len, iter, next, pop, monotonic, get,    *)
(* the comprehension, append) has returned.                                *)
(*                                                                         *)
(* A timestamp is represented by the call that took it (its time is        *)
(* stamp), so a list is a set of calls.  The list a call builds is named   *)
(* after the call: slot[u] = {c} says that the list of c stands under the  *)
(* key u, slot[u] = {} that u is no key.  Locals that are dead are cleared. *)
(***************************************************************************)
EXTENDS Naturals, FiniteSets

CONSTANTS
  Calls,      \* the calls of _check_rate_limit
  Users,
  Requests,   \* bound: which user each call may be for
  Limit,      \* rate_limit_per_minute, 0 = no limit
  MaxUsers,   \* max_rate_limit_users, 0 = unbounded
  Window,     \* the sixty seconds
  MaxActive,  \* calls at a time with the threads of /query/stream
  MaxTime     \* bound: the clock stops there

ASSUME NumbersAssumption ==
  /\ Limit \in Nat /\ MaxUsers \in Nat /\ Window \in Nat /\ MaxTime \in Nat
  /\ MaxActive \in Nat \ {0}

ASSUME CallsAssumption ==
  IsFiniteSet(Calls) /\ IsFiniteSet(Users) /\ Requests \subseteq [Calls -> Users]

VARIABLES
  clock,      \* time.monotonic()
  pc,         \* per call: where it is
  who,        \* per call: its user_id
  parallel,   \* calls at a time: 1 if only the event loop serves answer()
  slot,       \* self.rate_limit_history
  ahead,      \* per key: the keys the dictionary yields before it
  list,       \* per call: the list it built
  stamp,      \* per call: now
  size,       \* per call: the size its dictionary iterator expects
  victim,     \* per call: oldest_user, {} for None
  source,     \* per call: what rate_limit_history.get returned, {} for []
  forgotten   \* history variable: admitted calls whose user was evicted

dict == <<slot, ahead>>
local == <<list, stamp, size, victim, source>>
vars == <<clock, pc, who, parallel, dict, local, forgotten>>

Sweeping == {"size", "iterate", "next", "pop"}
Judging == {"clock", "get", "filter", "store", "append", "restore"}
Ended == {"admitted", "refused", "failed"}

Active == {c \in Calls : pc[c] \in Sweeping \cup Judging}

(* The calls that appended their timestamp to the list they built. *)
Stamped == {c \in Calls : pc[c] \in {"restore", "admitted"}}

(* The keys of the dictionary. *)
Tracked == {u \in Users : slot[u] # {}}

Init ==
  /\ clock = 0
  /\ pc = [c \in Calls |-> "new"]
  /\ who \in Requests
  /\ parallel \in {1, MaxActive}
  /\ slot = [u \in Users |-> {}]
  /\ ahead = [u \in Users |-> {}]
  /\ list = [c \in Calls |-> {}]
  /\ stamp = [c \in Calls |-> 0]
  /\ size = [c \in Calls |-> 0]
  /\ victim = [c \in Calls |-> {}]
  /\ source = [c \in Calls |-> {}]
  /\ forgotten = {}

-----------------------------------------------------------------------------
Goto(c, next) == pc' = [pc EXCEPT ![c] = next]

(* self.rate_limit_history[user_id] = recent: a new key goes to the end. *)
Put(c) ==
  /\ slot' = [slot EXCEPT ![who[c]] = {c}]
  /\ ahead' = IF who[c] \in Tracked THEN ahead ELSE [ahead EXCEPT ![who[c]] = Tracked]

(* Mutant of AfterLen: off by one. *)
AfterLenLate == IF Cardinality(Tracked) > MaxUsers THEN "iterate" ELSE "clock"

(* len(self.rate_limit_history) >= self.max_rate_limit_users decides. *)
AfterLen == IF Cardinality(Tracked) >= MaxUsers THEN "iterate" ELSE "clock"

(* A call without a limit returns; a tracked user, or an unbounded         *)
(* dictionary, needs no sweep; otherwise len is taken at once.             *)
FirstStep(c) ==
  IF Limit = 0 THEN "admitted"
  ELSE IF who[c] \notin Tracked /\ MaxUsers > 0 THEN AfterLen ELSE "clock"

Begin(c) ==
  /\ pc[c] = "new"
  /\ Cardinality(Active) < parallel
  /\ Goto(c, FirstStep(c))
  /\ UNCHANGED <<clock, who, parallel, dict, local, forgotten>>

(* The loop turns: len again. *)
Size(c) ==
  /\ pc[c] = "size"
  /\ Goto(c, AfterLen)
  /\ UNCHANGED <<clock, who, parallel, dict, local, forgotten>>

(* iter(self.rate_limit_history) remembers the size. *)
Iterate(c) ==
  /\ pc[c] = "iterate"
  /\ size' = [size EXCEPT ![c] = Cardinality(Tracked)]
  /\ Goto(c, "next")
  /\ UNCHANGED <<clock, who, parallel, dict, list, stamp, victim, source, forgotten>>

(* next(..., None) on a dictionary of the size the iterator expects: the   *)
(* oldest key, or None.                                                    *)
NextOldest(c) ==
  /\ pc[c] = "next"
  /\ size[c] = Cardinality(Tracked)
  /\ \/ \E u \in Tracked :
          /\ ahead[u] = {}
          /\ victim' = [victim EXCEPT ![c] = {u}]
          /\ Goto(c, "pop")
     \/ /\ Tracked = {}
        /\ Goto(c, "clock")
        /\ UNCHANGED victim
  /\ size' = [size EXCEPT ![c] = 0]
  /\ UNCHANGED <<clock, who, parallel, dict, list, stamp, source, forgotten>>

(* "RuntimeError: dictionary changed size during iteration" ends the call. *)
NextFails(c) ==
  /\ pc[c] = "next"
  /\ size[c] # Cardinality(Tracked)
  /\ Goto(c, "failed")
  /\ UNCHANGED <<clock, who, parallel, dict, local, forgotten>>

(* The key is gone, and with it the admissions of its user. *)
Drop(v) ==
  /\ slot' = [slot EXCEPT ![v] = {}]
  /\ ahead' = [u \in Users |-> IF u = v THEN {} ELSE ahead[u] \ {v}]
  /\ forgotten' = forgotten \cup {d \in Stamped : who[d] = v}

(* Mutants of Pop: pop without a default; get instead of pop. *)
PopStrict(c) ==
  /\ pc[c] = "pop"
  /\ \E v \in victim[c] : Drop(v) /\ Goto(c, IF v \in Tracked THEN "size" ELSE "KeyError")
  /\ victim' = [victim EXCEPT ![c] = {}]
  /\ UNCHANGED <<clock, who, parallel, list, stamp, size, source>>

PopNothing(c) ==
  /\ pc[c] = "pop"
  /\ Goto(c, "size")
  /\ victim' = [victim EXCEPT ![c] = {}]
  /\ UNCHANGED <<clock, who, parallel, dict, list, stamp, size, source, forgotten>>

(* self.rate_limit_history.pop(oldest_user, None) *)
Pop(c) ==
  /\ pc[c] = "pop"
  /\ \E v \in victim[c] : Drop(v)
  /\ victim' = [victim EXCEPT ![c] = {}]
  /\ Goto(c, "size")
  /\ UNCHANGED <<clock, who, parallel, list, stamp, size, source>>

(* now = time.monotonic() *)
Clock(c) ==
  /\ pc[c] = "clock"
  /\ stamp' = [stamp EXCEPT ![c] = clock]
  /\ Goto(c, "get")
  /\ UNCHANGED <<clock, who, parallel, dict, list, size, victim, source, forgotten>>

(* self.rate_limit_history.get(user_id, []) *)
Get(c) ==
  /\ pc[c] = "get"
  /\ source' = [source EXCEPT ![c] = slot[who[c]]]
  /\ Goto(c, "filter")
  /\ UNCHANGED <<clock, who, parallel, dict, list, stamp, size, victim, forgotten>>

(* Mutants of Recent: a timestamp on the far edge of the window counts;    *)
(* every timestamp does.                                                   *)
RecentClosed(c) == {d \in UNION {list[s] : s \in source[c]} : stamp[c] <= stamp[d] + Window}

RecentForever(c) == UNION {list[s] : s \in source[c]}

(* [t for t in ... if now - t < 60], over the list as it is by now: its    *)
(* builder may have appended to it since get.                              *)
Recent(c) == {d \in UNION {list[s] : s \in source[c]} : stamp[c] < stamp[d] + Window}

Filter(c) ==
  /\ pc[c] = "filter"
  /\ list' = [list EXCEPT ![c] = Recent(c)]
  /\ source' = [source EXCEPT ![c] = {}]
  /\ Goto(c, "store")
  /\ UNCHANGED <<clock, who, parallel, dict, stamp, size, victim, forgotten>>

(* Mutant of Exceeds: off by one. *)
ExceedsLate(c) == Cardinality(list[c]) > Limit

Exceeds(c) == Cardinality(list[c]) >= Limit

(* The list is stored and measured; RateLimitExceededError refuses. *)
Store(c) ==
  /\ pc[c] = "store"
  /\ Put(c)
  /\ Goto(c, IF Exceeds(c) THEN "refused" ELSE "append")
  /\ UNCHANGED <<clock, who, parallel, local, forgotten>>

(* recent.append(now), on the list that is already in the dictionary. *)
AppendNow(c) ==
  /\ pc[c] = "append"
  /\ list' = [list EXCEPT ![c] = @ \cup {c}]
  /\ Goto(c, "restore")
  /\ UNCHANGED <<clock, who, parallel, dict, stamp, size, victim, source, forgotten>>

(* The list is stored again: its key may have been evicted meanwhile. *)
Restore(c) ==
  /\ pc[c] = "restore"
  /\ Put(c)
  /\ Goto(c, "admitted")
  /\ UNCHANGED <<clock, who, parallel, local, forgotten>>

Tick ==
  /\ clock < MaxTime
  /\ clock' = clock + 1
  /\ UNCHANGED <<pc, who, parallel, dict, local, forgotten>>

Step(c) ==
  \/ Size(c) \/ Iterate(c) \/ NextOldest(c) \/ NextFails(c) \/ Pop(c)
  \/ Clock(c) \/ Get(c) \/ Filter(c) \/ Store(c) \/ AppendNow(c) \/ Restore(c)

Next ==
  \/ \E c \in Calls : Begin(c) \/ Step(c)
  \/ Tick

Spec == Init /\ [][Next]_vars

(* The interpreter schedules every thread. *)
FairSpec == Spec /\ \A c \in Calls : WF_vars(Step(c))

-----------------------------------------------------------------------------
(* Every variable holds values of its kind. *)
TypeOK ==
  /\ clock \in Nat
  /\ pc \in [Calls -> {"new"} \cup Sweeping \cup Judging \cup Ended]
  /\ who \in [Calls -> Users]
  /\ parallel \in {1, MaxActive}
  /\ slot \in [Users -> SUBSET Calls]
  /\ ahead \in [Users -> SUBSET Users]
  /\ list \in [Calls -> SUBSET Calls]
  /\ stamp \in [Calls -> Nat]
  /\ size \in [Calls -> Nat]
  /\ victim \in [Calls -> SUBSET Users]
  /\ source \in [Calls -> SUBSET Calls]
  /\ forgotten \in SUBSET Calls

(* However the threads interleave, the dictionary outgrows its bound by at *)
(* most one user per other call under way: each has tested len before the  *)
(* others inserted.                                                        *)
TrackedBound == MaxUsers > 0 => Cardinality(Tracked) <= MaxUsers + parallel - 1

(* However the threads interleave, nobody is refused for another's calls   *)
(* or for old ones: for every refusal there are Limit calls of the same    *)
(* user that were let through within the window.                           *)
RefusalJustified ==
  \A c \in Calls : pc[c] = "refused" =>
    Cardinality({d \in Stamped : who[d] = who[c] /\ stamp[c] < stamp[d] + Window}) >= Limit

(* One call at a time: no window holds more than Limit admissions of a     *)
(* user, those before the user's eviction apart.                           *)
WindowBound ==
  parallel = 1 /\ Limit > 0 => \A u \in Users :
    Cardinality({c \in Stamped \ forgotten :
                   who[c] = u /\ clock < stamp[c] + Window}) <= Limit

(* Every call is answered: the eviction loop ends although other calls may *)
(* insert users while it runs.                                             *)
CallsEnd == \A c \in Calls : pc[c] \notin {"new"} \cup Ended ~> pc[c] \in Ended

(* One call at a time: a call is judged in one step, on the admissions of  *)
(* its own user in the window before it (SlidingWindow).                   *)
Judgement == [c \in Calls |->
  IF pc[c] \in {"restore", "admitted"} THEN "admitted"
  ELSE IF pc[c] = "refused" THEN "refused" ELSE "pending"]

W == INSTANCE SlidingWindow WITH
       now <- clock, userOf <- who, verdict <- Judgement, forgotten <- forgotten,
       at <- [c \in Calls |-> IF Judgement[c] = "pending" THEN 0 ELSE stamp[c]]

ImplementsWindow == W!Init /\ [][parallel = 1 => [W!Next]_(W!vars)]_vars
=============================================================================
