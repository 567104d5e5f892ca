------------------------------ MODULE LruCache ------------------------------
(***************************************************************************)
(* What the result cache promises calls that come one at a time: it holds  *)
(* the answers of the MaxEntries keys used last (of all keys when          *)
(* MaxEntries is 0), in the order of use; a call uses it once; an answer   *)
(* leaves early only when it is as old as the TTL.                         *)
(***************************************************************************)
EXTENDS Slices

CONSTANTS Calls, Keys, Ttl, MaxEntries, MaxTime

VARIABLES
  clock, key,
  at,       \* when the answer of a call was made
  entries,  \* the calls whose answers are cached, least recently used first
  used      \* the calls that found, or stored, an answer

vars == <<clock, key, at, entries, used>>

Init ==
  /\ clock = 0
  /\ key \in [Calls -> Keys]
  /\ at = [c \in Calls |-> 0]
  /\ entries = <<>>
  /\ used = {}

Without(k) == Filter(entries, {m \in Calls : key[m] # k})

Stamp(c) ==
  /\ c \notin used
  /\ at' = [at EXCEPT ![c] = clock]
  /\ UNCHANGED <<clock, key, entries, used>>

Insert(c) ==
  /\ c \notin used
  /\ entries' = LastN(Append(Without(key[c]), c), MaxEntries)
  /\ used' = used \cup {c}
  /\ UNCHANGED <<clock, key, at>>

Use(c, i) ==
  /\ c \notin used
  /\ key[entries[i]] = key[c]
  /\ entries' = Append(Without(key[c]), entries[i])
  /\ used' = used \cup {c}
  /\ UNCHANGED <<clock, key, at>>

Expire(i) ==
  /\ clock >= at[entries[i]] + Ttl
  /\ entries' = Without(key[entries[i]])
  /\ UNCHANGED <<clock, key, at, used>>

Tick == clock < MaxTime /\ clock' = clock + 1 /\ UNCHANGED <<key, at, entries, used>>

Next ==
  \/ \E c \in Calls : Stamp(c) \/ Insert(c)
  \/ \E i \in 1..Len(entries) : Expire(i) \/ \E c \in Calls : Use(c, i)
  \/ Tick

Spec == Init /\ [][Next]_vars
=============================================================================
