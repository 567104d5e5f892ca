---------------------------- MODULE MemoryProofs ----------------------------
(***************************************************************************)
(* What holds of the stores the service keeps, side by side as in module   *)
(* MCMemory, for every number of calls, users, keys, tables and records,   *)
(* and all bounds.                                                         *)
(*                                                                         *)
(* The invariants of the result cache are not inductive.  HitIsFresh rests *)
(* on Entries: an entry, in the dictionary or in the hands of a call, is   *)
(* the answer of a call that has stored it, whose timestamp is therefore   *)
(* final.  SizeBound rests on Budget, which counts the entries calls hold  *)
(* in their hands as well, and on Occupied: an eviction that ends leaves   *)
(* at most MaxActive - 1 other calls that may put one back.  That the      *)
(* cache of calls that come one at a time is an LruCache rests on          *)
(* AloneInv, which says what the call under way has established so far.    *)
(***************************************************************************)
EXTENDS MCMemory, SlicesProofs

-----------------------------------------------------------------------------
(* The result cache.                                                       *)

Places == Looking \cup Saving \cup Failed \cup {"new", "run", "hit", "stored", "ended"}

Kinds ==
  /\ clock \in 0..MaxTime
  /\ pc \in [Calls -> Places]
  /\ key \in [Calls -> Keys]
  /\ now \in [Calls -> 0..MaxTime] /\ at \in [Calls -> 0..MaxTime]
  /\ slot \in [Keys -> Calls \cup {NoCall}]
  /\ order \in Seq(Keys)
  /\ todo \in [Calls -> Seq(Keys)]
  /\ held \in [Calls -> Calls \cup {NoCall}]
  /\ disturbed \subseteq Scanning

Members(s) == {s[i] : i \in 1..Len(s)}

Linked ==
  /\ Distinct(order)
  /\ Members(order) = {k \in Keys : slot[k] # NoCall}

(* The calls that have stored their answer, and stay with its timestamp. *)
Kept == {"measure", "evict", "stored", "KeyError"}

Answers(p, m, k) == m \in Calls /\ key[m] = k /\ p[m] \in Kept

Entries ==
  /\ \A k \in Keys : slot[k] # NoCall => Answers(pc, slot[k], k)
  /\ \A c \in Calls : pc[c] \in {"restore", "hit"} => Answers(pc, held[c], key[c])
  /\ \A c \in Calls : pc[c] = "hit" => now[c] < at[held[c]] + Ttl

Occupied == IsFiniteSet(Active) /\ Cardinality(Active) <= MaxActive

Evicting == {c \in Calls : pc[c] \in {"measure", "evict"}}

Budget ==
  (MaxEntries > 0 /\ Evicting = {})
    => Len(order) + Cardinality(InHand) <= MaxEntries + MaxActive - 1

CacheInv == Kinds /\ Linked /\ Entries /\ Occupied /\ Budget

-----------------------------------------------------------------------------
(* The two operations on the dictionary. *)

LEMMA RemoveKeeps ==
  ASSUME Kinds, Linked, NEW k, Remove(k)
  PROVE  /\ order' \in Seq(Keys) /\ slot' \in [Keys -> Calls \cup {NoCall}]
         /\ Linked'
         /\ Len(order) \in Nat /\ Len(order') \in Nat
         /\ Len(order') <= Len(order)
         /\ k \in Keys /\ slot[k] # NoCall => Len(order') < Len(order)
         /\ \A j \in Keys : slot'[j] = slot[j] \/ slot'[j] = NoCall
<1> DEFINE T == Keys \ {k}
<1>1. order \in Seq(Keys) /\ slot \in [Keys -> Calls \cup {NoCall}]
  BY DEF Kinds
<1>2. order' = Filter(order, T)
  BY DEF Remove
<1>3. /\ Filter(order, T) \in Seq(Keys)
      /\ Len(Filter(order, T)) <= Len(order)
      /\ (\E i \in 1..Len(order) : order[i] \notin T) => Len(Filter(order, T)) < Len(order)
  BY <1>1, FilterPicks
<1>4. Len(order) \in Nat /\ Len(order') \in Nat
  BY <1>1, <1>2, <1>3, LenProperties
<1>5. slot' = [slot EXCEPT ![k] = NoCall]
  BY DEF Remove
<1>6. slot' \in [Keys -> Calls \cup {NoCall}]
  BY <1>1, <1>5
<1>7. Distinct(order')
  BY <1>1, <1>2, FilterDistinct DEF Linked
<1>8. Members(order') = {j \in Keys : slot'[j] # NoCall}
  <2>1. Members(order') = Members(order) \cap T
    BY <1>1, <1>2, FilterMembers DEF Members
  <2>2. \A j \in Keys : slot'[j] # NoCall <=> (slot[j] # NoCall /\ j # k)
    BY <1>1, <1>5
  <2> QED
    BY <2>1, <2>2 DEF Linked
<1>9. k \in Keys /\ slot[k] # NoCall => Len(order') < Len(order)
  <2> SUFFICES ASSUME k \in Keys, slot[k] # NoCall
               PROVE  \E i \in 1..Len(order) : order[i] \notin T
    BY <1>2, <1>3
  <2>1. k \in Members(order)
    BY DEF Linked
  <2> QED
    BY <2>1 DEF Members
<1>10. \A j \in Keys : slot'[j] = slot[j] \/ slot'[j] = NoCall
  BY <1>1, <1>5
<1> QED
  BY <1>2, <1>3, <1>4, <1>6, <1>7, <1>8, <1>9, <1>10 DEF Linked, Members

LEMMA PutKeeps ==
  ASSUME Kinds, Linked, NEW k \in Keys, NEW m \in Calls, Put(k, m)
  PROVE  /\ order' \in Seq(Keys) /\ slot' \in [Keys -> Calls \cup {NoCall}]
         /\ Linked'
         /\ Len(order) \in Nat /\ Len(order') \in Nat
         /\ Len(order') <= Len(order) + 1
         /\ \A j \in Keys : slot'[j] = IF j = k THEN m ELSE slot[j]
<1>1. order \in Seq(Keys) /\ slot \in [Keys -> Calls \cup {NoCall}]
  BY DEF Kinds
<1>2. slot' = [slot EXCEPT ![k] = m]
  BY DEF Put
<1>3. \A j \in Keys : slot'[j] = IF j = k THEN m ELSE slot[j]
  BY <1>1, <1>2
<1>4. Len(order) \in Nat
  BY <1>1, LenProperties
<1>5. m # NoCall
  BY BoundsAssumption
<1>6. CASE slot[k] # NoCall
  <2>1. order' = order
    BY <1>6 DEF Put
  <2>2. {j \in Keys : slot'[j] # NoCall} = {j \in Keys : slot[j] # NoCall}
    BY <1>3, <1>5, <1>6
  <2>3. Linked'
    BY <2>1, <2>2 DEF Linked, Members, Distinct
  <2> QED
    BY <1>1, <1>2, <1>3, <1>4, <2>1, <2>3
<1>7. CASE slot[k] = NoCall
  <2>1. order' = Append(order, k)
    BY <1>7 DEF Put
  <2>2. k \notin Members(order)
    BY <1>7 DEF Linked
  <2>3. /\ Append(order, k) \in Seq(Keys)
        /\ Len(Append(order, k)) = Len(order) + 1
        /\ Distinct(Append(order, k))
        /\ Members(Append(order, k)) = Members(order) \cup {k}
    BY <1>1, <2>2, AppendDistinct DEF Linked, Members
  <2>4. {j \in Keys : slot'[j] # NoCall} = {j \in Keys : slot[j] # NoCall} \cup {k}
    BY <1>3, <1>5
  <2>5. Linked'
    <3>1. Distinct(order')
      BY <2>1, <2>3
    <3>2. Members(order') = {j \in Keys : slot'[j] # NoCall}
      BY <2>1, <2>3, <2>4 DEF Linked
    <3> QED
      BY <3>1, <3>2 DEF Linked, Distinct, Members
  <2> QED
    BY <1>1, <1>2, <1>3, <1>4, <2>1, <2>3, <2>5
<1> QED
  BY <1>6, <1>7

-----------------------------------------------------------------------------
(* Where a step leads. *)

LEMMA Moves ==
  ASSUME Kinds, NEW c \in Calls, NEW here, NEW next \in Places, At(c, here, next)
  PROVE  /\ pc[c] = here
         /\ pc' \in [Calls -> Places]
         /\ \A d \in Calls : pc'[d] = IF d = c THEN next ELSE pc[d]
BY DEF Kinds, At, Goto

LEMMA StepMoves ==
  ASSUME Kinds, NEW c \in Calls, Step(c)
  PROVE  /\ pc[c] \in Looking \cup Saving \cup {"run"}
         /\ pc'[c] \in Places
         /\ pc' \in [Calls -> Places]
         /\ \A d \in Calls \ {c} : pc'[d] = pc[d]
<1>1. ASSUME NEW here \in Looking \cup Saving \cup {"run"}, NEW next \in Places, At(c, here, next)
      PROVE  /\ pc[c] \in Looking \cup Saving \cup {"run"}
             /\ pc'[c] \in Places
             /\ pc' \in [Calls -> Places]
             /\ \A d \in Calls \ {c} : pc'[d] = pc[d]
  BY <1>1, Moves
<1>2. \E here \in Looking \cup Saving \cup {"run"}, next \in Places : At(c, here, next)
  <2>1. CASE Sweep(c)
    BY <2>1 DEF Sweep, Looking, Places
  <2>2. CASE Scan(c)
    BY <2>2 DEF Scan, Looking, Places
  <2>3. CASE ScanFails(c)
    BY <2>3 DEF ScanFails, Looking, Places, Failed
  <2>4. CASE Expire(c)
    BY <2>4 DEF Expire, Looking, Places
  <2>5. CASE Lookup(c)
    BY <2>5 DEF Lookup, Looking, Places
  <2>6. CASE Restore(c)
    BY <2>6 DEF Restore, Looking, Places
  <2>7. CASE TooOld(c)
    BY <2>7 DEF TooOld, Looking, Places
  <2>8. CASE Succeed(c)
    BY <2>8 DEF Succeed, Looking, Saving, Places
  <2>9. CASE Fail(c)
    BY <2>9 DEF Fail, Looking, Places
  <2>10. CASE Replace(c)
    BY <2>10 DEF Replace, Saving, Places
  <2>11. CASE Store(c)
    BY <2>11 DEF Store, Saving, Places
  <2>12. CASE Measure(c)
    BY <2>12 DEF Measure, Saving, Places
  <2>13. CASE Evict(c)
    BY <2>13 DEF Evict, Saving, Failed, Places
  <2> QED
    BY <2>1, <2>2, <2>3, <2>4, <2>5, <2>6, <2>7, <2>8, <2>9, <2>10, <2>11, <2>12, <2>13 DEF Step
<1> QED
  BY <1>1, <1>2

(* disturbed names scanning calls only: a call that stops scanning has     *)
(* left it, and only scanning calls join.                                  *)
LEMMA DisturbedScan ==
  ASSUME Kinds, NEW c \in Calls,
         pc' \in [Calls -> Places], \A d \in Calls \ {c} : pc'[d] = pc[d],
         \/ pc[c] # "scan" /\ disturbed' \subseteq disturbed \cup Scanning
         \/ disturbed' \subseteq disturbed \ {c}
  PROVE  disturbed' \subseteq Scanning'
<1>1. disturbed' \subseteq Scanning \ {c}
  BY DEF Kinds, Scanning
<1> QED
  BY <1>1 DEF Scanning

LEMMA KindsStep ==
  ASSUME Kinds, Linked, Entries, NEW c \in Calls, Step(c)
  PROVE  Kinds'
<1>1. /\ pc' \in [Calls -> Places]
      /\ \A d \in Calls \ {c} : pc'[d] = pc[d]
  BY StepMoves
<1>2. Kinds'
  <2>0. clock' = clock /\ key' = key /\ now' = now
    BY DEF Step, Sweep, Scan, ScanFails, Expire, Lookup, Restore, TooOld, Succeed, Fail,
           Replace, Store, Measure, Evict
  <2>1. ASSUME at' = at, todo' = todo, held' = held,
               order' \in Seq(Keys), slot' \in [Keys -> Calls \cup {NoCall}],
               disturbed' \subseteq Scanning'
        PROVE  Kinds'
    BY <1>1, <2>0, <2>1 DEF Kinds
  <2>2. ASSUME UNCHANGED dict, pc[c] # "scan"
        PROVE  /\ order' \in Seq(Keys) /\ slot' \in [Keys -> Calls \cup {NoCall}]
               /\ disturbed' \subseteq Scanning'
    <3>1. order' = order /\ slot' = slot /\ disturbed' = disturbed
      BY <2>2 DEF dict
    <3>2. disturbed' \subseteq Scanning'
      BY <1>1, <2>2, <3>1, DisturbedScan
    <3> QED
      BY <3>1, <3>2 DEF Kinds
  <2>3. ASSUME NEW k, Remove(k), pc[c] # "scan"
        PROVE  /\ order' \in Seq(Keys) /\ slot' \in [Keys -> Calls \cup {NoCall}]
               /\ disturbed' \subseteq Scanning'
    <3>1. disturbed' \subseteq disturbed \cup Scanning
      BY <2>3 DEF Remove
    <3>2. disturbed' \subseteq Scanning'
      BY <1>1, <2>3, <3>1, DisturbedScan
    <3> QED
      BY <2>3, <3>2, RemoveKeeps
  <2>4. ASSUME NEW k \in Keys, NEW m \in Calls, Put(k, m), pc[c] # "scan"
        PROVE  /\ order' \in Seq(Keys) /\ slot' \in [Keys -> Calls \cup {NoCall}]
               /\ disturbed' \subseteq Scanning'
    <3>1. disturbed' \subseteq disturbed \cup Scanning
      BY <2>4 DEF Put
    <3>2. disturbed' \subseteq Scanning'
      BY <1>1, <2>4, <3>1, DisturbedScan
    <3> QED
      BY <2>4, <3>2, PutKeeps
  <2>5. CASE Sweep(c)
    <3>1. pc[c] # "scan"
      BY <2>5 DEF Sweep, At
    <3> QED
      BY <2>1, <2>2, <2>5, <3>1 DEF Sweep
  <2>6. CASE Scan(c)
    <3>1. order' = order /\ slot' = slot /\ disturbed' = disturbed
      BY <2>6 DEF Scan, dict
    <3>2. disturbed' \subseteq Scanning'
      <4>1. disturbed' \subseteq disturbed \ {c}
        BY <2>6, <3>1 DEF Scan
      <4> QED
        BY <1>1, <4>1, DisturbedScan
    <3>3. todo' \in [Calls -> Seq(Keys)]
      <4>1. order \in Seq(Keys)
        BY DEF Kinds
      <4>2. Filter(order, ExpiredKeys(c)) \in Seq(Keys)
        BY <4>1, FilterPicks
      <4>3. todo' = [todo EXCEPT ![c] = Filter(order, ExpiredKeys(c))]
        BY <2>6 DEF Scan
      <4> QED
        BY <4>2, <4>3 DEF Kinds
    <3>4. at' = at /\ held' = held
      BY <2>6 DEF Scan
    <3> QED
      BY <1>1, <2>0, <3>1, <3>2, <3>3, <3>4 DEF Kinds
  <2>7. CASE ScanFails(c)
    <3>1. disturbed' \subseteq Scanning'
      <4>1. disturbed' \subseteq disturbed \ {c}
        BY <2>7 DEF ScanFails
      <4> QED
        BY <1>1, <4>1, DisturbedScan
    <3> QED
      BY <2>1, <2>7, <3>1 DEF ScanFails, Kinds
  <2>8. CASE Expire(c)
    <3>1. pc[c] # "scan" /\ at' = at /\ held' = held
      BY <2>8 DEF Expire, At
    <3>2. CASE todo[c] = <<>>
      BY <2>1, <2>2, <2>8, <3>1, <3>2 DEF Expire
    <3>3. CASE todo[c] # <<>>
      <4>1. Remove(Head(todo[c])) /\ todo' = [todo EXCEPT ![c] = Tail(todo[c])]
        BY <2>8, <3>3 DEF Expire
      <4>2. Tail(todo[c]) \in Seq(Keys)
        BY <3>3, HeadTailProperties DEF Kinds
      <4>3. todo' \in [Calls -> Seq(Keys)]
        BY <4>1, <4>2 DEF Kinds
      <4>4. /\ order' \in Seq(Keys) /\ slot' \in [Keys -> Calls \cup {NoCall}]
            /\ disturbed' \subseteq Scanning'
        BY <2>3, <3>1, <4>1
      <4> QED
        BY <1>1, <2>0, <3>1, <4>3, <4>4 DEF Kinds
    <3> QED
      BY <3>2, <3>3
  <2>9. CASE Lookup(c)
    <3>1. pc[c] # "scan" /\ at' = at /\ todo' = todo
      BY <2>9 DEF Lookup, At
    <3>2. CASE slot[key[c]] = NoCall
      BY <2>1, <2>2, <2>9, <3>1, <3>2 DEF Lookup
    <3>3. CASE slot[key[c]] # NoCall
      <4>1. Remove(key[c]) /\ held' = [held EXCEPT ![c] = slot[key[c]]]
        BY <2>9, <3>3 DEF Lookup
      <4>2. held' \in [Calls -> Calls \cup {NoCall}]
        BY <4>1 DEF Kinds
      <4>3. /\ order' \in Seq(Keys) /\ slot' \in [Keys -> Calls \cup {NoCall}]
            /\ disturbed' \subseteq Scanning'
        BY <2>3, <3>1, <4>1
      <4> QED
        BY <1>1, <2>0, <3>1, <4>2, <4>3 DEF Kinds
    <3> QED
      BY <3>2, <3>3
  <2>10. CASE Restore(c)
    <3>1. /\ pc[c] # "scan" /\ at' = at /\ todo' = todo /\ held' = held
          /\ Put(key[c], held[c])
      BY <2>10 DEF Restore, At
    <3>2. key[c] \in Keys
      BY DEF Kinds
    <3>3. held[c] \in Calls
      BY <2>10 DEF Restore, At, Entries, Answers
    <3> QED
      BY <2>1, <2>4, <3>1, <3>2, <3>3
  <2>11. CASE TooOld(c)
    <3>1. pc[c] # "scan" /\ at' = at /\ todo' = todo /\ UNCHANGED dict
      BY <2>11 DEF TooOld, At
    <3>2. held' \in [Calls -> Calls \cup {NoCall}]
      BY <2>11 DEF TooOld, Kinds
    <3> QED
      BY <1>1, <2>0, <2>2, <3>1, <3>2 DEF Kinds
  <2>12. CASE Succeed(c)
    <3>1. pc[c] # "scan" /\ held' = held /\ todo' = todo /\ UNCHANGED dict
      BY <2>12 DEF Succeed, At
    <3>2. at' \in [Calls -> 0..MaxTime]
      BY <2>12 DEF Succeed, Kinds
    <3> QED
      BY <1>1, <2>0, <2>2, <3>1, <3>2 DEF Kinds
  <2>13. CASE Fail(c)
    BY <2>1, <2>2, <2>13 DEF Fail, At
  <2>14. CASE Replace(c)
    BY <2>1, <2>3, <2>14 DEF Replace, At
  <2>15. CASE Store(c)
    <3>1. key[c] \in Keys
      BY DEF Kinds
    <3> QED
      BY <2>1, <2>4, <2>15, <3>1 DEF Store, At
  <2>16. CASE Measure(c)
    BY <2>1, <2>2, <2>16 DEF Measure, At
  <2>17. CASE Evict(c)
    <3>1. CASE order = <<>>
      BY <2>1, <2>2, <2>17, <3>1 DEF Evict, At
    <3>2. CASE order # <<>>
      BY <2>1, <2>3, <2>17, <3>2 DEF Evict, At
    <3> QED
      BY <3>1, <3>2
  <2> QED
    BY <2>5, <2>6, <2>7, <2>8, <2>9, <2>10, <2>11, <2>12, <2>13, <2>14, <2>15, <2>16, <2>17 DEF Step
<1> QED
  BY <1>2

LEMMA LinkedStep ==
  ASSUME Kinds, Linked, Entries, NEW c \in Calls, Step(c)
  PROVE  Linked'
<1>1. CASE order' = order /\ slot' = slot
  BY <1>1 DEF Linked, Members, Distinct
<1>2. CASE \E k : Remove(k)
  BY <1>2, RemoveKeeps
<1>3. CASE \E k \in Keys, m \in Calls : Put(k, m)
  BY <1>3, PutKeeps
<1>4. \/ order' = order /\ slot' = slot
      \/ \E k : Remove(k)
      \/ \E k \in Keys, m \in Calls : Put(k, m)
  <2>1. CASE Restore(c)
    <3>1. held[c] \in Calls /\ key[c] \in Keys
      BY <2>1 DEF Restore, At, Entries, Answers, Kinds
    <3> QED
      BY <2>1, <3>1 DEF Restore
  <2>2. CASE Store(c)
    <3>1. key[c] \in Keys
      BY DEF Kinds
    <3> QED
      BY <2>2, <3>1 DEF Store
  <2>3. CASE Expire(c) \/ Lookup(c) \/ Replace(c) \/ Evict(c)
    BY <2>3 DEF Expire, Lookup, Replace, Evict, dict
  <2>4. CASE \/ Sweep(c) \/ Scan(c) \/ ScanFails(c) \/ TooOld(c)
             \/ Succeed(c) \/ Fail(c) \/ Measure(c)
    BY <2>4 DEF Sweep, Scan, ScanFails, TooOld, Succeed, Fail, Measure, dict
  <2> QED
    BY <2>1, <2>2, <2>3, <2>4 DEF Step
<1> QED
  BY <1>1, <1>2, <1>3, <1>4

(* The calls that have stored their answer have done so for good. *)
LEMMA EntriesStep ==
  ASSUME Kinds, Linked, Entries, NEW c \in Calls, Step(c)
  PROVE  Entries'
<1>0. key' = key /\ now' = now
  BY DEF Step, Sweep, Scan, ScanFails, Expire, Lookup, Restore, TooOld, Succeed, Fail,
         Replace, Store, Measure, Evict
<1>1. /\ pc' \in [Calls -> Places]
      /\ \A d \in Calls \ {c} : pc'[d] = pc[d]
  BY StepMoves
<1>2. ASSUME pc[c] \in Kept => pc'[c] \in Kept
      PROVE  \A m, k : Answers(pc, m, k) => Answers(pc', m, k)
  BY <1>0, <1>1, <1>2 DEF Answers
<1>3. ASSUME pc[c] \in Kept => pc'[c] \in Kept,
             \A k \in Keys : \/ slot'[k] = slot[k]
                             \/ slot'[k] = NoCall
                             \/ Answers(pc', slot'[k], k),
             pc'[c] \in {"restore", "hit"} => Answers(pc, held'[c], key[c]),
             \A d \in Calls \ {c} : held'[d] = held[d],
             pc'[c] = "hit" => now[c] < at[held'[c]] + Ttl,
             \A m \in Calls : pc[m] \in Kept => at'[m] = at[m]
      PROVE  Entries'
  <2>1. \A k \in Keys : slot'[k] # NoCall => Answers(pc', slot'[k], k)
    BY <1>2, <1>3 DEF Entries
  <2>2. \A d \in Calls : pc'[d] \in {"restore", "hit"} => Answers(pc, held'[d], key[d])
    BY <1>1, <1>3 DEF Entries
  <2>3. \A d \in Calls : pc'[d] \in {"restore", "hit"} => Answers(pc', held'[d], key[d])
    BY <1>2, <1>3, <2>2
  <2>4. \A d \in Calls : pc'[d] = "hit" => now'[d] < at'[held'[d]] + Ttl
    <3> SUFFICES ASSUME NEW d \in Calls, pc'[d] = "hit"
                 PROVE  now'[d] < at'[held'[d]] + Ttl
      OBVIOUS
    <3>1. at'[held'[d]] = at[held'[d]]
      BY <1>3, <2>2 DEF Answers
    <3>2. now[d] < at[held'[d]] + Ttl
      BY <1>1, <1>3 DEF Entries
    <3> QED
      BY <1>0, <3>1, <3>2
  <2> QED
    BY <1>0, <2>1, <2>3, <2>4 DEF Entries, Answers
<1>4. held \in [Calls -> Calls \cup {NoCall}] /\ at \in [Calls -> 0..MaxTime] /\ key[c] \in Keys
  BY DEF Kinds
<1>5. ASSUME NEW here, NEW next \in Places, At(c, here, next)
      PROVE  pc[c] = here /\ pc'[c] = next
  BY <1>5, Moves
<1>6. ASSUME NEW k, Remove(k)
      PROVE  \A j \in Keys : slot'[j] = slot[j] \/ slot'[j] = NoCall
  BY <1>6, RemoveKeeps
<1>7. CASE Sweep(c) \/ Scan(c) \/ ScanFails(c) \/ Fail(c) \/ Measure(c)
  <2>1. held' = held /\ at' = at /\ slot' = slot
    BY <1>7 DEF Sweep, Scan, ScanFails, Fail, Measure, dict
  <2>2. (pc[c] \in Kept => pc'[c] \in Kept) /\ pc'[c] \notin {"restore", "hit"}
    BY <1>5, <1>7 DEF Sweep, Scan, ScanFails, Fail, Measure, Places, Looking, Saving, Failed, Kept
  <2> QED
    BY <1>3, <2>1, <2>2
<1>8. CASE Expire(c) \/ Replace(c) \/ Evict(c)
  <2>1. held' = held /\ at' = at /\ (UNCHANGED dict \/ \E k : Remove(k))
    BY <1>8 DEF Expire, Replace, Evict
  <2>2. \A k \in Keys : slot'[k] = slot[k] \/ slot'[k] = NoCall
    BY <1>6, <2>1 DEF dict
  <2>3. (pc[c] \in Kept => pc'[c] \in Kept) /\ pc'[c] \notin {"restore", "hit"}
    BY <1>5, <1>8 DEF Expire, Replace, Evict, Places, Looking, Saving, Failed, Kept
  <2> QED
    BY <1>3, <2>1, <2>2, <2>3
<1>9. CASE Lookup(c)
  <2>1. CASE slot[key[c]] = NoCall
    <3>1. held' = held /\ at' = at /\ slot' = slot
      BY <1>9, <2>1 DEF Lookup, dict
    <3>2. pc[c] \notin Kept /\ pc'[c] \notin {"restore", "hit"}
      BY <1>5, <1>9, <2>1 DEF Lookup, Places, Looking, Saving, Failed, Kept
    <3> QED
      BY <1>3, <3>1, <3>2
  <2>2. CASE slot[key[c]] # NoCall
    <3>1. held' = [held EXCEPT ![c] = slot[key[c]]] /\ at' = at /\ Remove(key[c])
      BY <1>9, <2>2 DEF Lookup
    <3>2. pc[c] \notin Kept /\ pc'[c] = "restore"
      BY <1>5, <1>9, <2>2 DEF Lookup, Places, Looking, Saving, Failed, Kept
    <3>3. Answers(pc, held'[c], key[c]) /\ \A d \in Calls \ {c} : held'[d] = held[d]
      BY <1>4, <2>2, <3>1 DEF Entries
    <3> QED
      BY <1>3, <1>6, <3>1, <3>2, <3>3
  <2> QED
    BY <2>1, <2>2
<1>10. CASE Restore(c)
  <2>1. held' = held /\ at' = at /\ Put(key[c], held[c]) /\ now[c] < at[held[c]] + Ttl
    BY <1>10 DEF Restore, StillFresh
  <2>2. pc[c] = "restore" /\ pc'[c] = "hit" /\ pc[c] \notin Kept
    BY <1>5, <1>10 DEF Restore, Places, Kept
  <2>3. Answers(pc, held[c], key[c])
    BY <2>2 DEF Entries
  <2>4. \A k \in Keys : slot'[k] = slot[k] \/ Answers(pc', slot'[k], k)
    <3>1. \A k \in Keys : slot'[k] = IF k = key[c] THEN held[c] ELSE slot[k]
      BY <1>4, <2>1, <2>3, PutKeeps DEF Answers
    <3> QED
      BY <1>2, <2>2, <2>3, <3>1
  <2> QED
    BY <1>3, <2>1, <2>2, <2>3, <2>4
<1>11. CASE TooOld(c)
  <2>1. held' = [held EXCEPT ![c] = NoCall] /\ at' = at /\ slot' = slot
    BY <1>11 DEF TooOld, dict
  <2>2. pc[c] \notin Kept /\ pc'[c] \notin {"restore", "hit"}
    BY <1>5, <1>11 DEF TooOld, Places, Kept
  <2> QED
    BY <1>3, <1>4, <2>1, <2>2
<1>12. CASE Succeed(c)
  <2>1. held' = held /\ at' = [at EXCEPT ![c] = clock] /\ slot' = slot
    BY <1>12 DEF Succeed, dict
  <2>2. pc[c] \notin Kept /\ pc'[c] \notin {"restore", "hit"}
    BY <1>5, <1>12 DEF Succeed, Places, Saving, Kept
  <2> QED
    BY <1>3, <1>4, <2>1, <2>2
<1>13. CASE Store(c)
  <2>1. held' = held /\ at' = at /\ Put(key[c], c)
    BY <1>13 DEF Store
  <2>2. pc[c] \notin Kept /\ pc'[c] = "measure"
    BY <1>5, <1>13 DEF Store, Places, Saving, Kept
  <2>3. Answers(pc', c, key[c])
    BY <2>2 DEF Answers, Kept
  <2>4. \A k \in Keys : slot'[k] = slot[k] \/ Answers(pc', slot'[k], k)
    <3>1. \A k \in Keys : slot'[k] = IF k = key[c] THEN c ELSE slot[k]
      BY <1>4, <2>1, PutKeeps
    <3> QED
      BY <2>3, <3>1
  <2> QED
    BY <1>3, <2>1, <2>2, <2>4
<1> QED
  BY <1>7, <1>8, <1>9, <1>10, <1>11, <1>12, <1>13 DEF Step

-----------------------------------------------------------------------------
(* The number of calls, and of entries. *)

LEMMA OccupiedStep ==
  ASSUME Kinds, Occupied, NEW c \in Calls, Step(c)
  PROVE  Occupied'
<1>1. Active' \subseteq Active
  BY StepMoves DEF Active
<1> QED
  BY <1>1, FS_Subset, FS_CardinalityType, BoundsAssumption DEF Occupied

LEMMA OccupiedBegin ==
  ASSUME Kinds, Occupied, NEW c \in Calls, Begin(c)
  PROVE  Occupied'
<1>1. Cardinality(Active) \in Nat /\ Cardinality(Active) < MaxActive /\ IsFiniteSet(Active)
  BY FS_CardinalityType DEF Occupied, Begin
<1>2. \A d \in Calls \ {c} : pc'[d] = pc[d]
  BY DEF Begin, At, Goto, Kinds
<1>3. Active' \subseteq Active \cup {c}
  BY <1>2 DEF Active
<1>4. /\ IsFiniteSet(Active \cup {c})
      /\ Cardinality(Active \cup {c}) \in Nat
      /\ Cardinality(Active \cup {c}) <= MaxActive
  BY <1>1, FS_AddElement, BoundsAssumption
<1>5. /\ IsFiniteSet(Active')
      /\ Cardinality(Active') <= Cardinality(Active \cup {c})
      /\ Cardinality(Active') \in Nat
  BY <1>3, <1>4, FS_Subset, FS_CardinalityType
<1> QED
  BY <1>1, <1>4, <1>5, BoundsAssumption DEF Occupied

(* A call that is done evicting leaves room for the others. *)
LEMMA OthersFit ==
  ASSUME Occupied, NEW c \in Active, pc[c] # "restore"
  PROVE  /\ IsFiniteSet(InHand)
         /\ Cardinality(InHand) \in Nat
         /\ Cardinality(InHand) <= MaxActive - 1
<1>1. /\ IsFiniteSet(Active \ {c})
      /\ Cardinality(Active \ {c}) = Cardinality(Active) - 1
      /\ Cardinality(Active) \in Nat
  BY FS_RemoveElement, FS_CardinalityType DEF Occupied
<1>2. InHand \subseteq Active \ {c}
  BY DEF InHand, Active, Looking
<1>3. /\ IsFiniteSet(InHand)
      /\ Cardinality(InHand) <= Cardinality(Active \ {c})
  BY <1>1, <1>2, FS_Subset
<1> QED
  BY <1>1, <1>3, FS_CardinalityType, BoundsAssumption DEF Occupied

LEMMA BudgetStep ==
  ASSUME Kinds, Linked, Entries, Occupied, Budget, NEW c \in Calls, Step(c)
  PROVE  Budget'
<1> SUFFICES ASSUME MaxEntries > 0, Evicting' = {}
             PROVE  Len(order') + Cardinality(InHand') <= MaxEntries + MaxActive - 1
  BY DEF Budget
<1>1. /\ pc' \in [Calls -> Places]
      /\ \A d \in Calls \ {c} : pc'[d] = pc[d]
      /\ pc[c] \in Looking \cup Saving \cup {"run"}
  BY StepMoves
<1>2. IsFiniteSet(InHand) /\ Cardinality(InHand) \in Nat
  <2>1. InHand \subseteq Active
    BY DEF InHand, Active, Looking
  <2> QED
    BY <2>1, FS_Subset, FS_CardinalityType DEF Occupied
<1>3. order \in Seq(Keys) /\ Len(order) \in Nat /\ key[c] \in Keys
  BY LenProperties DEF Kinds
<1>4. MaxEntries \in Nat /\ MaxActive \in Nat
  BY BoundsAssumption
<1>5. ASSUME NEW here, NEW next \in Places, At(c, here, next)
      PROVE  pc[c] = here /\ pc'[c] = next
  BY <1>5, Moves
<1>6. pc'[c] \notin {"measure", "evict"}
  BY DEF Evicting
<1>7. ASSUME pc[c] \notin {"measure", "evict"}
      PROVE  Len(order) + Cardinality(InHand) <= MaxEntries + MaxActive - 1
  <2>1. Evicting = {}
    BY <1>1, <1>7 DEF Evicting
  <2> QED
    BY <2>1 DEF Budget
<1>8. ASSUME pc[c] # "restore", pc'[c] # "restore"
      PROVE  InHand' = InHand
  BY <1>1, <1>8 DEF InHand
<1>9. ASSUME pc[c] = "restore", pc'[c] # "restore"
      PROVE  Cardinality(InHand') = Cardinality(InHand) - 1
  <2>1. InHand' = InHand \ {c} /\ c \in InHand
    BY <1>1, <1>9 DEF InHand
  <2> QED
    BY <1>2, <2>1, FS_RemoveElement
<1>10. CASE Sweep(c) \/ Scan(c) \/ ScanFails(c) \/ Succeed(c) \/ Fail(c)
  <2>1. order' = order
    BY <1>10 DEF Sweep, Scan, ScanFails, Succeed, Fail, dict
  <2>2. pc[c] \notin {"measure", "evict", "restore"} /\ pc'[c] # "restore"
    BY <1>5, <1>10 DEF Sweep, Scan, ScanFails, Succeed, Fail, Places, Looking, Saving, Failed
  <2> QED
    BY <1>7, <1>8, <2>1, <2>2
<1>11. CASE Expire(c) \/ Replace(c)
  <2>1. UNCHANGED dict \/ \E k : Remove(k)
    BY <1>11 DEF Expire, Replace
  <2>2. Len(order') <= Len(order) /\ Len(order') \in Nat
    BY <1>3, <2>1, RemoveKeeps DEF dict
  <2>3. pc[c] \notin {"measure", "evict", "restore"} /\ pc'[c] # "restore"
    BY <1>5, <1>11 DEF Expire, Replace, Places, Looking, Saving
  <2> QED
    BY <1>2, <1>3, <1>4, <1>7, <1>8, <2>2, <2>3
<1>12. CASE Lookup(c)
  <2>1. CASE slot[key[c]] = NoCall
    <3>1. order' = order
      BY <1>12, <2>1 DEF Lookup, dict
    <3>2. pc[c] = "lookup" /\ pc'[c] = "run"
      BY <1>5, <1>12, <2>1 DEF Lookup, Places
    <3> QED
      BY <1>7, <1>8, <3>1, <3>2
  <2>2. CASE slot[key[c]] # NoCall
    <3>1. Len(order') < Len(order) /\ Len(order') \in Nat
      BY <1>3, <1>12, <2>2, RemoveKeeps DEF Lookup
    <3>2. pc[c] = "lookup" /\ pc'[c] = "restore"
      BY <1>5, <1>12, <2>2 DEF Lookup, Places, Looking
    <3>3. InHand' = InHand \cup {c} /\ c \notin InHand
      BY <1>1, <3>2 DEF InHand
    <3>4. Cardinality(InHand') = Cardinality(InHand) + 1
      BY <1>2, <3>3, FS_AddElement
    <3> QED
      BY <1>2, <1>3, <1>4, <1>7, <3>1, <3>2, <3>4
  <2> QED
    BY <2>1, <2>2
<1>13. CASE Restore(c)
  <2>1. pc[c] = "restore" /\ pc'[c] = "hit"
    BY <1>5, <1>13 DEF Restore, Places
  <2>2. held[c] \in Calls
    BY <2>1 DEF Entries, Answers
  <2>3. Len(order') <= Len(order) + 1 /\ Len(order') \in Nat
    BY <1>3, <1>13, <2>2, PutKeeps DEF Restore
  <2> QED
    BY <1>2, <1>3, <1>4, <1>7, <1>9, <2>1, <2>3
<1>14. CASE TooOld(c)
  <2>1. pc[c] = "restore" /\ pc'[c] = "run" /\ order' = order
    BY <1>5, <1>14 DEF TooOld, Places, dict
  <2> QED
    BY <1>2, <1>3, <1>4, <1>7, <1>9, <2>1
<1>15. CASE Store(c)
  <2>1. pc'[c] = "measure"
    BY <1>5, <1>15 DEF Store, Places, Saving
  <2> QED
    BY <1>6, <2>1
<1>16. CASE Measure(c)
  <2>1. /\ pc[c] = "measure"
        /\ pc'[c] = IF Len(order) > MaxEntries THEN "evict" ELSE "stored"
        /\ order' = order
    BY <1>5, <1>16 DEF Measure, Places, Saving, dict
  <2>2. Len(order) <= MaxEntries
    BY <1>3, <1>4, <1>6, <2>1
  <2>3. Cardinality(InHand) <= MaxActive - 1
    BY <2>1, OthersFit DEF Active, Saving
  <2>4. InHand' = InHand
    BY <1>6, <1>8, <2>1
  <2> QED
    BY <1>2, <1>3, <1>4, <2>1, <2>2, <2>3, <2>4
<1>17. CASE Evict(c)
  <2>1. pc[c] = "evict" /\ order = <<>> /\ order' = order /\ pc'[c] = "KeyError"
    BY <1>5, <1>6, <1>17 DEF Evict, Places, Saving, Failed, dict
  <2>2. Len(order) = 0
    BY <2>1
  <2>3. Cardinality(InHand) <= MaxActive - 1
    BY <2>1, OthersFit DEF Active, Saving
  <2>4. InHand' = InHand
    BY <1>8, <2>1
  <2> QED
    BY <1>2, <1>3, <1>4, <2>1, <2>2, <2>3, <2>4
<1> QED
  BY <1>10, <1>11, <1>12, <1>13, <1>14, <1>15, <1>16, <1>17 DEF Step

-----------------------------------------------------------------------------
LEMMA CacheInvInit == Init => CacheInv
<1> SUFFICES ASSUME Init PROVE CacheInv
  OBVIOUS
<1>1. Len(order) = 0 /\ order \in Seq(Keys) /\ 1..0 = {}
  BY EmptySeq DEF Init
<1>2. Kinds
  BY <1>1, BoundsAssumption DEF Init, Kinds, Places, Scanning
<1>3. Linked
  BY <1>1 DEF Init, Linked, Distinct, Members
<1>4. Entries
  BY DEF Init, Entries
<1>5. Active = {} /\ InHand = {}
  BY DEF Init, Active, InHand, Looking, Saving
<1>6. Occupied
  BY <1>5, FS_EmptySet, BoundsAssumption DEF Occupied
<1>7. Budget
  BY <1>1, <1>5, FS_EmptySet, BoundsAssumption DEF Budget
<1> QED
  BY <1>2, <1>3, <1>4, <1>6, <1>7 DEF CacheInv

(* A call that begins, and the clock, leave the dictionary alone.          *)
LEMMA BeginKeeps ==
  ASSUME Kinds, Linked, Entries, NEW c \in Calls,
         At(c, "new", IF CacheEnabled THEN "sweep" ELSE "run"),
         now' = [now EXCEPT ![c] = clock], UNCHANGED <<clock, key, at, dict, todo, held>>
  PROVE  /\ Kinds' /\ Linked' /\ Entries'
         /\ pc[c] = "new" /\ pc'[c] = IF CacheEnabled THEN "sweep" ELSE "run"
         /\ \A d \in Calls \ {c} : pc'[d] = pc[d]
         /\ Scanning' = Scanning /\ InHand' = InHand /\ Evicting' = Evicting
<1>1. /\ clock' = clock /\ key' = key /\ at' = at /\ todo' = todo /\ held' = held
      /\ order' = order /\ slot' = slot /\ disturbed' = disturbed
      /\ now' = [now EXCEPT ![c] = clock]
  BY DEF dict
<1>2. /\ pc[c] = "new"
      /\ pc' \in [Calls -> Places]
      /\ pc'[c] = IF CacheEnabled THEN "sweep" ELSE "run"
      /\ \A d \in Calls \ {c} : pc'[d] = pc[d]
  BY DEF At, Goto, Kinds, Places, Looking
<1>3. Scanning' = Scanning /\ InHand' = InHand /\ Evicting' = Evicting
  BY <1>2 DEF Scanning, InHand, Evicting
<1>4. Kinds'
  BY <1>1, <1>2, <1>3 DEF Kinds
<1>5. Linked'
  BY <1>1 DEF Linked, Members, Distinct
<1>6. Entries'
  <2>1. \A m, k : Answers(pc, m, k) => Answers(pc', m, k)
    BY <1>2 DEF Answers, Kept
  <2>2. \A d \in Calls : pc'[d] \in {"restore", "hit"} => d # c /\ pc[d] = pc'[d]
    BY <1>2
  <2>3. \A d \in Calls \ {c} : now'[d] = now[d]
    BY <1>1 DEF Kinds
  <2> QED
    BY <1>1, <2>1, <2>2, <2>3 DEF Entries, Answers
<1> QED
  BY <1>2, <1>3, <1>4, <1>5, <1>6

LEMMA IdleKeeps ==
  ASSUME Kinds, Linked, Entries, Tick \/ UNCHANGED vars
  PROVE  Kinds' /\ Linked' /\ Entries'
<1>1. /\ pc' = pc /\ key' = key /\ now' = now /\ at' = at /\ todo' = todo /\ held' = held
      /\ order' = order /\ slot' = slot /\ disturbed' = disturbed
  BY DEF Tick, vars, dict
<1>2. clock' \in 0..MaxTime
  BY BoundsAssumption DEF Tick, vars, Kinds
<1> QED
  BY <1>1, <1>2 DEF Kinds, Linked, Entries, Scanning, Members, Distinct, Answers

LEMMA CacheInvNext == CacheInv /\ [Next]_vars => CacheInv'
<1> SUFFICES ASSUME CacheInv, [Next]_vars PROVE CacheInv'
  OBVIOUS
<1> USE DEF CacheInv
<1>1. CASE \E c \in Calls : Step(c)
  BY <1>1, KindsStep, LinkedStep, EntriesStep, OccupiedStep, BudgetStep
<1>2. ASSUME NEW c \in Calls, Begin(c)
      PROVE  CacheInv'
  <2>1. Kinds' /\ Linked' /\ Entries' /\ InHand' = InHand /\ Evicting' = Evicting
    BY <1>2, BeginKeeps DEF Begin
  <2>2. Occupied'
    BY <1>2, OccupiedBegin
  <2>3. Budget'
    BY <1>2, <2>1 DEF Budget, Begin, dict
  <2> QED
    BY <2>1, <2>2, <2>3
<1>3. CASE Tick \/ UNCHANGED vars
  BY <1>3, IdleKeeps DEF Tick, vars, dict, Occupied, Budget, Active, InHand, Evicting
<1> QED
  BY <1>1, <1>2, <1>3 DEF Next

LEMMA CacheInvHolds == Spec => []CacheInv
BY CacheInvInit, CacheInvNext, PTL DEF Spec

LEMMA KindsAreTypes == Kinds /\ Linked => TypeOK
<1> SUFFICES ASSUME Kinds, Linked PROVE TypeOK
  OBVIOUS
<1>1. Cardinality(Members(order)) = Len(order)
  BY DistinctLength DEF Kinds, Linked, Members
<1>2. Len(order) = Cardinality({k \in Keys : slot[k] # NoCall})
  BY <1>1 DEF Linked
<1> QED
  BY <1>2 DEF Kinds, Linked, Members, TypeOK, Places

(* Every variable of the cache holds values of its kind, and the order of  *)
(* the dictionary is an order of its keys.                                 *)
THEOREM CacheTypes == Spec => []TypeOK
BY KindsAreTypes, CacheInvHolds, PTL DEF CacheInv

(* Whatever the calls take out of the cache and put back behind each       *)
(* other's backs, a hit is an answer to the call's own key, younger than   *)
(* the TTL when the call began (answer, _cleanup_expired_cache).           *)
THEOREM HitsAreFresh == Spec => []HitIsFresh
<1>1. CacheInv => HitIsFresh
  BY DEF CacheInv, Entries, Answers, HitIsFresh
<1> QED
  BY <1>1, CacheInvHolds, PTL

(* The races of hits with evictions (_upsert_cache) exceed the bound of    *)
(* the cache by no more than one entry for each other overlapping call.    *)
THEOREM SizeIsBounded == Spec => []SizeBound
<1>1. CacheInv => SizeBound
  <2> SUFFICES ASSUME CacheInv, MaxEntries > 0,
                      \A c \in Calls : pc[c] \notin {"restore", "measure", "evict"}
               PROVE  Len(order) <= MaxEntries + MaxActive - 1
    BY DEF SizeBound
  <2>1. InHand = {} /\ Evicting = {}
    BY DEF InHand, Evicting
  <2>2. Len(order) + 0 <= MaxEntries + MaxActive - 1
    BY <2>1, FS_EmptySet DEF CacheInv, Budget
  <2>3. Len(order) \in Nat
    BY LenProperties DEF CacheInv, Kinds
  <2> QED
    BY <2>2, <2>3
<1> QED
  BY <1>1, CacheInvHolds, PTL

-----------------------------------------------------------------------------
(* One call at a time. *)

LoopInv ==
  MaxActive = 1 =>
    /\ disturbed = {}
    /\ \A c \in Calls : pc[c] = "evict" => order # <<>>
    /\ \A c \in Calls : pc[c] \notin Failed

LEMMA AloneStep ==
  ASSUME Kinds, Occupied, MaxActive = 1, NEW c \in Calls, Step(c)
  PROVE  \A d \in Calls : pc[d] = "scan" \/ pc[d] = "evict" => d = c
<1>1. c \in Active
  BY StepMoves DEF Active
<1>2. Cardinality(Active \ {c}) = Cardinality(Active) - 1 /\ IsFiniteSet(Active \ {c})
  BY <1>1, FS_RemoveElement DEF Occupied
<1>3. Cardinality(Active) \in Nat /\ Cardinality(Active \ {c}) \in Nat
  BY <1>2, FS_CardinalityType DEF Occupied
<1>4. Active \ {c} = {}
  BY <1>2, <1>3, FS_EmptySet DEF Occupied
<1> QED
  BY <1>4 DEF Active, Looking, Saving

LEMMA LoopStep ==
  ASSUME Kinds, Occupied, LoopInv, NEW c \in Calls, Step(c)
  PROVE  LoopInv'
<1> SUFFICES ASSUME MaxActive = 1
             PROVE  /\ disturbed' = {}
                    /\ \A d \in Calls : pc'[d] = "evict" => order' # <<>>
                    /\ \A d \in Calls : pc'[d] \notin Failed
  BY DEF LoopInv
<1>1. \A d \in Calls : pc[d] = "scan" \/ pc[d] = "evict" => d = c
  BY AloneStep
<1>2. /\ pc' \in [Calls -> Places]
      /\ \A d \in Calls \ {c} : pc'[d] = pc[d]
  BY StepMoves
<1>3. /\ disturbed = {}
      /\ \A d \in Calls : pc[d] = "evict" => order # <<>>
      /\ \A d \in Calls : pc[d] \notin Failed
  BY DEF LoopInv
<1>4. ASSUME NEW here, NEW next \in Places, At(c, here, next)
      PROVE  pc[c] = here /\ pc'[c] = next
  BY <1>4, Moves
<1>5. pc[c] # "scan" => Scanning = {}
  BY <1>1 DEF Scanning
<1>6. ASSUME pc'[c] \notin Failed, pc'[c] = "evict" => order' # <<>>, disturbed' = {}
      PROVE  /\ disturbed' = {}
             /\ \A d \in Calls : pc'[d] = "evict" => order' # <<>>
             /\ \A d \in Calls : pc'[d] \notin Failed
  BY <1>1, <1>2, <1>3, <1>6
<1>7. CASE Sweep(c) \/ Scan(c) \/ TooOld(c) \/ Succeed(c) \/ Fail(c)
  <2>1. pc'[c] \notin Failed \cup {"evict"}
    BY <1>4, <1>7 DEF Sweep, Scan, TooOld, Succeed, Fail, Places, Looking, Saving, Failed
  <2>2. disturbed' = disturbed
    BY <1>7 DEF Sweep, Scan, TooOld, Succeed, Fail, dict
  <2> QED
    BY <1>3, <1>6, <2>1, <2>2
<1>8. CASE ScanFails(c)
  BY <1>3, <1>8 DEF ScanFails
<1>9. CASE Expire(c) \/ Lookup(c) \/ Restore(c) \/ Replace(c) \/ Store(c)
  <2>1. pc[c] # "scan" /\ pc'[c] \notin Failed \cup {"evict"}
    BY <1>4, <1>9 DEF Expire, Lookup, Restore, Replace, Store, Places, Looking, Saving, Failed
  <2>2. disturbed' \subseteq disturbed \cup Scanning
    BY <1>9 DEF Expire, Lookup, Restore, Replace, Store, Remove, Put, dict
  <2> QED
    BY <1>3, <1>5, <1>6, <2>1, <2>2
<1>10. CASE Measure(c)
  <2>1. pc'[c] = (IF MaxEntries > 0 /\ Len(order) > MaxEntries THEN "evict" ELSE "stored")
    BY <1>4, <1>10 DEF Measure, Places, Saving
  <2>2. order' = order /\ disturbed' = disturbed
    BY <1>10 DEF Measure, dict
  <2>3. Len(order) > MaxEntries /\ MaxEntries > 0 => order # <<>>
    BY BoundsAssumption
  <2> QED
    BY <1>3, <1>6, <2>1, <2>2, <2>3 DEF Failed
<1>11. CASE Evict(c)
  <2>1. order # <<>> /\ pc[c] = "evict"
    BY <1>3, <1>11 DEF Evict, At
  <2>2. Remove(Head(order)) /\ pc'[c] = "measure"
    BY <1>4, <1>11, <2>1 DEF Evict, Places, Saving
  <2>3. disturbed' \subseteq disturbed \cup Scanning
    BY <2>2 DEF Remove
  <2> QED
    BY <1>3, <1>5, <1>6, <2>1, <2>2, <2>3 DEF Failed
<1> QED
  BY <1>7, <1>8, <1>9, <1>10, <1>11 DEF Step

(* The sweep does not disturb itself and an eviction finds something to    *)
(* evict, so that no call of the event loop fails in the cache; that the   *)
(* threads of /query/stream do is what ScanFails and Evict allow.          *)
THEOREM LoopIsSafe == Spec => []LoopNeverFails
<1>1. Init => LoopInv
  BY DEF Init, LoopInv, Failed
<1>2. CacheInv /\ LoopInv /\ [Next]_vars => LoopInv'
  <2> SUFFICES ASSUME CacheInv, LoopInv, [Next]_vars PROVE LoopInv'
    OBVIOUS
  <2>1. CASE \E c \in Calls : Step(c)
    BY <2>1, LoopStep DEF CacheInv
  <2>2. ASSUME NEW c \in Calls, Begin(c)
        PROVE  LoopInv'
    <3>1. order' = order /\ disturbed' = disturbed
      BY <2>2 DEF Begin, dict
    <3>2. pc'[c] \in {"sweep", "run"} /\ \A d \in Calls \ {c} : pc'[d] = pc[d]
      BY <2>2 DEF Begin, At, Goto, CacheInv, Kinds
    <3> QED
      BY <3>1, <3>2 DEF LoopInv, Failed
  <2>3. CASE Tick \/ UNCHANGED vars
    BY <2>3 DEF Tick, vars, dict, LoopInv
  <2> QED
    BY <2>1, <2>2, <2>3 DEF Next
<1>3. LoopInv => LoopNeverFails
  BY DEF LoopInv, LoopNeverFails
<1> QED
  BY <1>1, <1>2, <1>3, CacheInvHolds, PTL DEF Spec

-----------------------------------------------------------------------------
(* The cache that is used alone: Alone is the module of the cache with     *)
(* other bounds, and all that depends on them is when a call may begin and *)
(* when it goes on to evict.                                               *)
(* The cache that is used alone may keep n entries.                        *)
Fits(n) == ~(AloneEntries > 0 /\ n > AloneEntries)

LEMMA FitsLess ==
  /\ AloneEntries \in Nat
  /\ Fits(0)
  /\ \A m, n \in Nat : m <= n /\ Fits(n) => Fits(m)
<1>1. AloneEntries \in Nat
  BY PartsAssumption DEF Alone!BoundsAssumption
<1> QED
  BY <1>1 DEF Fits

LEMMA FitsNot ==
  ASSUME NEW n \in Nat, ~Fits(n)
  PROVE  AloneEntries \in Nat \ {0} /\ n > AloneEntries
BY FitsLess DEF Fits

(* What there is room for is shown whole. *)
LEMMA FitsWhole ==
  ASSUME NEW R, NEW s \in Seq(R), Fits(Len(s))
  PROVE  LastN(s, AloneEntries) = s
<1>1. Len(s) \in Nat /\ AloneEntries \in Nat
  BY LenProperties, FitsLess
<1>2. AloneEntries = 0 \/ Len(s) <= AloneEntries
  BY <1>1 DEF Fits
<1> QED
  BY <1>2 DEF LastN

LEMMA AloneActs ==
  ASSUME NEW c \in Calls
  PROVE  /\ Alone!Step(c) => \/ Sweep(c) \/ Scan(c) \/ ScanFails(c) \/ Expire(c) \/ Lookup(c)
                            \/ Restore(c) \/ TooOld(c) \/ Succeed(c) \/ Fail(c)
                            \/ Replace(c) \/ Store(c) \/ Alone!Measure(c) \/ Evict(c)
         /\ Alone!Measure(c) => /\ At(c, "measure", IF ~Fits(Len(order)) THEN "evict" ELSE "stored")
                               /\ UNCHANGED <<clock, key, now, at, dict, todo, held>>
         /\ Alone!Begin(c) => /\ Cardinality(Active) < 1
                             /\ At(c, "new", IF CacheEnabled THEN "sweep" ELSE "run")
                             /\ now' = [now EXCEPT ![c] = clock]
                             /\ UNCHANGED <<clock, key, at, dict, todo, held>>
<1> USE DEF Alone!At, At, Alone!Goto, Goto, Alone!dict, dict
<1>1. /\ Alone!Sweep(c) => Sweep(c)
      /\ Alone!ScanFails(c) => ScanFails(c)
      /\ Alone!Succeed(c) => Succeed(c)
      /\ Alone!Fail(c) => Fail(c)
  BY DEF Alone!Sweep, Sweep, Alone!ScanFails, ScanFails, Alone!Succeed, Succeed, Alone!Fail, Fail
<1>2. Alone!Scan(c) => Scan(c)
  BY DEF Alone!Scan, Scan, Alone!ExpiredKeys, ExpiredKeys, Alone!Filter, Filter
<1>3. ASSUME NEW k, Alone!Remove(k) PROVE Remove(k)
  BY <1>3 DEF Alone!Remove, Remove, Alone!Scanning, Scanning, Alone!Filter, Filter
<1>4. ASSUME NEW k, NEW m, Alone!Put(k, m) PROVE Put(k, m)
  BY <1>4 DEF Alone!Put, Put, Alone!Scanning, Scanning
<1>5. /\ Alone!Expire(c) => Expire(c)
      /\ Alone!Lookup(c) => Lookup(c)
      /\ Alone!Replace(c) => Replace(c)
      /\ Alone!Evict(c) => Evict(c)
  BY <1>3 DEF Alone!Expire, Expire, Alone!Lookup, Lookup, Alone!Replace, Replace, Alone!Evict, Evict
<1>6. /\ Alone!Restore(c) => Restore(c)
      /\ Alone!TooOld(c) => TooOld(c)
      /\ Alone!Store(c) => Store(c)
  BY <1>4 DEF Alone!Restore, Restore, Alone!TooOld, TooOld, Alone!Store, Store,
              Alone!StillFresh, StillFresh
<1>7. /\ Alone!Measure(c) => /\ At(c, "measure", IF ~Fits(Len(order)) THEN "evict" ELSE "stored")
                            /\ UNCHANGED <<clock, key, now, at, dict, todo, held>>
      /\ Alone!Begin(c) => /\ Cardinality(Active) < 1
                          /\ At(c, "new", IF CacheEnabled THEN "sweep" ELSE "run")
                          /\ now' = [now EXCEPT ![c] = clock]
                          /\ UNCHANGED <<clock, key, at, dict, todo, held>>
  BY DEF Alone!Measure, Alone!Begin, Alone!Active, Active, Alone!Looking, Looking,
         Alone!Saving, Saving, Alone!Cardinality, Cardinality, Fits
<1> QED
  BY <1>1, <1>2, <1>5, <1>6, <1>7 DEF Alone!Step

LEMMA MeasureKeeps ==
  ASSUME Kinds, Linked, Entries, NEW c \in Calls, NEW next \in {"evict", "stored"},
         At(c, "measure", next), UNCHANGED <<clock, key, now, at, dict, todo, held>>
  PROVE  Kinds' /\ Linked' /\ Entries'
<1>1. /\ clock' = clock /\ key' = key /\ at' = at /\ todo' = todo /\ held' = held
      /\ order' = order /\ slot' = slot /\ disturbed' = disturbed /\ now' = now
  BY DEF dict
<1>2. /\ pc[c] = "measure" /\ pc' \in [Calls -> Places] /\ pc'[c] = next
      /\ \A d \in Calls \ {c} : pc'[d] = pc[d]
  BY DEF At, Goto, Kinds, Places, Saving
<1>3. Scanning' = Scanning
  BY <1>2 DEF Scanning
<1>4. \A m, k : Answers(pc, m, k) => Answers(pc', m, k)
  BY <1>2 DEF Answers, Kept
<1>5. \A d \in Calls : pc'[d] \in {"restore", "hit"} => pc[d] = pc'[d]
  BY <1>2
<1>6. Entries'
  BY <1>1, <1>4, <1>5 DEF Entries, Answers
<1> QED
  BY <1>1, <1>2, <1>3, <1>6 DEF Kinds, Linked, Members, Distinct

LEMMA EitherKeeps ==
  Kinds /\ Linked /\ Entries /\ [MemoryNext]_memoryVars => Kinds' /\ Linked' /\ Entries'
<1> SUFFICES ASSUME Kinds, Linked, Entries, [MemoryNext]_memoryVars
             PROVE  Kinds' /\ Linked' /\ Entries'
  OBVIOUS
<1>1. CASE UNCHANGED vars
  BY <1>1, IdleKeeps
<1>2. CASE Next
  BY <1>2, KindsStep, LinkedStep, EntriesStep, BeginKeeps, IdleKeeps DEF Next, Begin
<1>3. CASE Alone!Next
  <2>1. ASSUME NEW c \in Calls, Alone!Begin(c) PROVE Kinds' /\ Linked' /\ Entries'
    BY <2>1, AloneActs, BeginKeeps
  <2>2. ASSUME NEW c \in Calls, Alone!Measure(c) PROVE Kinds' /\ Linked' /\ Entries'
    BY <2>2, AloneActs, MeasureKeeps
  <2>3. ASSUME NEW c \in Calls, Alone!Step(c) PROVE Kinds' /\ Linked' /\ Entries'
    <3>1. Step(c) \/ Alone!Measure(c)
      BY <2>3, AloneActs DEF Step
    <3> QED
      BY <2>2, <3>1, KindsStep, LinkedStep, EntriesStep
  <2>4. Alone!Tick => Tick
    BY DEF Alone!Tick, Tick, Alone!dict, dict
  <2> QED
    BY <1>3, <2>1, <2>3, <2>4, IdleKeeps DEF Alone!Next
<1> QED
  BY <1>1, <1>2, <1>3 DEF MemoryNext, memoryVars

LEMMA EitherHolds == MemorySpec => [](Kinds /\ Linked /\ Entries)
<1>1. MemoryInit => Kinds /\ Linked /\ Entries
  BY CacheInvInit DEF MemoryInit, CacheInv
<1> QED
  BY <1>1, EitherKeeps, PTL DEF MemorySpec

(* What the calls of a cache used alone have established when they are     *)
(* somewhere: the sweep leaves no expired entry to the lookup, nor the     *)
(* lookup an entry under its key.                                          *)
Expired(c, k) == slot[k] # NoCall /\ now[c] >= at[slot[k]] + Ttl

OnItsWay(c) ==
  /\ pc[c] \notin Failed
  /\ now[c] <= clock
  /\ pc[c] = "expire" =>
       /\ \A k \in Members(todo[c]) : slot[k] # NoCall => Expired(c, k)
       /\ \A k \in Keys : Expired(c, k) => k \in Members(todo[c])
  /\ pc[c] = "lookup" => \A k \in Keys : ~Expired(c, k)
  /\ pc[c] = "restore" => StillFresh(c) /\ Fits(Len(order) + 1)
  /\ pc[c] \in {"replace", "store", "restore"} \/ (pc[c] = "run" /\ CacheEnabled)
       => slot[key[c]] = NoCall
  /\ pc[c] = "evict" => ~Fits(Len(order))

Single == \A c, d \in Active : c = d

AloneInv ==
  part = "cacheAlone" =>
    /\ Single /\ disturbed = {}
    /\ \A c \in Calls : OnItsWay(c)
    /\ Evicting = {} => Fits(Len(order))

LEMMA AloneInvInit ==
  ASSUME MemoryInit PROVE AloneInv
<1>1. /\ order = <<>> /\ disturbed = {} /\ clock = 0
      /\ \A c \in Calls : pc[c] = "new" /\ now[c] = 0
  BY DEF MemoryInit, Init
<1>2. Active = {} /\ Len(order) = 0
  BY <1>1 DEF Active, Looking, Saving
<1> QED
  BY <1>1, <1>2, FitsLess DEF AloneInv, Single, OnItsWay, Failed

(* While a call of an unshared cache acts, no other one is under way.      *)
LEMMA SingleStep ==
  ASSUME Kinds, Single, NEW c \in Calls, NEW here \in Looking \cup Saving \cup {"run"},
         NEW next \in Places, At(c, here, next)
  PROVE  /\ Single'
         /\ pc[c] = here /\ pc'[c] = next
         /\ \A d \in Calls \ {c} : pc'[d] = pc[d] /\ pc[d] \notin Looking \cup Saving \cup {"run"}
<1>1. /\ pc[c] = here /\ pc'[c] = next
      /\ \A d \in Calls \ {c} : pc'[d] = pc[d]
  BY Moves
<1>2. c \in Active
  BY <1>1 DEF Active
<1>3. \A d \in Calls \ {c} : pc[d] \notin Looking \cup Saving \cup {"run"}
  BY <1>2 DEF Single, Active
<1> QED
  BY <1>1, <1>3 DEF Single, Active

(* It is enough to look at the call that acts, and at the room it leaves.  *)
LEMMA AloneSuffices ==
  ASSUME Kinds, AloneInv, part = "cacheAlone", NEW c \in Calls,
         NEW here \in Looking \cup Saving \cup {"run"}, NEW next \in Places, At(c, here, next),
         clock' = clock, now' = now, disturbed' = {}, OnItsWay(c)',
         next \notin {"measure", "evict"} => Fits(Len(order'))
  PROVE  AloneInv'
<1>0. Single /\ \A d \in Calls : OnItsWay(d)
  BY DEF AloneInv
<1>1. /\ Single'
      /\ pc[c] = here /\ pc'[c] = next
      /\ \A d \in Calls \ {c} : pc'[d] = pc[d] /\ pc[d] \notin Looking \cup Saving \cup {"run"}
  BY <1>0, SingleStep
<1>2. \A d \in Calls : OnItsWay(d)'
  <2> SUFFICES ASSUME NEW d \in Calls \ {c} PROVE OnItsWay(d)'
    OBVIOUS
  <2>1. pc'[d] \notin Looking \cup Saving \cup {"run"} /\ pc'[d] \notin Failed /\ now'[d] <= clock'
    BY <1>0, <1>1 DEF OnItsWay
  <2> QED
    BY <2>1 DEF OnItsWay, Looking, Saving
<1>3. Evicting' = {} => next \notin {"measure", "evict"}
  BY <1>1 DEF Evicting
<1> QED
  BY <1>1, <1>2, <1>3 DEF AloneInv

LEMMA AloneSweeps ==
  ASSUME Kinds, Linked, AloneInv, part = "cacheAlone", NEW c \in Calls, Sweep(c) \/ Scan(c) \/ Expire(c)
  PROVE  AloneInv'
<1>0. OnItsWay(c) /\ disturbed = {} /\ (Evicting = {} => Fits(Len(order))) /\ Single
  BY DEF AloneInv
<1>1. /\ pc \in [Calls -> Places] /\ todo \in [Calls -> Seq(Keys)] /\ order \in Seq(Keys)
      /\ slot \in [Keys -> Calls \cup {NoCall}] /\ todo[c] \in Seq(Keys)
  BY DEF Kinds
<1>2. ASSUME NEW here \in Looking, NEW next \in Looking, At(c, here, next)
      PROVE  pc[c] = here /\ pc'[c] = next /\ Evicting = {}
  <2>1. here \in Looking \cup Saving \cup {"run"} /\ next \in Places
    BY DEF Looking, Places
  <2>2. /\ pc[c] = here /\ pc'[c] = next
        /\ \A d \in Calls \ {c} : pc[d] \notin Looking \cup Saving \cup {"run"}
    BY <1>0, <1>2, <2>1, SingleStep
  <2> QED
    BY <2>2 DEF Evicting, Looking, Saving
<1>3. ASSUME NEW here \in Looking, NEW next \in Looking \ {"restore"}, At(c, here, next),
             clock' = clock, now' = now, at' = at, disturbed' = {}, Len(order') <= Len(order),
             Len(order') \in Nat, Len(order) \in Nat,
             next = "expire" =>
               /\ \A k \in Members(todo'[c]) : slot'[k] # NoCall => Expired(c, k)'
               /\ \A k \in Keys : Expired(c, k)' => k \in Members(todo'[c]),
             next = "lookup" => \A k \in Keys : ~Expired(c, k)'
      PROVE  AloneInv'
  <2>1. here \in Looking \cup Saving \cup {"run"} /\ next \in Places
    BY DEF Looking, Places
  <2>2. pc[c] = here /\ pc'[c] = next /\ Evicting = {}
    BY <1>2, <1>3
  <2>3. OnItsWay(c)'
    BY <1>0, <1>3, <2>2 DEF OnItsWay, Looking, Failed
  <2>4. Fits(Len(order'))
    BY <1>0, <1>1, <1>3, <2>2, FitsLess
  <2> QED
    BY <1>3, <2>1, <2>3, <2>4, AloneSuffices
<1>4. CASE Sweep(c)
  <2> DEFINE next == IF order = <<>> THEN "lookup" ELSE "scan"
  <2>1. /\ At(c, "sweep", next) /\ clock' = clock /\ now' = now /\ at' = at /\ disturbed' = {}
        /\ order' = order /\ slot' = slot
    BY <1>0, <1>4 DEF Sweep, dict
  <2>2. "sweep" \in Looking /\ next \in Looking \ {"restore"} /\ next # "expire"
    BY DEF Looking
  <2>3. Len(order) \in Nat
    BY <1>1, LenProperties
  <2>4. next = "lookup" => \A k \in Keys : ~Expired(c, k)'
    <3> SUFFICES ASSUME order = <<>>, NEW k \in Keys PROVE slot[k] = NoCall
      BY <2>1 DEF Expired
    <3>1. Members(order) = {}
      BY DEF Members
    <3> QED
      BY <3>1 DEF Linked
  <2> HIDE DEF next
  <2> QED
    BY <1>3, <2>1, <2>2, <2>3, <2>4
<1>5. CASE Scan(c)
  <2>1. /\ At(c, "scan", "expire") /\ clock' = clock /\ now' = now /\ at' = at /\ disturbed' = {}
        /\ order' = order /\ slot' = slot /\ todo'[c] = Filter(order, ExpiredKeys(c))
    BY <1>0, <1>1, <1>5 DEF Scan, dict
  <2>2. "scan" \in Looking /\ "expire" \in Looking \ {"restore"} /\ "expire" # "lookup"
    BY DEF Looking
  <2>3. Len(order) \in Nat
    BY <1>1, LenProperties
  <2>4. Members(todo'[c]) = Members(order) \cap ExpiredKeys(c)
    <3>1. order \in Seq(Keys)
      BY <1>1
    <3>2. Members(Filter(order, ExpiredKeys(c))) = Members(order) \cap ExpiredKeys(c)
      BY SMTT(20), <3>1, FilterMembers DEF Members
    <3> QED
      BY <2>1, <3>2
  <2>5. \A k \in Keys : Expired(c, k)' <=> k \in Members(todo'[c])
    BY <2>1, <2>4 DEF Linked, Expired, ExpiredKeys
  <2>6. \A k \in Members(todo'[c]) : Expired(c, k)'
    BY <2>4, <2>5 DEF ExpiredKeys
  <2> QED
    BY <1>3, <2>1, <2>2, <2>3, <2>5, <2>6
<1>6. CASE Expire(c) /\ todo[c] = <<>>
  <2>1. /\ At(c, "expire", "lookup") /\ clock' = clock /\ now' = now /\ at' = at /\ disturbed' = {}
        /\ order' = order /\ slot' = slot
    BY <1>0, <1>6 DEF Expire, dict
  <2>2. "expire" \in Looking /\ "lookup" \in Looking \ {"restore"} /\ "lookup" # "expire"
    BY DEF Looking
  <2>3. Len(order) \in Nat
    BY <1>1, LenProperties
  <2>4. Members(todo[c]) = {}
    BY <1>6 DEF Members
  <2>5. \A k \in Keys : ~Expired(c, k)
    BY <1>0, <1>2, <2>1, <2>2, <2>4 DEF OnItsWay
  <2>6. \A k \in Keys : ~Expired(c, k)'
    BY <2>1, <2>5 DEF Expired
  <2> QED
    BY <1>3, <2>1, <2>2, <2>3, <2>6
<1>7. CASE Expire(c) /\ todo[c] # <<>>
  <2> DEFINE h == Head(todo[c])
  <2>1. /\ At(c, "expire", "expire") /\ clock' = clock /\ now' = now /\ at' = at
        /\ Remove(h) /\ todo'[c] = Tail(todo[c])
    BY <1>1, <1>7 DEF Expire
  <2>2. "expire" \in Looking \ {"restore"} /\ "expire" # "lookup"
    BY DEF Looking
  <2>3. /\ pc[c] = "expire"
        /\ \A d \in Calls \ {c} : pc[d] \notin Looking \cup Saving \cup {"run"}
    BY <1>0, <2>1, SingleStep DEF Looking, Places
  <2>4. disturbed' = {}
    BY <1>0, <2>1, <2>3 DEF Remove, Scanning, Looking
  <2>5. Len(order') <= Len(order) /\ Len(order') \in Nat /\ Len(order) \in Nat
    BY <2>1, RemoveKeeps
  <2>6. slot' = [slot EXCEPT ![h] = NoCall]
    BY <2>1 DEF Remove
  <2>7. /\ Tail(todo[c]) \in Seq(Keys) /\ Len(Tail(todo[c])) = Len(todo[c]) - 1
        /\ \A i \in 1..Len(Tail(todo[c])) : Tail(todo[c])[i] = todo[c][i + 1]
        /\ h = todo[c][1] /\ h \in Keys /\ Len(todo[c]) \in Nat
    BY <1>1, <1>7, HeadTailProperties, LenProperties
  <2> HIDE DEF h
  <2>8. \A k \in Keys : Expired(c, k)' <=> Expired(c, k) /\ k # h
    BY <1>1, <2>1, <2>6 DEF Expired
  <2>9. ASSUME NEW k \in Members(todo'[c]), slot'[k] # NoCall
        PROVE  Expired(c, k)'
    <3>1. PICK i \in 1..Len(todo'[c]) : todo'[c][i] = k
      BY DEF Members
    <3>2. i + 1 \in 1..Len(todo[c]) /\ k = todo[c][i + 1]
      BY <2>1, <2>7, <3>1
    <3>3. k \in Keys /\ k \in Members(todo[c])
      BY <1>1, <3>2, ElementOfSeq DEF Members
    <3>4. slot[k] # NoCall /\ k # h
      BY <1>1, <2>6, <2>9, <3>3
    <3> QED
      BY <1>0, <2>3, <2>8, <3>3, <3>4 DEF OnItsWay
  <2>10. ASSUME NEW k \in Keys, Expired(c, k)'
         PROVE  k \in Members(todo'[c])
    <3>1. k # h /\ k \in Members(todo[c])
      BY <1>0, <2>3, <2>8, <2>10 DEF OnItsWay
    <3>2. PICK i \in 1..Len(todo[c]) : todo[c][i] = k
      BY <3>1 DEF Members
    <3>3. i # 1 /\ i - 1 \in 1..Len(Tail(todo[c])) /\ (i - 1) + 1 = i
      BY <2>7, <3>1, <3>2
    <3>4. Tail(todo[c])[i - 1] = k
      BY <2>7, <3>2, <3>3
    <3> QED
      BY <2>1, <3>3, <3>4 DEF Members
  <2> QED
    BY <1>3, <2>1, <2>2, <2>4, <2>5, <2>9, <2>10
<1> QED
  BY <1>4, <1>5, <1>6, <1>7

(* Nothing scans while another step is taken. *)
LEMMA AloneQuiet ==
  ASSUME Kinds, AloneInv, part = "cacheAlone", NEW c \in Calls,
         NEW here \in Looking \cup Saving \cup {"run"}, NEW next \in Places, At(c, here, next),
         here # "scan", disturbed' \subseteq disturbed \cup Scanning
  PROVE  disturbed' = {}
<1>1. /\ pc[c] = here
      /\ \A d \in Calls \ {c} : pc[d] \notin Looking \cup Saving \cup {"run"}
  BY SingleStep DEF AloneInv
<1>2. Scanning = {}
  BY <1>1 DEF Scanning, Looking
<1> QED
  BY <1>2 DEF AloneInv

(* A call that is not past its lookup, or its store, finds room.           *)
LEMMA AloneRoom ==
  ASSUME Kinds, AloneInv, part = "cacheAlone", NEW c \in Calls,
         NEW here \in Looking \cup {"run", "replace", "store"}, NEW next \in Places, At(c, here, next)
  PROVE  Fits(Len(order)) /\ OnItsWay(c) /\ pc[c] = here /\ pc'[c] = next
<1>1. here \in Looking \cup Saving \cup {"run"}
  BY DEF Looking, Saving
<1>2. /\ pc[c] = here /\ pc'[c] = next
      /\ \A d \in Calls \ {c} : pc[d] \notin Looking \cup Saving \cup {"run"}
  BY <1>1, SingleStep DEF AloneInv
<1>3. Evicting = {}
  BY <1>2 DEF Evicting, Looking, Saving
<1> QED
  BY <1>2, <1>3 DEF AloneInv

LEMMA AloneLooks ==
  ASSUME Kinds, Linked, Entries, AloneInv, part = "cacheAlone", NEW c \in Calls,
         Lookup(c) \/ Restore(c)
  PROVE  AloneInv'
<1>1. /\ pc \in [Calls -> Places] /\ order \in Seq(Keys) /\ key[c] \in Keys
      /\ slot \in [Keys -> Calls \cup {NoCall}] /\ held \in [Calls -> Calls \cup {NoCall}]
      /\ Len(order) \in Nat
  BY LenProperties DEF Kinds
<1>2. clock' = clock /\ key' = key /\ now' = now /\ at' = at
  BY DEF Lookup, Restore
<1>3. CASE Lookup(c) /\ slot[key[c]] = NoCall
  <2>1. At(c, "lookup", "run") /\ order' = order /\ slot' = slot /\ disturbed' = disturbed
    BY <1>3 DEF Lookup, dict
  <2>2. "lookup" \in Looking /\ "run" \in Places
    BY DEF Looking, Places
  <2>3. Fits(Len(order)) /\ OnItsWay(c) /\ pc'[c] = "run"
    BY <2>1, <2>2, AloneRoom
  <2>4. OnItsWay(c)'
    BY <1>2, <1>3, <2>1, <2>3 DEF OnItsWay, Failed
  <2> QED
    BY <1>2, <2>1, <2>2, <2>3, <2>4, AloneSuffices DEF AloneInv
<1>4. CASE Lookup(c) /\ slot[key[c]] # NoCall
  <2>1. At(c, "lookup", "restore") /\ held'[c] = slot[key[c]] /\ Remove(key[c])
    BY <1>1, <1>4 DEF Lookup
  <2>2. "lookup" \in Looking /\ "restore" \in Places /\ "lookup" # "scan"
    BY DEF Looking, Places
  <2>3. Fits(Len(order)) /\ OnItsWay(c) /\ pc[c] = "lookup" /\ pc'[c] = "restore"
    BY <2>1, <2>2, AloneRoom
  <2>4. disturbed' = {}
    BY <2>1, <2>2, AloneQuiet DEF Remove
  <2>5. Len(order') < Len(order) /\ Len(order') \in Nat
    BY <1>1, <1>4, <2>1, RemoveKeeps
  <2>6. slot'[key[c]] = NoCall
    BY <1>1, <2>1 DEF Remove
  <2>7. StillFresh(c)'
    <3>1. slot[key[c]] \in Calls
      BY <1>1, <1>4
    <3>2. now[c] \in Nat /\ at[slot[key[c]]] \in Nat /\ Ttl \in Nat
      BY <3>1, BoundsAssumption DEF Kinds
    <3> QED
      BY <1>1, <1>2, <1>4, <2>1, <2>3, <3>2 DEF OnItsWay, Expired, StillFresh
  <2>8. OnItsWay(c)'
    <3>1. Len(order') + 1 \in Nat /\ Len(order') + 1 <= Len(order)
      BY <1>1, <2>5
    <3>2. Fits(Len(order') + 1)
      BY <1>1, <2>3, <3>1, FitsLess
    <3> QED
      BY <1>1, <1>2, <2>3, <2>6, <2>7, <3>2 DEF OnItsWay, Failed
  <2>9. Fits(Len(order'))
    <3>1. Len(order') <= Len(order)
      BY <1>1, <2>5
    <3> QED
      BY <1>1, <2>3, <2>5, <3>1, FitsLess
  <2> QED
    BY <1>2, <2>1, <2>2, <2>4, <2>8, <2>9, AloneSuffices
<1>5. CASE Restore(c)
  <2>1. At(c, "restore", "hit") /\ Put(key[c], held[c])
    BY <1>5 DEF Restore
  <2>2. "restore" \in Looking /\ "hit" \in Places /\ "restore" # "scan"
    BY DEF Looking, Places
  <2>3. OnItsWay(c) /\ pc[c] = "restore" /\ pc'[c] = "hit"
    BY <2>1, <2>2, AloneRoom
  <2>4. disturbed' = {}
    BY <2>1, <2>2, AloneQuiet DEF Put
  <2>5. held[c] \in Calls
    BY <2>3 DEF Entries, Answers
  <2>6. Len(order') <= Len(order) + 1 /\ Len(order') \in Nat
    BY <1>1, <2>1, <2>5, PutKeeps
  <2>7. Fits(Len(order'))
    <3>1. Fits(Len(order) + 1) /\ Len(order) + 1 \in Nat
      BY <1>1, <2>3 DEF OnItsWay
    <3> QED
      BY <2>6, <3>1, FitsLess
  <2>8. OnItsWay(c)'
    BY <1>2, <2>3 DEF OnItsWay, Failed
  <2> QED
    BY <1>2, <2>1, <2>2, <2>4, <2>7, <2>8, AloneSuffices
<1> QED
  BY <1>3, <1>4, <1>5

LEMMA AloneSaves ==
  ASSUME Kinds, Linked, Entries, AloneInv, part = "cacheAlone", NEW c \in Calls,
         Succeed(c) \/ Fail(c) \/ Replace(c) \/ Store(c)
  PROVE  AloneInv'
<1>1. /\ pc \in [Calls -> Places] /\ order \in Seq(Keys) /\ key[c] \in Keys
      /\ slot \in [Keys -> Calls \cup {NoCall}] /\ Len(order) \in Nat
  BY LenProperties DEF Kinds
<1>2. clock' = clock /\ key' = key /\ now' = now
  BY DEF Succeed, Fail, Replace, Store
<1>3. CASE Succeed(c) \/ Fail(c)
  <2>1. PICK next \in {"replace", "ended"} : At(c, "run", next) /\ (next = "replace" => CacheEnabled)
    BY <1>3 DEF Succeed, Fail
  <2>2. order' = order /\ slot' = slot /\ disturbed' = disturbed
    BY <1>3 DEF Succeed, Fail, dict
  <2>3. "run" \in Looking \cup {"run", "replace", "store"} /\ next \in Places
    BY DEF Saving, Places
  <2>4. Fits(Len(order)) /\ OnItsWay(c) /\ pc[c] = "run" /\ pc'[c] = next
    BY <2>1, <2>3, AloneRoom
  <2>5. OnItsWay(c)'
    BY <1>2, <2>1, <2>2, <2>4 DEF OnItsWay, Failed
  <2> QED
    BY <1>2, <2>1, <2>2, <2>3, <2>4, <2>5, AloneSuffices DEF AloneInv
<1>4. CASE Replace(c)
  <2>1. At(c, "replace", "store") /\ Remove(key[c])
    BY <1>4 DEF Replace
  <2>2. "replace" \in Saving /\ "store" \in Places /\ "replace" # "scan"
    BY DEF Saving, Places
  <2>3. Fits(Len(order)) /\ OnItsWay(c) /\ pc'[c] = "store"
    BY <2>1, <2>2, AloneRoom
  <2>4. disturbed' = {}
    BY <2>1, <2>2, AloneQuiet DEF Remove
  <2>5. Fits(Len(order'))
    BY <2>1, <2>3, RemoveKeeps, FitsLess
  <2>6. slot'[key[c]] = NoCall
    BY <1>1, <2>1 DEF Remove
  <2>7. OnItsWay(c)'
    BY <1>2, <2>3, <2>6 DEF OnItsWay, Failed
  <2> QED
    BY <1>2, <2>1, <2>2, <2>4, <2>5, <2>7, AloneSuffices
<1>5. CASE Store(c)
  <2>1. At(c, "store", "measure") /\ Put(key[c], c)
    BY <1>5 DEF Store
  <2>2. "store" \in Saving /\ "measure" \in Places /\ "store" # "scan"
    BY DEF Saving, Places
  <2>3. OnItsWay(c) /\ pc'[c] = "measure"
    BY <2>1, <2>2, AloneRoom
  <2>4. disturbed' = {}
    BY <2>1, <2>2, AloneQuiet DEF Put
  <2>5. OnItsWay(c)'
    BY <1>2, <2>3 DEF OnItsWay, Failed
  <2> QED
    BY <1>2, <2>1, <2>2, <2>4, <2>5, AloneSuffices
<1> QED
  BY <1>3, <1>4, <1>5

LEMMA AloneEvicts ==
  ASSUME Kinds, Linked, Entries, AloneInv, part = "cacheAlone", NEW c \in Calls,
         Alone!Measure(c) \/ Evict(c)
  PROVE  AloneInv'
<1>0. \A d \in Calls : OnItsWay(d)
  BY DEF AloneInv
<1>1. order \in Seq(Keys) /\ Len(order) \in Nat
  BY LenProperties DEF Kinds
<1>2. CASE Alone!Measure(c)
  <2> DEFINE next == IF ~Fits(Len(order)) THEN "evict" ELSE "stored"
  <2>1. /\ At(c, "measure", next) /\ clock' = clock /\ now' = now
        /\ order' = order /\ disturbed' = disturbed
    BY <1>2, AloneActs DEF dict
  <2>2. /\ "measure" \in Looking \cup Saving \cup {"run"} /\ next \in Places
        /\ next \in {"evict", "stored"} /\ (next = "evict" <=> ~Fits(Len(order)))
    BY DEF Saving, Places
  <2> HIDE DEF next
  <2>3. pc'[c] = next
    BY <2>1, <2>2, Moves
  <2>4. OnItsWay(c)'
    BY <1>0, <2>1, <2>2, <2>3 DEF OnItsWay, Failed
  <2>5. next \notin {"measure", "evict"} => Fits(Len(order'))
    BY <1>1, <2>1, <2>2
  <2> QED
    BY <2>1, <2>2, <2>4, <2>5, AloneSuffices DEF AloneInv
<1>3. CASE Evict(c)
  <2>1. pc[c] = "evict" /\ clock' = clock /\ now' = now
    BY <1>3 DEF Evict, At
  <2>2. order # <<>>
    <3>1. ~Fits(Len(order))
      BY <1>0, <2>1 DEF OnItsWay
    <3>2. Len(order) # 0
      BY <3>1, FitsLess
    <3> QED
      BY <1>1, <3>2, EmptySeq
  <2>3. At(c, "evict", "measure") /\ Remove(Head(order))
    BY <1>3, <2>2 DEF Evict
  <2>4. "evict" \in Looking \cup Saving \cup {"run"} /\ "measure" \in Places /\ "evict" # "scan"
    BY DEF Saving, Places
  <2>5. disturbed' = {}
    BY <2>3, <2>4, AloneQuiet DEF Remove
  <2>6. pc'[c] = "measure"
    BY <2>3, <2>4, Moves
  <2>7. OnItsWay(c)'
    BY <1>0, <2>1, <2>6 DEF OnItsWay, Failed
  <2> QED
    BY <2>1, <2>3, <2>4, <2>5, <2>7, AloneSuffices
<1> QED
  BY <1>2, <1>3

(* A call begins when no other one is under way. *)
LEMMA AloneBegins ==
  ASSUME Kinds, AloneInv, part = "cacheAlone", NEW c \in Calls, Alone!Begin(c)
  PROVE  AloneInv' /\ Active = {}
<1>1. Active = {}
  <2>1. Cardinality(Active) < 1
    BY AloneActs
  <2>2. ASSUME NEW d \in Active PROVE FALSE
    <3>1. Active = {d}
      BY <2>2 DEF AloneInv, Single
    <3> QED
      BY <2>1, <3>1, FS_Singleton
  <2> QED
    BY <2>2
<1>2. /\ At(c, "new", IF CacheEnabled THEN "sweep" ELSE "run")
      /\ now' = [now EXCEPT ![c] = clock]
      /\ clock' = clock /\ order' = order /\ disturbed' = disturbed
  BY AloneActs DEF dict
<1>3. /\ pc[c] = "new" /\ pc' \in [Calls -> Places]
      /\ pc'[c] \in {"sweep", "run"} /\ (pc'[c] = "run" => ~CacheEnabled)
      /\ \A d \in Calls \ {c} : pc'[d] = pc[d] /\ now'[d] = now[d]
      /\ now'[c] = clock /\ clock \in Nat
  BY <1>2 DEF At, Goto, Kinds, Places, Looking
<1>4. Single' /\ Evicting' = Evicting
  BY <1>1, <1>3 DEF Single, Active, Evicting
<1>5. OnItsWay(c)'
  BY <1>2, <1>3 DEF OnItsWay, Failed
<1>6. ASSUME NEW d \in Calls \ {c} PROVE OnItsWay(d)'
  <2>1. pc[d] \notin Looking \cup Saving \cup {"run"} /\ OnItsWay(d)
    BY <1>1 DEF Active, AloneInv
  <2> QED
    BY <1>2, <1>3, <2>1 DEF OnItsWay, Looking, Saving
<1> QED
  BY <1>1, <1>2, <1>4, <1>5, <1>6 DEF AloneInv

LEMMA AloneIdles ==
  ASSUME Kinds, AloneInv, part = "cacheAlone", Tick \/ UNCHANGED vars
  PROVE  part' = part => AloneInv'
<1>1. /\ pc' = pc /\ key' = key /\ now' = now /\ at' = at /\ order' = order /\ slot' = slot
      /\ disturbed' = disturbed /\ todo' = todo /\ held' = held
      /\ clock' \in {clock, clock + 1}
  BY DEF Tick, vars, dict
<1>2. clock \in Nat /\ \A c \in Calls : now[c] \in Nat
  BY BoundsAssumption DEF Kinds
<1>3. \A c \in Calls : now[c] <= clock => now'[c] <= clock'
  BY <1>1, <1>2
<1>4. \A c \in Calls : OnItsWay(c) => OnItsWay(c)'
  BY <1>1, <1>3 DEF OnItsWay, Expired, StillFresh, Members
<1> QED
  BY <1>1, <1>4 DEF AloneInv, Single, Active, Evicting

LEMMA AloneInvStep ==
  ASSUME Kinds, Linked, Entries, AloneInv, [MemoryNext]_memoryVars
  PROVE  AloneInv'
<1>1. CASE part # "cacheAlone"
  BY <1>1 DEF AloneInv, MemoryNext, memoryVars
<1>2. CASE part = "cacheAlone"
  <2>1. part' = part /\ (UNCHANGED vars \/ Alone!Next)
    BY <1>2 DEF MemoryNext, memoryVars
  <2>2. CASE UNCHANGED vars
    BY <1>2, <2>1, <2>2, AloneIdles
  <2>3. ASSUME NEW c \in Calls, Alone!Begin(c) PROVE AloneInv'
    BY <1>2, <2>3, AloneBegins
  <2>4. ASSUME NEW c \in Calls, Alone!Step(c) PROVE AloneInv'
    <3>1. ~ScanFails(c) /\ ~TooOld(c)
      BY <1>2 DEF AloneInv, ScanFails, TooOld, At, OnItsWay
    <3> QED
      BY <1>2, <2>4, <3>1, AloneActs, AloneSweeps, AloneLooks, AloneSaves, AloneEvicts
  <2>5. Alone!Tick => Tick
    BY DEF Alone!Tick, Tick, Alone!dict, dict
  <2> QED
    BY <1>2, <2>1, <2>2, <2>3, <2>4, <2>5, AloneIdles DEF Alone!Next
<1> QED
  BY <1>1, <1>2

LEMMA AloneInvHolds == MemorySpec => [](Kinds /\ Linked /\ Entries /\ AloneInv)
<1>1. MemoryInit => Kinds /\ Linked /\ Entries /\ AloneInv
  BY CacheInvInit, AloneInvInit DEF MemoryInit, CacheInv
<1>2. Kinds /\ Linked /\ Entries /\ AloneInv /\ [MemoryNext]_memoryVars
        => (Kinds /\ Linked /\ Entries /\ AloneInv)'
  BY EitherKeeps, AloneInvStep
<1> QED
  BY <1>1, <1>2, PTL DEF MemorySpec

-----------------------------------------------------------------------------
(* What the LruCache sees of it: the entries in the order of their keys,   *)
(* the one in the hands of a call after them.                              *)

Hand == IF InHand = {} THEN <<>> ELSE <<held[CHOOSE c \in InHand : TRUE]>>

Young == LastN(Image(order, slot) \o Hand, AloneEntries)

Used == {c \in Calls : pc[c] \in {"restore", "hit", "measure", "evict", "stored"}}

Others(k) == Filter(Young, {m \in Calls : key[m] # k})

LEMMA LruActs ==
  /\ Alone!Lru!vars = <<clock, key, at, Young, Used>>
  /\ Alone!Lru!vars' = <<clock, key, at, Young, Used>>'
  /\ \A c : Alone!Lru!Stamp(c) <=>
              /\ c \notin Used /\ at' = [at EXCEPT ![c] = clock]
              /\ UNCHANGED <<clock, key, Young, Used>>
  /\ \A c : Alone!Lru!Insert(c) <=>
              /\ c \notin Used /\ Young' = LastN(Append(Others(key[c]), c), AloneEntries) /\ Used' = Used \cup {c}
              /\ UNCHANGED <<clock, key, at>>
  /\ \A c, i : Alone!Lru!Use(c, i) <=>
              /\ c \notin Used /\ key[Young[i]] = key[c]
              /\ Young' = Append(Others(key[c]), Young[i]) /\ Used' = Used \cup {c}
              /\ UNCHANGED <<clock, key, at>>
  /\ \A i : Alone!Lru!Expire(i) <=>
              /\ clock >= at[Young[i]] + Ttl /\ Young' = Others(key[Young[i]])
              /\ UNCHANGED <<clock, key, at, Used>>
  /\ Alone!Lru!Tick <=> clock < MaxTime /\ clock' = clock + 1 /\ UNCHANGED <<key, at, Young, Used>>
  /\ Alone!Lru!Next <=>
        \/ \E c \in Calls : Alone!Lru!Stamp(c) \/ Alone!Lru!Insert(c)
        \/ \E i \in 1..Len(Young) : Alone!Lru!Expire(i) \/ \E c \in Calls : Alone!Lru!Use(c, i)
        \/ Alone!Lru!Tick
<1> USE DEF Image, Hand, InHand, Alone!InHand
<1>1. \A s, n : Alone!LastN(s, n) = LastN(s, n) /\ Alone!Lru!LastN(s, n) = LastN(s, n)
  BY DEF LastN, Alone!LastN, Alone!Lru!LastN
<1>2. \A s, T : Alone!Lru!Filter(s, T) = Filter(s, T)
  BY DEF Filter, Alone!Lru!Filter
<1>3. \A k : Alone!Lru!Without(k) = Others(k)
  BY <1>1, <1>2 DEF Alone!Lru!Without, Others, Young
<1>4. /\ Alone!Lru!vars = <<clock, key, at, Young, Used>>
      /\ Alone!Lru!vars' = <<clock, key, at, Young, Used>>'
  BY <1>1 DEF Alone!Lru!vars, Young, Used
<1>5. \A c : Alone!Lru!Stamp(c) <=>
               /\ c \notin Used /\ at' = [at EXCEPT ![c] = clock]
               /\ UNCHANGED <<clock, key, Young, Used>>
  BY <1>1 DEF Alone!Lru!Stamp, Young, Used
<1>6. \A c : Alone!Lru!Insert(c) <=>
               /\ c \notin Used /\ Young' = LastN(Append(Others(key[c]), c), AloneEntries) /\ Used' = Used \cup {c}
               /\ UNCHANGED <<clock, key, at>>
  BY <1>1, <1>3 DEF Alone!Lru!Insert, Young, Used
<1>7. \A c, i : Alone!Lru!Use(c, i) <=>
               /\ c \notin Used /\ key[Young[i]] = key[c]
               /\ Young' = Append(Others(key[c]), Young[i]) /\ Used' = Used \cup {c}
               /\ UNCHANGED <<clock, key, at>>
  BY <1>1, <1>3 DEF Alone!Lru!Use, Young, Used
<1>8. \A i : Alone!Lru!Expire(i) <=>
               /\ clock >= at[Young[i]] + Ttl /\ Young' = Others(key[Young[i]])
               /\ UNCHANGED <<clock, key, at, Used>>
  BY <1>1, <1>3 DEF Alone!Lru!Expire, Young, Used
<1>9. Alone!Lru!Tick <=> clock < MaxTime /\ clock' = clock + 1 /\ UNCHANGED <<key, at, Young, Used>>
  BY <1>1 DEF Alone!Lru!Tick, Young, Used
<1>10. Alone!Lru!Next <=>
         \/ \E c \in Calls : Alone!Lru!Stamp(c) \/ Alone!Lru!Insert(c)
         \/ \E i \in 1..Len(Young) : Alone!Lru!Expire(i) \/ \E c \in Calls : Alone!Lru!Use(c, i)
         \/ Alone!Lru!Tick
  BY <1>1 DEF Alone!Lru!Next, Young
<1> QED
  BY <1>4, <1>5, <1>6, <1>7, <1>8, <1>9, <1>10

Line == Image(order, slot)

LEMMA LineKinds ==
  ASSUME Kinds, Linked, Entries
  PROVE  /\ Line \in Seq(Calls) /\ Len(Line) = Len(order) /\ Len(order) \in Nat
         /\ \A i \in 1..Len(Line) : /\ Line[i] = slot[order[i]] /\ Line[i] \in Calls
                                    /\ order[i] \in Keys /\ key[Line[i]] = order[i]
         /\ \A k \in Keys : slot[k] # NoCall => \E i \in 1..Len(Line) : order[i] = k
         /\ order \in Seq({k \in Keys : slot[k] # NoCall})
         /\ \A k \in Keys : slot[k] # NoCall => slot[k] \in Calls /\ key[slot[k]] = k
<1> DEFINE Present == {k \in Keys : slot[k] # NoCall}
<1>1. /\ order \in Seq(Keys) /\ Len(order) \in Nat /\ order = [i \in 1..Len(order) |-> order[i]]
      /\ slot \in [Keys -> Calls \cup {NoCall}]
  BY LenProperties DEF Kinds
<1>2. \A i \in 1..Len(order) : order[i] \in Present
  BY DEF Linked, Members
<1>3. order \in Seq(Present)
  BY <1>1, <1>2
<1>4. \A k \in Present : slot[k] \in Calls /\ key[slot[k]] = k
  BY DEF Entries, Answers
<1>5. /\ Line \in Seq(Calls) /\ Len(Line) = Len(order)
      /\ \A i \in 1..Len(order) : Line[i] = slot[order[i]]
  BY <1>1, <1>2, <1>4 DEF Line, Image
<1>6. \A k \in Present : \E i \in 1..Len(order) : order[i] = k
  BY DEF Linked, Members
<1> QED
  BY <1>1, <1>2, <1>3, <1>4, <1>5, <1>6

LEMMA LineRemove ==
  ASSUME Kinds, Linked, Entries, NEW k \in Keys, Remove(k)
  PROVE  Line' = Filter(Line, {m \in Calls : key[m] # k})
<1> DEFINE Present == {j \in Keys : slot[j] # NoCall}
           T == Keys \ {k}
           U == {m \in Calls : key[m] # k}
<1>1. order' = Filter(order, T) /\ slot' = [slot EXCEPT ![k] = NoCall]
  BY DEF Remove
<1>2. /\ order \in Seq(Present) /\ order \in Seq(Keys)
      /\ \A j \in Present : slot[j] \in Calls /\ key[slot[j]] = j
  BY LineKinds DEF Kinds
<1>3. slot \in [Keys -> Calls \cup {NoCall}]
  BY DEF Kinds
<1>4. \A j \in Present : j \in T <=> slot[j] \in U
  BY <1>2
<1>5. Image(Filter(order, T), slot) = Filter(Line, U)
  BY <1>2, <1>4, ImageFilter DEF Line
<1>6. order' \in Seq(Keys) /\ \A i \in 1..Len(order') : order'[i] \in T
  <2>1. order' \in Seq(Keys) /\ Members(order') = {j \in Keys : slot'[j] # NoCall}
    BY RemoveKeeps DEF Linked
  <2>2. slot'[k] = NoCall
    BY <1>1, <1>3
  <2> QED
    BY <2>1, <2>2 DEF Members
<1>7. \A i \in 1..Len(order') : slot'[order'[i]] = slot[order'[i]]
  BY <1>1, <1>6, <1>3
<1>8. Line' = Image(order', slot)
  BY <1>7 DEF Line, Image
<1> QED
  BY <1>1, <1>5, <1>8

LEMMA LinePut ==
  ASSUME Kinds, Linked, Entries, NEW k \in Keys, slot[k] = NoCall, NEW m \in Calls, Put(k, m)
  PROVE  Line' = Append(Line, m)
<1>1. order' = Append(order, k) /\ slot' = [slot EXCEPT ![k] = m] /\ order \in Seq(Keys)
  BY DEF Put, Kinds
<1>2. Line' = Append(Image(order, slot'), slot'[k])
  BY <1>1, ImageAppend DEF Line
<1>3. slot \in [Keys -> Calls \cup {NoCall}] /\ \A i \in 1..Len(order) : order[i] \in Keys /\ order[i] # k
  BY LineKinds DEF Kinds, Linked, Members
<1>4. slot'[k] = m /\ \A i \in 1..Len(order) : slot'[order[i]] = slot[order[i]]
  BY <1>1, <1>3
<1>5. Image(order, slot') = Line
  BY <1>4 DEF Line, Image
<1> QED
  BY <1>2, <1>4, <1>5

(* Without the key it has not, the line is as it was. *)
LEMMA LineWithout ==
  ASSUME Kinds, Linked, Entries, NEW k \in Keys, slot[k] = NoCall
  PROVE  Filter(Line, {m \in Calls : key[m] # k}) = Line
<1>1. Line \in Seq(Calls) /\ \A i \in 1..Len(Line) : Line[i] \in Calls /\ key[Line[i]] # k
  BY LineKinds DEF Linked, Members
<1> QED
  BY <1>1, FilterAll

UsedPlaces == {"restore", "hit", "measure", "evict", "stored"}

LEMMA HandStep ==
  ASSUME Kinds, AloneInv, part = "cacheAlone", NEW c \in Calls,
         NEW here \in Looking \cup Saving \cup {"run"}, NEW next \in Places, At(c, here, next)
  PROVE  /\ Hand = IF here = "restore" THEN <<held[c]>> ELSE <<>>
         /\ Hand' = IF next = "restore" THEN <<held'[c]>> ELSE <<>>
         /\ c \in Used <=> here \in UsedPlaces
         /\ Used' = IF next \in UsedPlaces THEN Used \cup {c} ELSE Used \ {c}
         /\ pc[c] = here /\ pc'[c] = next
<1>1. /\ pc[c] = here /\ pc'[c] = next
      /\ \A d \in Calls \ {c} : pc'[d] = pc[d] /\ pc[d] \notin Looking \cup Saving \cup {"run"}
  BY SingleStep DEF AloneInv
<1>2. InHand = IF here = "restore" THEN {c} ELSE {}
  BY <1>1 DEF InHand, Looking
<1>3. InHand' = IF next = "restore" THEN {c} ELSE {}
  BY <1>1 DEF InHand, Looking
<1>4. (CHOOSE d \in {c} : TRUE) = c
  OBVIOUS
<1>5. /\ Hand = IF here = "restore" THEN <<held[c]>> ELSE <<>>
      /\ Hand' = IF next = "restore" THEN <<held'[c]>> ELSE <<>>
  BY <1>2, <1>3, <1>4 DEF Hand
<1> QED
  BY <1>1, <1>5 DEF Used, UsedPlaces

(* As long as there is room for it the LruCache sees the whole line. *)
LEMMA YoungIsLine ==
  ASSUME Kinds, Linked, Entries, Fits(Len(order)), Hand = <<>>
  PROVE  Young = Line
<1>1. Line \in Seq(Calls) /\ Fits(Len(Line))
  BY LineKinds
<1>2. Line \o <<>> = Line
  BY <1>1, ConcatEmptySeq
<1> QED
  BY <1>1, <1>2, FitsWhole DEF Young, Line

(* Until a call stores or finds an answer, the LruCache sees nothing of it *)
(* but the entries that expire, and the time at which it was made.         *)
LEMMA LruSweeps ==
  ASSUME Kinds, Linked, Entries, AloneInv, part = "cacheAlone", NEW c \in Calls,
         Sweep(c) \/ Scan(c) \/ Expire(c)
  PROVE  [Alone!Lru!Next]_(Alone!Lru!vars)
<1>1. clock' = clock /\ key' = key /\ at' = at /\ held' = held
  BY DEF Sweep, Scan, Expire
<1>2. CASE Sweep(c) \/ Scan(c) \/ (Expire(c) /\ todo[c] = <<>>)
  <2>1. PICK here \in {"sweep", "scan", "expire"}, next \in {"scan", "expire", "lookup"} : At(c, here, next)
    BY <1>2 DEF Sweep, Scan, Expire
  <2>2. Hand = <<>> /\ Hand' = <<>> /\ Used' = Used
    BY <2>1, HandStep DEF UsedPlaces, Looking, Places
  <2>3. order' = order /\ slot' = slot
    BY <1>2 DEF Sweep, Scan, Expire, dict
  <2>4. Young' = Young
    BY <2>2, <2>3 DEF Young
  <2> QED
    BY <1>1, <2>2, <2>4, LruActs
<1>3. CASE Expire(c) /\ todo[c] # <<>>
  <2> DEFINE k == Head(todo[c])
  <2>1. At(c, "expire", "expire") /\ Remove(k)
    BY <1>3 DEF Expire
  <2>2. k \in Keys
    BY <1>3, HeadTailProperties DEF Kinds
  <2>3. k \in Members(todo[c])
    BY <1>3, LenProperties, EmptySeq DEF Kinds, Members
  <2> HIDE DEF k
  <2>4. Hand = <<>> /\ Hand' = <<>> /\ Used' = Used
    BY <2>1, HandStep DEF UsedPlaces, Looking, Places
  <2>5. Fits(Len(order)) /\ OnItsWay(c) /\ pc[c] = "expire"
    BY <2>1, AloneRoom DEF Looking, Places
  <2>6. Line' = Filter(Line, {m \in Calls : key[m] # k})
    BY <2>1, <2>2, LineRemove
  <2>7. Young = Line
    BY <2>4, <2>5, YoungIsLine
  <2>8. Young' = Line'
    <3>1. Line \in Seq(Calls) /\ Fits(Len(Line)) /\ Len(Line) \in Nat
      BY <2>5, LineKinds
    <3>2. Line' \in Seq(Calls) /\ Len(Line') \in Nat /\ Len(Line') <= Len(Line)
      BY <2>6, <3>1, FilterPicks, LenProperties
    <3>4. Fits(Len(Line'))
      BY <3>1, <3>2, FitsLess
    <3>3. Line' \o <<>> = Line'
      BY <3>2, ConcatEmptySeq
    <3> QED
      BY <2>4, <3>2, <3>3, <3>4, FitsWhole DEF Young, Line
  <2>9. CASE slot[k] = NoCall
    <3>1. Young' = Young
      BY <2>2, <2>6, <2>7, <2>8, <2>9, LineWithout
    <3> QED
      BY <1>1, <2>4, <3>1, LruActs
  <2>10. CASE slot[k] # NoCall
    <3>1. PICK i \in 1..Len(Line) : order[i] = k
      BY <2>2, <2>10, LineKinds
    <3>2. Young[i] = slot[k] /\ key[Young[i]] = k /\ Young[i] \in Calls
      BY <2>7, <3>1, LineKinds
    <3>3. clock >= at[Young[i]] + Ttl
      <4>1. now[c] >= at[slot[k]] + Ttl /\ now[c] <= clock
        BY <2>3, <2>5, <2>10 DEF OnItsWay, Expired
      <4>2. now[c] \in Nat /\ clock \in Nat /\ at[Young[i]] \in Nat /\ Ttl \in Nat
        BY <3>2, BoundsAssumption DEF Kinds
      <4> QED
        BY <3>2, <4>1, <4>2
    <3>4. Young' = Others(key[Young[i]])
      BY <2>6, <2>7, <2>8, <3>2 DEF Others
    <3>5. Alone!Lru!Expire(i)
      BY <1>1, <2>4, <3>3, <3>4, LruActs
    <3> QED
      BY <2>7, <3>5, LruActs
  <2> QED
    BY <2>9, <2>10
<1> QED
  BY <1>2, <1>3

LEMMA LruLooks ==
  ASSUME Kinds, Linked, Entries, AloneInv, part = "cacheAlone", NEW c \in Calls,
         Lookup(c) \/ Restore(c)
  PROVE  [Alone!Lru!Next]_(Alone!Lru!vars)
<1>1. clock' = clock /\ key' = key /\ at' = at /\ key[c] \in Keys
  BY DEF Lookup, Restore, Kinds
<1>2. CASE Lookup(c) /\ slot[key[c]] = NoCall
  <2>1. At(c, "lookup", "run") /\ order' = order /\ slot' = slot
    BY <1>2 DEF Lookup, dict
  <2>2. Hand = <<>> /\ Hand' = <<>> /\ c \notin Used /\ Used' = Used \ {c}
    BY <2>1, HandStep DEF UsedPlaces, Looking, Places
  <2>3. Young' = Young
    BY <2>1, <2>2 DEF Young
  <2> QED
    BY <1>1, <2>2, <2>3, LruActs
<1>3. CASE Lookup(c) /\ slot[key[c]] # NoCall
  <2>1. At(c, "lookup", "restore") /\ held'[c] = slot[key[c]] /\ Remove(key[c])
    BY <1>3 DEF Lookup, Kinds
  <2>2. Hand = <<>> /\ Hand' = <<slot[key[c]]>> /\ c \notin Used /\ Used' = Used \cup {c}
    BY <2>1, HandStep DEF UsedPlaces, Looking, Places
  <2>3. Fits(Len(order))
    BY <2>1, AloneRoom DEF Looking, Places
  <2>4. Young = Line /\ Line \in Seq(Calls) /\ Len(Line) = Len(order) /\ Len(order) \in Nat
    BY <2>2, <2>3, YoungIsLine, LineKinds
  <2>5. PICK i \in 1..Len(Line) : order[i] = key[c]
    BY <1>1, <1>3, LineKinds
  <2>6. Young[i] = slot[key[c]] /\ key[Young[i]] = key[c] /\ Young[i] \in Calls
    BY <2>4, <2>5, LineKinds
  <2>7. Line' = Others(key[c])
    BY <1>1, <2>1, <2>4, LineRemove DEF Others
  <2>8. Line' \in Seq(Calls) /\ Fits(Len(Line') + 1) /\ Len(Line') \in Nat
    <3> DEFINE U == {m \in Calls : key[m] # key[c]}
    <3>1. Line[i] \notin U
      BY <2>4, <2>6
    <3>2. Line' = Filter(Line, U)
      BY <2>4, <2>7 DEF Others
    <3> HIDE DEF U
    <3>3. Filter(Line, U) \in Seq(Calls) /\ Len(Filter(Line, U)) < Len(Line)
      BY <2>4, <2>5, <3>1, FilterPicks
    <3>4. /\ Line' \in Seq(Calls) /\ Len(Line') \in Nat
          /\ Len(Line') + 1 \in Nat /\ Len(Line') + 1 <= Len(order)
      BY <2>4, <3>2, <3>3, LenProperties
    <3> QED
      BY <2>3, <2>4, <3>4, FitsLess
  <2>9. Young' = Append(Line', Young[i])
    <3>1. Line' \o <<Young[i]>> = Append(Line', Young[i])
      BY <2>6, <2>8, AppendIsConcat
    <3>2. Append(Line', Young[i]) \in Seq(Calls) /\ Fits(Len(Append(Line', Young[i])))
      BY <2>6, <2>8, AppendProperties
    <3>3. LastN(Append(Line', Young[i]), AloneEntries) = Append(Line', Young[i])
      BY <3>2, FitsWhole
    <3> QED
      BY <2>2, <2>6, <3>1, <3>3 DEF Young, Line
  <2>10. Alone!Lru!Use(c, i)
    BY <1>1, <2>2, <2>6, <2>7, <2>9, LruActs
  <2> QED
    BY <2>4, <2>10, LruActs
<1>4. CASE Restore(c)
  <2>1. At(c, "restore", "hit") /\ Put(key[c], held[c])
    BY <1>4 DEF Restore
  <2>2. Hand = <<held[c]>> /\ Hand' = <<>> /\ c \in Used /\ Used' = Used \cup {c}
    BY <2>1, HandStep DEF UsedPlaces, Looking, Places
  <2>3. OnItsWay(c) /\ pc[c] = "restore"
    BY <2>1, AloneRoom DEF Looking, Places
  <2>4. slot[key[c]] = NoCall /\ held[c] \in Calls
    BY <2>3 DEF OnItsWay, Entries, Answers
  <2>5. Line' = Append(Line, held[c]) /\ Line \in Seq(Calls)
    BY <1>1, <2>1, <2>4, LinePut, LineKinds
  <2>6. Line' \o <<>> = Line \o <<held[c]>>
    <3>1. Append(Line, held[c]) \in Seq(Calls) /\ Append(Line, held[c]) = Line \o <<held[c]>>
      BY <2>4, <2>5, AppendProperties, AppendIsConcat
    <3> QED
      BY <2>5, <3>1, ConcatEmptySeq
  <2>7. Young' = Young
    BY <2>2, <2>6 DEF Young, Line
  <2> QED
    BY <1>1, <2>2, <2>7, LruActs
<1> QED
  BY <1>2, <1>3, <1>4

LEMMA LruSaves ==
  ASSUME Kinds, Linked, Entries, AloneInv, part = "cacheAlone", NEW c \in Calls,
         Succeed(c) \/ Fail(c) \/ Replace(c) \/ Store(c)
  PROVE  [Alone!Lru!Next]_(Alone!Lru!vars)
<1>1. clock' = clock /\ key' = key /\ key[c] \in Keys
  BY DEF Succeed, Fail, Replace, Store, Kinds
<1>2. CASE Succeed(c) \/ Fail(c)
  <2>1. PICK next \in {"replace", "ended"} : At(c, "run", next)
    BY <1>2 DEF Succeed, Fail
  <2>2. Hand = <<>> /\ Hand' = <<>> /\ c \notin Used /\ Used' = Used \ {c}
    BY <2>1, HandStep DEF UsedPlaces, Saving, Places
  <2>3. order' = order /\ slot' = slot
    BY <1>2 DEF Succeed, Fail, dict
  <2>4. Young' = Young
    BY <2>2, <2>3 DEF Young
  <2>5. at' = [at EXCEPT ![c] = clock] \/ at' = at
    BY <1>2 DEF Succeed, Fail
  <2>6. Used' = Used
    BY <2>2
  <2>7. CASE at' = at
    BY <1>1, <2>4, <2>6, <2>7, LruActs
  <2>8. CASE at' = [at EXCEPT ![c] = clock]
    <3>1. Alone!Lru!Stamp(c)
      BY <1>1, <2>2, <2>4, <2>6, <2>8, LruActs
    <3> QED
      BY <3>1, LruActs
  <2> QED
    BY <2>5, <2>7, <2>8
<1>3. CASE Replace(c)
  <2>1. At(c, "replace", "store") /\ Remove(key[c]) /\ at' = at
    BY <1>3 DEF Replace
  <2>2. Hand = <<>> /\ Hand' = <<>> /\ c \notin Used /\ Used' = Used \ {c}
    BY <2>1, HandStep DEF UsedPlaces, Saving, Places
  <2>3. OnItsWay(c) /\ pc[c] = "replace"
    BY <2>1, AloneRoom DEF Places, Saving
  <2>4. Line' = Line
    BY <1>1, <2>1, <2>3, LineRemove, LineWithout DEF OnItsWay
  <2>5. Young' = Young
    BY <2>2, <2>4 DEF Young, Line
  <2> QED
    BY <1>1, <2>1, <2>2, <2>5, LruActs
<1>4. CASE Store(c)
  <2>1. At(c, "store", "measure") /\ Put(key[c], c) /\ at' = at
    BY <1>4 DEF Store
  <2>2. Hand = <<>> /\ Hand' = <<>> /\ c \notin Used /\ Used' = Used \cup {c}
    <3>1. "store" \in Saving /\ "measure" \in Places
      BY DEF Saving, Places
    <3> QED
      BY <2>1, <3>1, HandStep DEF UsedPlaces
  <2>3. Fits(Len(order)) /\ OnItsWay(c) /\ pc[c] = "store"
    BY <2>1, AloneRoom DEF Places, Saving
  <2>4. slot[key[c]] = NoCall
    BY <2>3 DEF OnItsWay
  <2>5. Line' = Append(Line, c) /\ Line \in Seq(Calls)
    BY <1>1, <2>1, <2>4, LinePut, LineKinds
  <2>6. Young = Line /\ Others(key[c]) = Line
    BY <1>1, <2>2, <2>3, <2>4, YoungIsLine, LineWithout DEF Others
  <2>7. Young' = LastN(Append(Others(key[c]), c), AloneEntries)
    <3>1. Append(Line, c) \o <<>> = Append(Line, c)
      BY <2>5, AppendProperties, ConcatEmptySeq
    <3> QED
      BY <2>2, <2>5, <2>6, <3>1 DEF Young, Line
  <2>8. Alone!Lru!Insert(c)
    BY <1>1, <2>1, <2>2, <2>7, LruActs
  <2> QED
    BY <2>8, LruActs
<1> QED
  BY <1>2, <1>3, <1>4

LEMMA LruEvicts ==
  ASSUME Kinds, Linked, Entries, AloneInv, part = "cacheAlone", NEW c \in Calls,
         Alone!Measure(c) \/ Evict(c)
  PROVE  [Alone!Lru!Next]_(Alone!Lru!vars)
<1>1. CASE Alone!Measure(c)
  <2>1. /\ At(c, "measure", IF ~Fits(Len(order)) THEN "evict" ELSE "stored")
        /\ clock' = clock /\ key' = key /\ at' = at /\ order' = order /\ slot' = slot
    BY <1>1, AloneActs DEF dict
  <2>2. Hand = <<>> /\ Hand' = <<>> /\ Used' = Used
    <3>1. PICK next \in {"evict", "stored"} : At(c, "measure", next)
      BY <2>1
    <3>2. "measure" \in Saving /\ next \in Places
      BY DEF Saving, Places
    <3>3. Hand = <<>> /\ Hand' = <<>> /\ c \in Used /\ Used' = Used \cup {c}
      BY <3>1, <3>2, HandStep DEF UsedPlaces
    <3> QED
      BY <3>3
  <2>3. Young' = Young
    BY <2>1, <2>2 DEF Young
  <2> QED
    BY <2>1, <2>2, <2>3, LruActs
<1>2. CASE Evict(c)
  <2>1. pc[c] = "evict" /\ OnItsWay(c) /\ clock' = clock /\ key' = key /\ at' = at
    BY <1>2 DEF Evict, At, AloneInv
  <2>2. ~Fits(Len(order)) /\ order # <<>> /\ order \in Seq(Keys) /\ Len(order) \in Nat
    <3>1. ~Fits(Len(order)) /\ order \in Seq(Keys)
      BY <2>1 DEF OnItsWay, Kinds
    <3>2. Len(order) # 0
      BY <3>1, FitsLess
    <3> QED
      BY <3>1, <3>2, EmptySeq, LenProperties
  <2>3. At(c, "evict", "measure") /\ Remove(Head(order))
    BY <1>2, <2>2 DEF Evict
  <2>4. Hand = <<>> /\ Hand' = <<>> /\ Used' = Used
    <3>1. "evict" \in Saving /\ "measure" \in Places
      BY DEF Saving, Places
    <3>2. Hand = <<>> /\ Hand' = <<>> /\ c \in Used /\ Used' = Used \cup {c}
      BY <2>3, <3>1, HandStep DEF UsedPlaces
    <3> QED
      BY <3>2
  <2>5. /\ Line \in Seq(Calls) /\ Len(Line) = Len(order) /\ Line # <<>>
        /\ Head(order) \in Keys /\ Head(order) = order[1] /\ Head(Line) = Line[1]
        /\ 1 \in 1..Len(Line)
    BY <2>2, LineKinds, HeadTailProperties, EmptySeq
  <2>6. Line' = Tail(Line)
    <3> DEFINE U == {m \in Calls : key[m] # Head(order)}
               Shown == {Line[i] : i \in 1..Len(Line)}
    <3>1. Line' = Filter(Line, U)
      BY <2>3, <2>5, LineRemove
    <3>2. Distinct(Line) /\ Line \in Seq(Shown)
      <4>1. \A i \in 1..Len(Line) : key[Line[i]] = order[i]
        BY LineKinds
      <4>2. Distinct(Line)
        BY <2>5, <4>1 DEF Linked, Distinct
      <4>3. Line = [i \in 1..Len(Line) |-> Line[i]] /\ Len(Line) \in Nat
        BY <2>5, LenProperties
      <4> QED
        BY <4>2, <4>3
    <3>3. \A m \in Shown : m \in U <=> m # Head(Line)
      <4> SUFFICES ASSUME NEW i \in 1..Len(Line) PROVE Line[i] \in U <=> Line[i] # Line[1]
        BY <2>5
      <4>1. Line[i] \in Calls /\ key[Line[i]] = order[i] /\ key[Line[1]] = order[1]
        BY <2>5, LineKinds
      <4>2. order[i] = order[1] => i = 1
        BY <2>5 DEF Linked, Distinct
      <4> QED
        BY <2>5, <4>1, <4>2
    <3> HIDE DEF U, Shown
    <3> QED
      BY <2>5, <3>1, <3>2, <3>3, FilterTail
  <2>7. LastN(Tail(Line), AloneEntries) = LastN(Line, AloneEntries)
    BY <2>2, <2>5, FitsNot, LastNTail
  <2>8. Line \o <<>> = Line /\ Tail(Line) \o <<>> = Tail(Line)
    BY <2>5, ConcatEmptySeq, HeadTailProperties
  <2>9. Young' = Young
    BY <2>4, <2>6, <2>7, <2>8 DEF Young, Line
  <2> QED
    BY <2>1, <2>4, <2>9, LruActs
<1> QED
  BY <1>1, <1>2

LEMMA LruSteps ==
  ASSUME Kinds, Linked, Entries, AloneInv, [MemoryNext]_memoryVars, part = "cacheAlone"
  PROVE  [Alone!Lru!Next]_(Alone!Lru!vars)
<1>1. UNCHANGED vars \/ Alone!Next
  BY DEF MemoryNext, memoryVars
<1>2. CASE UNCHANGED vars
  BY <1>2, LruActs DEF vars, dict, Young, Hand, InHand, Used
<1>3. ASSUME NEW c \in Calls, Alone!Begin(c) PROVE [Alone!Lru!Next]_(Alone!Lru!vars)
  <2>1. Active = {}
    BY <1>3, AloneBegins
  <2>2. /\ At(c, "new", IF CacheEnabled THEN "sweep" ELSE "run")
        /\ clock' = clock /\ key' = key /\ at' = at /\ order' = order /\ slot' = slot
    BY <1>3, AloneActs DEF dict
  <2>3. pc[c] = "new" /\ pc'[c] \in {"sweep", "run"} /\ \A d \in Calls \ {c} : pc'[d] = pc[d]
    BY <2>2 DEF At, Goto, Kinds
  <2>4. Used' = Used /\ InHand = {} /\ InHand' = {}
    BY <2>1, <2>3 DEF Used, InHand, Active, Looking
  <2>5. Young' = Young
    BY <2>2, <2>4 DEF Young, Hand
  <2> QED
    BY <2>2, <2>4, <2>5, LruActs
<1>4. ASSUME NEW c \in Calls, Alone!Step(c) PROVE [Alone!Lru!Next]_(Alone!Lru!vars)
  <2>1. ~ScanFails(c) /\ ~TooOld(c)
    BY DEF AloneInv, ScanFails, TooOld, At, OnItsWay
  <2> QED
    BY <1>4, <2>1, AloneActs, LruSweeps, LruLooks, LruSaves, LruEvicts
<1>5. CASE Alone!Tick
  <2>1. /\ clock < MaxTime /\ clock' = clock + 1
        /\ pc' = pc /\ key' = key /\ at' = at /\ held' = held /\ order' = order /\ slot' = slot
    BY <1>5 DEF Alone!Tick, Alone!dict
  <2>2. Alone!Lru!Tick
    BY <2>1, LruActs DEF Young, Hand, InHand, Used
  <2> QED
    BY <2>2, LruActs
<1> QED
  BY <1>1, <1>2, <1>3, <1>4, <1>5 DEF Alone!Next

LEMMA LruInit ==
  ASSUME MemoryInit PROVE Alone!Lru!Init
<1>1. /\ clock = 0 /\ key \in [Calls -> Keys] /\ at = [c \in Calls |-> 0] /\ order = <<>>
      /\ \A c \in Calls : pc[c] = "new"
  BY DEF MemoryInit, Init
<1>2. Alone!InHand = {} /\ Len(order) = 0
  BY <1>1 DEF Alone!InHand
<1>3. {c \in Calls : pc[c] \in {"restore", "hit", "measure", "evict", "stored"}} = {}
  BY <1>1
<1>4. [i \in 1..Len(order) |-> slot[order[i]]] \o <<>> = <<>>
  BY <1>1
<1>5. Alone!LastN(<<>>, AloneEntries) = <<>>
  BY DEF Alone!LastN
<1> QED
  BY <1>1, <1>2, <1>3, <1>4, <1>5 DEF Alone!Lru!Init

(* Calls that come one at a time find the cache to be an LruCache: it      *)
(* holds the answers used last in the order of their use, whatever is      *)
(* swept, put back or cut (_cleanup_cache, answer, _upsert_cache); and no  *)
(* such call fails in it.                                                  *)
THEOREM CacheAloneIsLru == MemorySpec => AloneIsLru
<1>1. MemoryInit => Alone!Lru!Init
  BY LruInit
<1>2. Kinds /\ Linked /\ Entries /\ AloneInv /\ [MemoryNext]_memoryVars
        => [part = "cacheAlone" => [Alone!Lru!Next]_(Alone!Lru!vars)]_memoryVars
  BY LruSteps
<1>3. AloneInv => (part = "cacheAlone" => Alone!LoopNeverFails)
  BY DEF AloneInv, OnItsWay, Alone!LoopNeverFails, Alone!Failed, Failed
<1> QED
  BY <1>1, <1>2, <1>3, AloneInvHolds, PTL DEF MemorySpec, AloneIsLru

-----------------------------------------------------------------------------
(* The stores side by side.  Each of the others, seen by itself, behaves   *)
(* as its module says.                                                     *)
LEMMA StoresAreSeparate ==
  MemorySpec => History!Spec /\ Schema!Spec /\ Audit!Spec
<1>1. MemoryInit => History!Init /\ Schema!Init /\ Audit!Init
  BY DEF MemoryInit
<1>2. [MemoryNext]_memoryVars
        => [History!Next]_(History!vars) /\ [Schema!Next]_(Schema!vars) /\ [Audit!Next]_(Audit!vars)
  <2>1. UNCHANGED historyVars => UNCHANGED History!vars
    BY DEF historyVars, History!vars, History!stored, History!ghosts
  <2>2. UNCHANGED schemaVars => UNCHANGED Schema!vars
    BY DEF schemaVars, Schema!vars, Schema!reading
  <2>3. UNCHANGED auditVars => UNCHANGED Audit!vars
    BY DEF auditVars, Audit!vars
  <2> QED
    BY <2>1, <2>2, <2>3 DEF MemoryNext, memoryVars
<1> QED
  BY <1>1, <1>2, PTL DEF MemorySpec, History!Spec, Schema!Spec, Audit!Spec

(* The theorems of HistoryProofs are about the histories of MCMemory: H    *)
(* and History instantiate the same module in the same way.                *)
H == INSTANCE HistoryProofs WITH Calls <- HistoryCalls, MaxActive <- HistoryActive, pc <- historyPc

LEMMA HistoryBounds == H!BoundsAssumption
BY PartsAssumption DEF H!BoundsAssumption, H!Lists, History!BoundsAssumption, History!Lists

LEMMA SameStep ==
  ASSUME NEW c \in HistoryCalls
  PROVE  /\ History!Begin(c) => H!Begin(c)
         /\ History!GetConversation(c) => H!GetConversation(c)
         /\ History!AddTurn(c) => H!AddTurn(c)
         /\ History!KeepTurns(c) => H!KeepTurns(c)
         /\ History!AppendEntry(c) => H!AppendEntry(c)
         /\ History!Measure(c) => H!Measure(c)
         /\ History!Cut(c) => H!Cut(c)
         /\ History!SetDefault(c) => H!SetDefault(c)
         /\ History!AppendOwn(c) => H!AppendOwn(c)
         /\ History!MeasureOwn(c) => H!MeasureOwn(c)
         /\ History!CutOwn(c) => H!CutOwn(c)
<1> USE DEF History!At, H!At, History!stored, H!stored, History!ghosts, H!ghosts
<1>1. History!Begin(c) => H!Begin(c)
  BY DEF History!Begin, H!Begin, History!Active, H!Active, History!Steps, H!Steps,
         History!Cardinality, H!Cardinality
<1>2. /\ History!GetConversation(c) => H!GetConversation(c)
      /\ History!AddTurn(c) => H!AddTurn(c)
      /\ History!AppendEntry(c) => H!AppendEntry(c)
      /\ History!AppendOwn(c) => H!AppendOwn(c)
  BY DEF History!GetConversation, H!GetConversation, History!AddTurn, H!AddTurn,
         History!AppendEntry, H!AppendEntry, History!AppendOwn, H!AppendOwn
<1>3. /\ History!KeepTurns(c) => H!KeepTurns(c)
      /\ History!Cut(c) => H!Cut(c)
      /\ History!CutOwn(c) => H!CutOwn(c)
  BY DEF History!KeepTurns, H!KeepTurns, History!Cut, H!Cut, History!CutOwn, H!CutOwn,
         History!LastN, H!LastN
<1>4. /\ History!Measure(c) => H!Measure(c)
      /\ History!MeasureOwn(c) => H!MeasureOwn(c)
  BY DEF History!Measure, H!Measure, History!MeasureOwn, H!MeasureOwn, History!TooLong, H!TooLong
<1>5. History!SetDefault(c) => H!SetDefault(c)
  BY DEF History!SetDefault, H!SetDefault, History!NewList, H!NewList
<1> QED
  BY <1>1, <1>2, <1>3, <1>4, <1>5

LEMMA SameHistory == History!Spec => H!Spec
<1>1. History!Init => H!Init
  BY DEF History!Init, H!Init, History!Lists, H!Lists
<1>2. [History!Next]_(History!vars) => [H!Next]_(H!vars)
  <2>1. UNCHANGED History!vars => UNCHANGED H!vars
    BY DEF History!vars, H!vars, History!stored, H!stored, History!ghosts, H!ghosts
  <2>2. History!Next => H!Next
    BY SameStep DEF History!Next, H!Next
  <2> QED
    BY <2>1, <2>2
<1> QED
  BY <1>1, <1>2, PTL DEF History!Spec, H!Spec

(* The variables of the cache and of the histories hold values of their    *)
(* kinds, and the order of the dictionary is an order of its keys.         *)
THEOREM MemoryTypes == MemorySpec => []TypesOK
<1>1. H!TypeOK => History!TypeOK
  BY DEF H!TypeOK, History!TypeOK, H!Lists, History!Lists, H!Steps, History!Steps
<1>2. Kinds /\ Linked => TypeOK
  BY KindsAreTypes
<1> QED
  BY <1>1, <1>2, EitherHolds, H!ListsAreTyped, HistoryBounds, SameHistory, StoresAreSeparate, PTL
     DEF TypesOK

(* However the threads interleave, each list is back within its bound once *)
(* the calls that appended to it have measured it, although a call may     *)
(* measure a list that another has replaced (_append_history, answer).     *)
THEOREM HistoriesAreBounded == MemorySpec => []BoundedAtRest
<1>1. H!BoundedAtRest => BoundedAtRest
  BY DEF H!BoundedAtRest, H!Items, BoundedAtRest, History!BoundedAtRest, History!Items
<1> QED
  BY <1>1, H!ListsAreBounded, HistoryBounds, SameHistory, StoresAreSeparate, PTL

(* The lists of a user whose own calls did not overlap are exact windows   *)
(* of the entries and turns, whatever the calls of other users do: no call *)
(* refers to another user's list (setdefault, _get_user_conversation_history). *)
THEOREM UsersStayApart == MemorySpec => []UsersDoNotInterfere
<1>1. H!UsersDoNotInterfere => UsersDoNotInterfere
  BY DEF H!UsersDoNotInterfere, H!Items, H!OfUser, H!Active, H!Steps, H!LastN, H!Filter,
         UsersDoNotInterfere, History!UsersDoNotInterfere, History!Items, History!OfUser,
         History!Active, History!Steps, History!LastN, History!Filter
<1> QED
  BY <1>1, H!ListsStayApart, HistoryBounds, SameHistory, StoresAreSeparate, PTL

(* self.history implements the window of the youngest entries that         *)
(* RecentLog specifies: appending an entry records it, once; measuring and *)
(* cutting, however late, are stutters (_append_history).                  *)
THEOREM HistoryIsRecentLog == MemorySpec => ImplementsRecentLog
<1> DEFINE recorded == {log[i] : i \in 1..Len(log)}
           seenByH == <<H!LastN(history, MaxHistoryEntries), recorded>>
           window == <<History!LastN(history, MaxHistoryEntries), recorded>>
<1>1. H!R!Init => History!R!Init
  BY DEF H!R!Init, History!R!Init, H!LastN, History!LastN
<1>2. [H!R!Next]_seenByH => [History!R!Next]_window
  <2>1. UNCHANGED seenByH => UNCHANGED window
    BY DEF H!LastN, History!LastN
  <2>2. H!R!Next => History!R!Next
    BY DEF H!R!Next, H!R!Record, H!R!LastN, H!LastN,
           History!R!Next, History!R!Record, History!R!LastN, History!LastN
  <2> QED
    BY <2>1, <2>2
<1> QED
  BY <1>1, <1>2, H!HistoryIsWindow, HistoryBounds, SameHistory, StoresAreSeparate, PTL
  DEF ImplementsRecentLog, History!ImplementsRecentLog, H!ImplementsRecentLog, History!R!Spec, H!R!Spec

-----------------------------------------------------------------------------
(* The schema cache.                                                       *)

Started == {c \in SchemaCalls : schemaPc[c] # "new"}

SchemaPlaces == {"new", "cached", "tables", "columns", "store", "returned", "failed"}

SchemaKinds ==
  /\ database \in [Tables -> Nat] /\ mtime \in Nat
  /\ cache # None => cache.mtime \in 0..mtime /\ cache.schema \in [Tables -> Nat]
  /\ schemaPc \in [SchemaCalls -> SchemaPlaces]
  /\ schema \in [SchemaCalls -> [Tables -> Nat]]
  /\ atStart \in [SchemaCalls -> [Tables -> Nat]]
  /\ left \in [SchemaCalls -> SUBSET Tables]
  /\ seen \in [SchemaCalls -> Nat \cup {None}]

(* A modification time stands for one state of the database, for each call *)
(* that has read it and for the entry.                                     *)
Stamped ==
  /\ \A c \in Started : /\ seen[c] \in 0..mtime
                        /\ Schema!NotOlder(database, atStart[c])
                        /\ seen[c] = mtime => atStart[c] = database
  /\ \A c, d \in Started : seen[c] = seen[d] => atStart[c] = atStart[d]

(* What a call has read is as new as its beginning, and exact unless the   *)
(* database has changed since.                                             *)
ReadWell ==
  \A c \in SchemaCalls :
    /\ schemaPc[c] \in {"new", "cached", "tables"} => schema[c] = Schema!NoTables
    /\ schemaPc[c] \in {"columns", "store"} => \A t \in Tables \ left[c] :
         schema[c][t] >= atStart[c][t] /\ (seen[c] = mtime => schema[c][t] = database[t])
    /\ schemaPc[c] = "store" => left[c] = {}

(* So is the entry, for every call that will find its time in it. *)
Cached ==
  cache # None =>
    /\ cache.mtime = mtime => cache.schema = database
    /\ \A c \in Started : cache.mtime = seen[c] => Schema!NotOlder(cache.schema, atStart[c])

SchemaInv == SchemaKinds /\ Stamped /\ ReadWell /\ Cached /\ Schema!NotOutdated

LEMMA SchemaInvInit ==
  ASSUME HasMtime = TRUE, Schema!Init PROVE SchemaInv
<1>1. /\ \A c \in SchemaCalls : schemaPc[c] = "new" /\ schema[c] = Schema!NoTables
      /\ Started = {}
  BY DEF Schema!Init, Started
<1>2. SchemaKinds
  BY DEF Schema!Init, SchemaKinds, SchemaPlaces, Schema!NoTables
<1>3. Stamped /\ ReadWell /\ Schema!NotOutdated
  BY <1>1 DEF Stamped, ReadWell, Schema!NotOutdated
<1>4. Cached
  BY DEF Schema!Init, Cached
<1> QED
  BY <1>2, <1>3, <1>4 DEF SchemaInv

LEMMA SchemaChange ==
  ASSUME HasMtime = TRUE, SchemaInv, NEW t \in Tables, Schema!Change(t)
  PROVE  SchemaInv'
<1>1. /\ mtime' = mtime + 1
      /\ database' = [database EXCEPT ![t] = @ + 1]
      /\ cache' = cache /\ schemaPc' = schemaPc /\ seen' = seen /\ left' = left /\ schema' = schema
      /\ atStart' = atStart
  BY DEF Schema!Change, Schema!reading
<1>2. database \in [Tables -> Nat] /\ mtime \in Nat
  BY DEF SchemaInv, SchemaKinds
<1>3. database' \in [Tables -> Nat] /\ \A u \in Tables : database'[u] >= database[u]
  BY <1>1, <1>2
<1>4. SchemaKinds'
  BY <1>1, <1>2, <1>3 DEF SchemaInv, SchemaKinds
<1>5. Stamped'
  <2>1. ASSUME NEW c \in Started
        PROVE  seen[c] \in 0..(mtime + 1) /\ seen[c] # mtime + 1 /\ Schema!NotOlder(database', atStart[c])
    <3>1. seen[c] \in 0..mtime
      BY DEF SchemaInv, Stamped
    <3>2. \A u \in Tables : database[u] >= atStart[c][u] /\ atStart[c][u] \in Nat
      BY DEF SchemaInv, Stamped, Schema!NotOlder, SchemaKinds, Started
    <3>3. \A u \in Tables : database'[u] >= atStart[c][u]
      BY <1>2, <1>3, <3>2
    <3> QED
      BY <1>2, <3>1, <3>3 DEF Schema!NotOlder
  <2> QED
    BY <1>1, <2>1 DEF SchemaInv, Stamped, Started, Schema!NotOlder
<1>6. ReadWell'
  <2>1. \A c \in SchemaCalls : schemaPc[c] # "new" => seen[c] # mtime + 1
    BY <1>2 DEF SchemaInv, Stamped, Started
  <2> QED
    BY <1>1, <2>1 DEF SchemaInv, ReadWell, Schema!NoTables
<1>7. Cached'
  BY <1>1, <1>2 DEF SchemaInv, SchemaKinds, Cached, Started, Schema!NotOlder
<1>8. (Schema!NotOutdated)'
  BY <1>1 DEF SchemaInv, Schema!NotOutdated, Schema!NotOlder
<1> QED
  BY <1>4, <1>5, <1>6, <1>7, <1>8 DEF SchemaInv

LEMMA SchemaStat ==
  ASSUME HasMtime = TRUE, SchemaInv, NEW c \in SchemaCalls, Schema!Stat(c)
  PROVE  SchemaInv'
<1>1. /\ mtime' = mtime /\ database' = database /\ cache' = cache
      /\ left' = left /\ schema' = schema
      /\ schemaPc[c] = "new" /\ schemaPc' = [schemaPc EXCEPT ![c] = "cached"]
      /\ seen' = [seen EXCEPT ![c] = mtime]
      /\ atStart' = [atStart EXCEPT ![c] = database]
  BY DEF Schema!Stat, Schema!At, Schema!Mtime
<1>2. /\ schemaPc'[c] = "cached" /\ seen'[c] = mtime /\ atStart'[c] = database
      /\ \A d \in SchemaCalls \ {c} : schemaPc'[d] = schemaPc[d] /\ seen'[d] = seen[d] /\ atStart'[d] = atStart[d]
  BY <1>1 DEF SchemaInv, SchemaKinds
<1>3. SchemaKinds'
  BY <1>1 DEF SchemaInv, SchemaKinds, SchemaPlaces
<1>4. \A d \in Started' : d = c \/ (d \in Started /\ d # c)
  BY <1>2 DEF Started
<1>5. \A t \in Tables : database[t] \in Nat
  BY DEF SchemaInv, SchemaKinds
<1>6. Stamped'
  <2>1. ASSUME NEW d \in Started'
        PROVE  /\ seen'[d] \in 0..mtime
               /\ Schema!NotOlder(database, atStart'[d])
               /\ seen'[d] = mtime => atStart'[d] = database
    BY <1>2, <1>4, <1>5 DEF SchemaInv, SchemaKinds, Stamped, Schema!NotOlder, Started
  <2>2. ASSUME NEW d \in Started', NEW e \in Started', seen'[d] = seen'[e]
        PROVE  atStart'[d] = atStart'[e]
    BY <1>2, <1>4, <2>1, <2>2 DEF SchemaInv, Stamped, Started
  <2> QED
    BY <1>1, <2>1, <2>2 DEF Stamped, Schema!NotOlder
<1>7. ReadWell'
  BY <1>1, <1>2 DEF SchemaInv, ReadWell, Schema!NoTables
<1>8. Cached'
  <2>1. ASSUME cache # None, NEW d \in Started', cache.mtime = seen'[d]
        PROVE  Schema!NotOlder(cache.schema, atStart'[d])
    <3>1. CASE d = c
      <4>1. cache.schema = database /\ atStart'[d] = database
        BY <1>2, <2>1, <3>1 DEF SchemaInv, Cached
      <4> QED
        BY <1>5, <4>1 DEF Schema!NotOlder
    <3>2. CASE d # c
      <4>1. d \in Started /\ seen'[d] = seen[d] /\ atStart'[d] = atStart[d]
        BY <1>2, <1>4, <3>2 DEF Started
      <4> QED
        BY <2>1, <4>1 DEF SchemaInv, Cached
    <3> QED
      BY <3>1, <3>2
  <2> QED
    BY <1>1, <2>1 DEF SchemaInv, Cached, Schema!NotOlder
<1>9. (Schema!NotOutdated)'
  BY <1>1, <1>2 DEF SchemaInv, Schema!NotOutdated, Schema!NotOlder
<1> QED
  BY <1>3, <1>6, <1>7, <1>8, <1>9 DEF SchemaInv

(* The steps of a call between its first and its last. *)
LEMMA SchemaRead ==
  ASSUME HasMtime = TRUE, SchemaInv, NEW c \in SchemaCalls,
         Schema!Hit(c) \/ Schema!Miss(c) \/ Schema!ReadTables(c) \/ Schema!ReadColumns(c) \/ Schema!AllRead(c) \/ Schema!Fail(c)
  PROVE  SchemaInv'
<1>1. /\ mtime' = mtime /\ database' = database /\ cache' = cache
      /\ seen' = seen /\ atStart' = atStart
  BY DEF Schema!Hit, Schema!Miss, Schema!ReadTables, Schema!ReadColumns, Schema!AllRead, Schema!Fail, Schema!reading
<1>2. /\ c \in Started /\ schemaPc'[c] # "new" /\ schemaPc' \in [SchemaCalls -> SchemaPlaces]
      /\ \A d \in SchemaCalls \ {c} : schemaPc'[d] = schemaPc[d]
  <2>1. schemaPc \in [SchemaCalls -> SchemaPlaces]
    BY DEF SchemaInv, SchemaKinds
  <2>2. PICK next \in SchemaPlaces \ {"new"} : schemaPc[c] # "new" /\ schemaPc' = [schemaPc EXCEPT ![c] = next]
    <3>1. CASE Schema!ReadColumns(c)
      <4>1. schemaPc[c] = "columns" /\ schemaPc' = schemaPc
        BY <3>1 DEF Schema!ReadColumns
      <4>2. schemaPc' = [schemaPc EXCEPT ![c] = "columns"]
        BY <2>1, <4>1
      <4> QED
        BY <4>1, <4>2 DEF SchemaPlaces
    <3>2. CASE Schema!Hit(c) \/ Schema!Miss(c) \/ Schema!ReadTables(c) \/ Schema!AllRead(c) \/ Schema!Fail(c)
      BY <3>2 DEF Schema!Hit, Schema!Miss, Schema!ReadTables, Schema!AllRead, Schema!Fail, Schema!At, SchemaPlaces
    <3> QED
      BY <3>1, <3>2
  <2> QED
    BY <2>1, <2>2 DEF Started
<1>3. Started' = Started
  BY <1>2 DEF Started
<1>4. Stamped' /\ Cached'
  BY <1>1, <1>3 DEF SchemaInv, Stamped, Cached, Schema!NotOlder
<1>5. ASSUME /\ schema' \in [SchemaCalls -> [Tables -> Nat]] /\ left' \in [SchemaCalls -> SUBSET Tables]
             /\ \A d \in SchemaCalls \ {c} : schema'[d] = schema[d] /\ left'[d] = left[d],
             schemaPc'[c] = "tables" => schema'[c] = Schema!NoTables,
             schemaPc'[c] # "cached",
             schemaPc'[c] \in {"columns", "store"} => \A t \in Tables \ left'[c] :
                 schema'[c][t] >= atStart[c][t] /\ (seen[c] = mtime => schema'[c][t] = database[t]),
             schemaPc'[c] = "store" => left'[c] = {},
             schemaPc'[c] = "returned" => Schema!NotOlder(schema'[c], atStart[c])
      PROVE  SchemaInv'
  <2>1. SchemaKinds'
    BY <1>1, <1>2, <1>5 DEF SchemaInv, SchemaKinds
  <2>2. ReadWell'
    BY <1>1, <1>2, <1>5 DEF SchemaInv, ReadWell, Schema!NoTables
  <2>3. (Schema!NotOutdated)'
    BY <1>1, <1>2, <1>5 DEF SchemaInv, Schema!NotOutdated, Schema!NotOlder
  <2> QED
    BY <1>4, <2>1, <2>2, <2>3 DEF SchemaInv
<1>6. /\ schema \in [SchemaCalls -> [Tables -> Nat]] /\ left \in [SchemaCalls -> SUBSET Tables]
      /\ schemaPc \in [SchemaCalls -> SchemaPlaces]
      /\ database \in [Tables -> Nat] /\ atStart[c] \in [Tables -> Nat]
  BY DEF SchemaInv, SchemaKinds
<1>7. \A t \in Tables : database[t] >= atStart[c][t]
  BY <1>2 DEF SchemaInv, Stamped, Schema!NotOlder
<1>8. CASE Schema!Hit(c)
  <2>1. /\ cache # None /\ cache.mtime = seen[c]
        /\ schemaPc'[c] = "returned" /\ left' = left
        /\ schema' = [schema EXCEPT ![c] = cache.schema]
    BY <1>6, <1>8 DEF Schema!Hit, Schema!Fits, Schema!At
  <2>2. cache.schema \in [Tables -> Nat]
    BY <2>1 DEF SchemaInv, SchemaKinds
  <2>3. Schema!NotOlder(cache.schema, atStart[c])
    BY <1>2, <2>1 DEF SchemaInv, Cached
  <2> QED
    BY <1>5, <1>6, <2>1, <2>2, <2>3
<1>9. CASE Schema!Miss(c)
  <2>1. /\ schemaPc[c] = "cached" /\ schemaPc'[c] = "tables" /\ left' = left /\ schema' = schema
    BY <1>6, <1>9 DEF Schema!Miss, Schema!At, Schema!reading
  <2>2. schema[c] = Schema!NoTables
    BY <2>1 DEF SchemaInv, ReadWell
  <2> QED
    BY <1>5, <1>6, <2>1, <2>2
<1>10. CASE Schema!ReadTables(c)
  <2>1. /\ schemaPc[c] = "tables" /\ schemaPc'[c] = "columns" /\ schema' = schema
        /\ left' = [left EXCEPT ![c] = {t \in Tables : database[t] > 0}]
    BY <1>6, <1>10 DEF Schema!ReadTables, Schema!At
  <2>2. \A t \in Tables : schema[c][t] = 0
    BY <2>1 DEF SchemaInv, ReadWell, Schema!NoTables
  <2>3. \A t \in Tables \ left'[c] : database[t] = 0
    BY <1>6, <2>1
  <2>4. \A t \in Tables \ left'[c] : atStart[c][t] = 0
    BY <1>6, <1>7, <2>3
  <2> QED
    BY <1>5, <1>6, <2>1, <2>2, <2>3, <2>4
<1>11. CASE Schema!ReadColumns(c)
  <2>1. PICK t \in left[c] : /\ schema' = [schema EXCEPT ![c][t] = database[t]]
                             /\ left' = [left EXCEPT ![c] = @ \ {t}]
    BY <1>11 DEF Schema!ReadColumns
  <2>2. schemaPc[c] = "columns" /\ schemaPc'[c] = "columns" /\ t \in Tables
    BY <1>6, <1>11 DEF Schema!ReadColumns
  <2>3. /\ schema' \in [SchemaCalls -> [Tables -> Nat]] /\ left' \in [SchemaCalls -> SUBSET Tables]
        /\ \A d \in SchemaCalls \ {c} : schema'[d] = schema[d] /\ left'[d] = left[d]
        /\ left'[c] = left[c] \ {t}
        /\ schema'[c] = [schema[c] EXCEPT ![t] = database[t]]
    BY <1>6, <2>1, <2>2
  <2>4. \A u \in Tables : schema'[c][u] = IF u = t THEN database[t] ELSE schema[c][u]
    BY <1>6, <2>3
  <2>5. \A u \in Tables \ left[c] :
          schema[c][u] >= atStart[c][u] /\ (seen[c] = mtime => schema[c][u] = database[u])
    BY <2>2 DEF SchemaInv, ReadWell
  <2>6. \A u \in Tables \ left'[c] :
          schema'[c][u] >= atStart[c][u] /\ (seen[c] = mtime => schema'[c][u] = database[u])
    BY <1>7, <2>3, <2>4, <2>5
  <2> QED
    BY <1>5, <2>2, <2>3, <2>6
<1>12. CASE Schema!AllRead(c)
  <2>1. schemaPc[c] = "columns" /\ schemaPc'[c] = "store" /\ left[c] = {} /\ left' = left /\ schema' = schema
    BY <1>6, <1>12 DEF Schema!AllRead, Schema!At, Schema!reading
  <2>2. \A t \in Tables \ left[c] :
          schema[c][t] >= atStart[c][t] /\ (seen[c] = mtime => schema[c][t] = database[t])
    BY <2>1 DEF SchemaInv, ReadWell
  <2> QED
    BY <1>5, <1>6, <2>1, <2>2
<1>13. CASE Schema!Fail(c)
  <2>1. schemaPc'[c] = "failed" /\ left' = [left EXCEPT ![c] = {}] /\ schema' = schema
    BY <1>6, <1>13 DEF Schema!Fail, Schema!At
  <2> QED
    BY <1>5, <1>6, <2>1
<1> QED
  BY <1>8, <1>9, <1>10, <1>11, <1>12, <1>13

LEMMA SchemaStore ==
  ASSUME HasMtime = TRUE, SchemaInv, NEW c \in SchemaCalls, Schema!Store(c)
  PROVE  SchemaInv'
<1>1. /\ mtime' = mtime /\ database' = database /\ atStart' = atStart
      /\ seen' = seen /\ left' = left /\ schema' = schema
      /\ cache' = [mtime |-> seen[c], schema |-> schema[c]]
      /\ schemaPc[c] = "store" /\ schemaPc' = [schemaPc EXCEPT ![c] = "returned"]
  BY DEF Schema!Store, Schema!At, Schema!reading
<1>2. /\ c \in Started /\ Started' = Started /\ schemaPc'[c] = "returned"
      /\ \A d \in SchemaCalls \ {c} : schemaPc'[d] = schemaPc[d]
  BY <1>1 DEF SchemaInv, SchemaKinds, Started
<1>3. cache'.mtime = seen[c] /\ cache'.schema = schema[c]
  BY <1>1
<1>4. seen[c] \in 0..mtime /\ schema[c] \in [Tables -> Nat] /\ database \in [Tables -> Nat]
  BY <1>2 DEF SchemaInv, SchemaKinds, Stamped
<1>5. \A t \in Tables :
        schema[c][t] >= atStart[c][t] /\ (seen[c] = mtime => schema[c][t] = database[t])
  BY <1>1 DEF SchemaInv, ReadWell
<1>6. SchemaKinds'
  <2>1. schemaPc' \in [SchemaCalls -> SchemaPlaces]
    BY <1>1 DEF SchemaInv, SchemaKinds, SchemaPlaces
  <2> QED
    BY <1>1, <1>3, <1>4, <2>1 DEF SchemaInv, SchemaKinds
<1>7. Stamped'
  BY <1>1, <1>2 DEF SchemaInv, Stamped, Schema!NotOlder
<1>8. ReadWell'
  BY <1>1, <1>2 DEF SchemaInv, ReadWell, Schema!NoTables
<1>9. Cached'
  <2>1. seen[c] = mtime => schema[c] = database
    BY <1>4, <1>5
  <2>2. \A d \in Started : seen[c] = seen[d] => atStart[d] = atStart[c]
    BY <1>2 DEF SchemaInv, Stamped
  <2>3. \A d \in Started : seen[c] = seen[d] => Schema!NotOlder(schema[c], atStart[d])
    BY <1>5, <2>2 DEF Schema!NotOlder
  <2> QED
    BY <1>1, <1>2, <1>3, <2>1, <2>3 DEF Cached, Schema!NotOlder
<1>10. (Schema!NotOutdated)'
  BY <1>1, <1>2, <1>5 DEF SchemaInv, Schema!NotOutdated, Schema!NotOlder
<1> QED
  BY <1>6, <1>7, <1>8, <1>9, <1>10 DEF SchemaInv

(* Whatever is written to the database while calls read it table by table, *)
(* a call returns a schema at least as new as its own beginning, and an    *)
(* entry under the file's present time is the present schema               *)
(* (get_allowed_schema, get_schema).                                       *)
THEOREM SchemaStaysCurrent == MemorySpec => []SchemaIsCurrent
<1>1. CASE HasMtime = FALSE
  <2>1. SchemaIsCurrent
    BY <1>1 DEF SchemaIsCurrent, Schema!SchemaIsCurrent, Schema!NotOutdated,
                Schema!CurrentIsExact
  <2> QED
    BY <2>1, PTL
<1>2. CASE HasMtime = TRUE
  <2>1. Schema!Init => SchemaInv
    BY <1>2, SchemaInvInit
  <2>2. SchemaInv /\ [Schema!Next]_(Schema!vars) => SchemaInv'
    <3> SUFFICES ASSUME SchemaInv, [Schema!Next]_(Schema!vars) PROVE SchemaInv'
      OBVIOUS
    <3>1. CASE \E c \in SchemaCalls : Schema!Step(c)
      BY <1>2, <3>1, SchemaStat, SchemaRead, SchemaStore DEF Schema!Step
    <3>2. CASE \E t \in Tables : Schema!Change(t)
      BY <1>2, <3>2, SchemaChange
    <3>3. CASE UNCHANGED Schema!vars
      BY <3>3 DEF Schema!vars, Schema!reading, SchemaInv, SchemaKinds, Stamped, ReadWell, Cached, Started,
                  Schema!NotOutdated, Schema!NotOlder, Schema!NoTables
    <3> QED
      BY <3>1, <3>2, <3>3 DEF Schema!Next
  <2>3. SchemaInv => SchemaIsCurrent
    BY DEF SchemaInv, Cached, SchemaIsCurrent, Schema!SchemaIsCurrent, Schema!CurrentIsExact
  <2> QED
    BY <2>1, <2>2, <2>3, StoresAreSeparate, PTL DEF Schema!Spec
<1> QED
  BY <1>1, <1>2, PartsAssumption DEF Schema!TargetAssumption

-----------------------------------------------------------------------------
(* The audit file.                                                         *)

AuditKinds ==
  /\ file \in Seq([record : Records, part : {"whole", "head", "tail"}])
  /\ auditLog \in Seq(Records)
  /\ auditPc \in [Records -> {"new", "rest", "returned", "failed"}]
  /\ IsFiniteSet(short) /\ IsFiniteSet(Audit!Returned)

(* A record in two parts is one of short, and has begun once.              *)
Heads ==
  /\ \A r \in Records : auditPc[r] = "rest" => r \in short
  /\ \A r \in short : r \in Records /\ auditPc[r] # "new"
  /\ \A i \in 1..Len(file) : file[i].part = "head" => file[i].record \in short
  /\ \A i, j \in 1..Len(file) :
       file[i].part = "head" /\ file[j].part = "head" /\ file[i].record = file[j].record => i = j

Wholes ==
  \A r \in Audit!Returned \ short : \E i \in 1..Len(file) : file[i] = Audit!Piece(r, "whole")

Untorn ==
  short = {} =>
    /\ Len(file) = Len(auditLog)
    /\ \A i \in 1..Len(file) : file[i] = Audit!Piece(auditLog[i], "whole")

AuditInv == AuditKinds /\ Heads /\ Wholes /\ Untorn

LEMMA AuditInvInit ==
  ASSUME Audit!Init PROVE AuditInv
<1>1. <<>> \in Seq([record : Records, part : {"whole", "head", "tail"}]) /\ <<>> \in Seq(Records)
      /\ Len(<<>>) = 0
  BY EmptySeq
<1>2. Audit!Returned = {}
  BY DEF Audit!Init, Audit!Returned
<1>3. AuditKinds
  BY <1>1, <1>2, FS_EmptySet DEF Audit!Init, AuditKinds
<1>4. Heads /\ Wholes /\ Untorn
  BY <1>1, <1>2 DEF Audit!Init, Heads, Wholes, Untorn
<1> QED
  BY <1>3, <1>4 DEF AuditInv

(* A piece is added to the file; nothing else in it changes.               *)
LEMMA AuditExtend ==
  ASSUME AuditInv, NEW r \in Records, NEW side \in {"whole", "head", "tail"},
         Audit!Extend(Audit!Piece(r, side))
  PROVE  /\ file' \in Seq([record : Records, part : {"whole", "head", "tail"}])
         /\ Len(file) \in Nat /\ Len(file') = Len(file) + 1
         /\ \A i \in 1..Len(file') : i \in 1..Len(file) \/ i = Len(file) + 1
         /\ \A i \in 1..Len(file) : file'[i] = file[i]
         /\ file'[Len(file) + 1] = Audit!Piece(r, side)
         /\ file'[Len(file) + 1].record = r /\ file'[Len(file) + 1].part = side
<1> DEFINE piece == Audit!Piece(r, side)
           Pieces == [record : Records, part : {"whole", "head", "tail"}]
<1>1. file \in Seq(Pieces) /\ file' = Append(file, piece)
  BY DEF AuditInv, AuditKinds, Audit!Extend
<1>2. piece \in Pieces /\ piece.record = r /\ piece.part = side
  BY DEF Audit!Piece
<1> HIDE DEF piece, Pieces
<1>3. /\ file' \in Seq(Pieces)
      /\ Len(file') = Len(file) + 1
      /\ \A i \in 1..Len(file) : file'[i] = file[i]
      /\ file'[Len(file) + 1] = piece
  BY <1>1, <1>2, AppendProperties
<1>4. Len(file) \in Nat
  BY <1>1, LenProperties
<1>5. \A i \in 1..(Len(file) + 1) : i \in 1..Len(file) \/ i = Len(file) + 1
  BY <1>4
<1> QED
  BY <1>2, <1>3, <1>4, <1>5 DEF piece, Pieces

LEMMA AuditMoves ==
  ASSUME AuditInv, NEW r \in Records, NEW here, NEW next \in {"rest", "returned", "failed"},
         Audit!At(r, here, next)
  PROVE  /\ auditPc[r] = here /\ auditPc'[r] = next
         /\ \A q \in Records \ {r} : auditPc'[q] = auditPc[q]
         /\ auditPc' \in [Records -> {"new", "rest", "returned", "failed"}]
         /\ IsFiniteSet(Audit!Returned')
         /\ \A q \in Audit!Returned' : q \in Audit!Returned \/ (q = r /\ next = "returned")
<1>1. auditPc \in [Records -> {"new", "rest", "returned", "failed"}] /\ IsFiniteSet(Audit!Returned)
  BY DEF AuditInv, AuditKinds
<1>2. auditPc[r] = here /\ auditPc' = [auditPc EXCEPT ![r] = next]
  BY DEF Audit!At
<1>3. /\ auditPc'[r] = next
      /\ \A q \in Records \ {r} : auditPc'[q] = auditPc[q]
      /\ auditPc' \in [Records -> {"new", "rest", "returned", "failed"}]
  BY <1>1, <1>2
<1>4. \A q \in Audit!Returned' : q \in Audit!Returned \/ (q = r /\ next = "returned")
  BY <1>3 DEF Audit!Returned
<1>5. IsFiniteSet(Audit!Returned \cup {r})
  BY <1>1, FS_AddElement
<1>6. Audit!Returned' \subseteq Audit!Returned \cup {r}
  BY <1>4
<1>7. IsFiniteSet(Audit!Returned')
  BY <1>5, <1>6, FS_Subset
<1> QED
  BY <1>2, <1>3, <1>4, <1>7

LEMMA AuditWrite ==
  ASSUME AuditInv, NEW r \in Records, Audit!Write(r) PROVE AuditInv'
<1>1. /\ auditPc[r] = "new" /\ auditPc'[r] = "returned"
      /\ \A q \in Records \ {r} : auditPc'[q] = auditPc[q]
      /\ auditPc' \in [Records -> {"new", "rest", "returned", "failed"}]
      /\ IsFiniteSet(Audit!Returned')
      /\ \A q \in Audit!Returned' : q \in Audit!Returned \/ q = r
  BY AuditMoves DEF Audit!Write
<1>2. /\ file' \in Seq([record : Records, part : {"whole", "head", "tail"}])
      /\ Len(file) \in Nat /\ Len(file') = Len(file) + 1
      /\ \A i \in 1..Len(file') : i \in 1..Len(file) \/ i = Len(file) + 1
      /\ \A i \in 1..Len(file) : file'[i] = file[i]
      /\ file'[Len(file) + 1] = Audit!Piece(r, "whole")
      /\ file'[Len(file) + 1].record = r /\ file'[Len(file) + 1].part = "whole"
  BY AuditExtend DEF Audit!Write
<1>3. short' = short /\ auditLog' = Append(auditLog, r)
  BY DEF Audit!Write
<1>4. AuditKinds'
  <2>1. auditLog' \in Seq(Records)
    BY <1>3, AppendProperties DEF AuditInv, AuditKinds
  <2> QED
    BY <1>1, <1>2, <1>3, <2>1 DEF AuditInv, AuditKinds
<1>5. Heads'
  BY <1>1, <1>2, <1>3 DEF AuditInv, Heads
<1>6. Wholes'
  <2>1. \A i \in 1..Len(file) : i \in 1..Len(file')
    BY <1>2
  <2>2. Len(file) + 1 \in 1..Len(file')
    BY <1>2
  <2>3. ASSUME NEW q \in Audit!Returned' \ short' PROVE \E i \in 1..Len(file') : file'[i] = Audit!Piece(q, "whole")
    BY <1>1, <1>2, <1>3, <2>1, <2>2 DEF AuditInv, Wholes
  <2>4. \A q : Audit!Piece(q, "whole")' = Audit!Piece(q, "whole")
    BY DEF Audit!Piece
  <2> QED
    BY <2>3, <2>4 DEF Wholes
<1>7. Untorn'
  <2> SUFFICES ASSUME short = {}
               PROVE  /\ Len(file') = Len(auditLog')
                      /\ \A i \in 1..Len(file') : file'[i] = Audit!Piece(auditLog'[i], "whole")
    BY <1>3 DEF Untorn, Audit!Piece
  <2>1. /\ Len(auditLog') = Len(auditLog) + 1 /\ auditLog'[Len(auditLog) + 1] = r
        /\ \A i \in 1..Len(auditLog) : auditLog'[i] = auditLog[i]
    BY <1>3, AppendProperties DEF AuditInv, AuditKinds
  <2>2. /\ Len(file) = Len(auditLog)
        /\ \A i \in 1..Len(file) : file[i] = Audit!Piece(auditLog[i], "whole")
    BY DEF AuditInv, Untorn
  <2> QED
    BY <1>2, <2>1, <2>2
<1> QED
  BY <1>4, <1>5, <1>6, <1>7 DEF AuditInv

LEMMA AuditWriteShort ==
  ASSUME AuditInv, NEW r \in Records, Audit!WriteShort(r) PROVE AuditInv'
<1>1. /\ auditPc[r] = "new" /\ auditPc'[r] = "rest"
      /\ \A q \in Records \ {r} : auditPc'[q] = auditPc[q]
      /\ auditPc' \in [Records -> {"new", "rest", "returned", "failed"}]
      /\ IsFiniteSet(Audit!Returned')
      /\ \A q \in Audit!Returned' : q \in Audit!Returned
  BY AuditMoves DEF Audit!WriteShort
<1>2. /\ file' \in Seq([record : Records, part : {"whole", "head", "tail"}])
      /\ Len(file) \in Nat /\ Len(file') = Len(file) + 1
      /\ \A i \in 1..Len(file') : i \in 1..Len(file) \/ i = Len(file) + 1
      /\ \A i \in 1..Len(file) : file'[i] = file[i]
      /\ file'[Len(file) + 1].record = r /\ file'[Len(file) + 1].part = "head"
  BY AuditExtend DEF Audit!WriteShort
<1>3. short' = short \cup {r} /\ auditLog' = auditLog /\ IsFiniteSet(short')
  BY FS_AddElement DEF Audit!WriteShort, AuditInv, AuditKinds
<1>4. AuditKinds'
  BY <1>1, <1>2, <1>3 DEF AuditInv, AuditKinds
<1>5. Heads'
  <2>1. \A q \in Records : auditPc'[q] = "rest" => q \in short'
    BY <1>1, <1>3 DEF AuditInv, Heads
  <2>2. \A q \in short' : q \in Records /\ auditPc'[q] # "new"
    BY <1>1, <1>3 DEF AuditInv, Heads
  <2>3. r \notin short
    BY <1>1 DEF AuditInv, Heads
  <2>4. \A i \in 1..Len(file) : file'[i].part = "head" => file'[i].record \in short
    BY <1>2 DEF AuditInv, Heads
  <2>5. \A i \in 1..Len(file') : file'[i].part = "head" => file'[i].record \in short'
    BY <1>2, <1>3, <2>4
  <2>6. \A i, j \in 1..Len(file) :
          file'[i].part = "head" /\ file'[j].part = "head" /\ file'[i].record = file'[j].record => i = j
    BY <1>2 DEF AuditInv, Heads
  <2>7. \A i, j \in 1..Len(file') :
          file'[i].part = "head" /\ file'[j].part = "head" /\ file'[i].record = file'[j].record => i = j
    BY <1>2, <2>3, <2>4, <2>6
  <2> QED
    BY <2>1, <2>2, <2>5, <2>7 DEF Heads
<1>6. Wholes'
  <2>1. \A i \in 1..Len(file) : i \in 1..Len(file')
    BY <1>2
  <2>2. ASSUME NEW q \in Audit!Returned' \ short' PROVE \E i \in 1..Len(file') : file'[i] = Audit!Piece(q, "whole")
    BY <1>1, <1>2, <1>3, <2>1 DEF AuditInv, Wholes
  <2>3. \A q : Audit!Piece(q, "whole")' = Audit!Piece(q, "whole")
    BY DEF Audit!Piece
  <2> QED
    BY <2>2, <2>3 DEF Wholes
<1>7. Untorn'
  BY <1>3 DEF Untorn
<1> QED
  BY <1>4, <1>5, <1>6, <1>7 DEF AuditInv

LEMMA AuditWriteRest ==
  ASSUME AuditInv, NEW r \in Records, Audit!WriteRest(r) PROVE AuditInv'
<1>1. /\ auditPc[r] = "rest" /\ auditPc'[r] = "returned"
      /\ \A q \in Records \ {r} : auditPc'[q] = auditPc[q]
      /\ auditPc' \in [Records -> {"new", "rest", "returned", "failed"}]
      /\ IsFiniteSet(Audit!Returned')
      /\ \A q \in Audit!Returned' : q \in Audit!Returned \/ q = r
  BY AuditMoves DEF Audit!WriteRest
<1>2. /\ file' \in Seq([record : Records, part : {"whole", "head", "tail"}])
      /\ Len(file) \in Nat /\ Len(file') = Len(file) + 1
      /\ \A i \in 1..Len(file') : i \in 1..Len(file) \/ i = Len(file) + 1
      /\ \A i \in 1..Len(file) : file'[i] = file[i]
      /\ file'[Len(file) + 1].record = r /\ file'[Len(file) + 1].part = "tail"
  BY AuditExtend DEF Audit!WriteRest
<1>3. short' = short /\ auditLog' = auditLog
  BY DEF Audit!WriteRest
<1>4. r \in short
  BY <1>1 DEF AuditInv, Heads
<1>5. AuditKinds' /\ Untorn'
  BY <1>1, <1>2, <1>3, <1>4 DEF AuditInv, AuditKinds, Untorn
<1>6. Heads'
  BY <1>1, <1>2, <1>3 DEF AuditInv, Heads
<1>7. Wholes'
  <2>1. \A i \in 1..Len(file) : i \in 1..Len(file')
    BY <1>2
  <2>2. ASSUME NEW q \in Audit!Returned' \ short' PROVE \E i \in 1..Len(file') : file'[i] = Audit!Piece(q, "whole")
    BY <1>1, <1>2, <1>3, <1>4, <2>1 DEF AuditInv, Wholes
  <2>3. \A q : Audit!Piece(q, "whole")' = Audit!Piece(q, "whole")
    BY DEF Audit!Piece
  <2> QED
    BY <2>2, <2>3 DEF Wholes
<1> QED
  BY <1>5, <1>6, <1>7 DEF AuditInv

(* Nothing is written, and no record returns.                              *)
LEMMA AuditQuiet ==
  ASSUME AuditInv, UNCHANGED <<file, auditLog, short>>,
         auditPc' \in [Records -> {"new", "rest", "returned", "failed"}],
         \A q \in Records : auditPc'[q] = auditPc[q] \/ (auditPc'[q] = "failed")
  PROVE  AuditInv'
<1>1. Audit!Returned' \subseteq Audit!Returned
  BY DEF Audit!Returned
<1>2. IsFiniteSet(Audit!Returned')
  BY <1>1, FS_Subset DEF AuditInv, AuditKinds
<1>3. AuditKinds' /\ Heads'
  BY <1>2 DEF AuditInv, AuditKinds, Heads
<1>4. Wholes' /\ Untorn'
  BY <1>1 DEF AuditInv, Wholes, Untorn, Audit!Piece
<1> QED
  BY <1>3, <1>4 DEF AuditInv

LEMMA AuditInvStep ==
  ASSUME AuditInv, [Audit!Next]_(Audit!vars) PROVE AuditInv'
<1>1. auditPc \in [Records -> {"new", "rest", "returned", "failed"}]
  BY DEF AuditInv, AuditKinds
<1>2. ASSUME NEW r \in Records, Audit!Fail(r) PROVE AuditInv'
  <2>1. UNCHANGED <<file, auditLog, short>>
    BY <1>2 DEF Audit!Fail
  <2>2. auditPc' = [auditPc EXCEPT ![r] = "failed"]
    BY <1>2 DEF Audit!Fail, Audit!At
  <2> QED
    BY <1>1, <2>1, <2>2, AuditQuiet
<1>3. CASE Audit!Crash
  <2>1. UNCHANGED <<file, auditLog, short>>
    BY <1>3 DEF Audit!Crash
  <2>2. auditPc' = [r \in Records |-> IF auditPc[r] = "rest" THEN "failed" ELSE auditPc[r]]
    BY <1>3 DEF Audit!Crash
  <2> QED
    BY <1>1, <2>1, <2>2, AuditQuiet
<1>4. CASE UNCHANGED Audit!vars
  BY <1>1, <1>4, AuditQuiet DEF Audit!vars
<1> QED
  BY <1>2, <1>3, <1>4, AuditWrite, AuditWriteShort, AuditWriteRest DEF Audit!Next

LEMMA AuditDamage ==
  ASSUME AuditInv PROVE Audit!DamageIsBounded
<1> DEFINE D == Audit!Returned \ Audit!Readable
           w == [r \in D \ short |-> CHOOSE i \in 1..Len(file) : file[i] = Audit!Piece(r, "whole")]
           f == [r \in D \ short |-> file[w[r] - 1].record]
<1>1. IsFiniteSet(D) /\ IsFiniteSet(short) /\ IsFiniteSet(short \cap Audit!Returned)
  <2>1. IsFiniteSet(Audit!Returned) /\ IsFiniteSet(short)
    BY DEF AuditInv, AuditKinds
  <2> HIDE DEF D
  <2>2. IsFiniteSet(D)
    <3>1. D \in SUBSET Audit!Returned
      BY DEF D
    <3> QED
      BY <2>1, <3>1, FS_Subset
  <2> QED
    BY <2>1, <2>2, FS_Intersection
<1>2. Len(file) \in Nat
  BY LenProperties DEF AuditInv, AuditKinds
<1>3. ASSUME NEW r \in D \ short
      PROVE  /\ w[r] \in 1..Len(file) /\ file[w[r]] = Audit!Piece(r, "whole")
             /\ w[r] - 1 \in 1..Len(file)
             /\ file[w[r] - 1].part = "head"
             /\ file[w[r] - 1].record \in short
  <2>1. \E i \in 1..Len(file) : file[i] = Audit!Piece(r, "whole")
    BY DEF AuditInv, Wholes
  <2>2. w[r] \in 1..Len(file) /\ file[w[r]] = Audit!Piece(r, "whole")
    BY <2>1
  <2> HIDE DEF w
  <2>3. file[w[r]].record = r /\ file[w[r]].part = "whole"
    BY <2>2 DEF Audit!Piece
  <2>4. ~Audit!IsRecord(w[r])
    BY <2>2, <2>3 DEF Audit!Readable
  <2>5. w[r] # 1 /\ file[w[r] - 1].part = "head"
    BY <2>3, <2>4 DEF Audit!IsRecord, Audit!StartsLine, Audit!EndsLine
  <2>6. w[r] - 1 \in 1..Len(file)
    BY <1>2, <2>2, <2>5
  <2>7. file[w[r] - 1].record \in short
    BY <2>5, <2>6 DEF AuditInv, Heads
  <2> QED
    BY <2>2, <2>5, <2>6, <2>7
<1>4. f \in Injection(D \ short, short)
  <2> HIDE DEF D, w
  <2>1. f \in [D \ short -> short]
    BY <1>3
  <2>2. ASSUME NEW q \in D \ short, NEW r \in D \ short, f[q] = f[r]
        PROVE  q = r
    <3>1. file[w[q] - 1].record = file[w[r] - 1].record
      BY <2>2
    <3>2. w[q] - 1 = w[r] - 1
      BY <1>3, <3>1 DEF AuditInv, Heads
    <3>3. w[q] \in Int /\ w[r] \in Int
      BY <1>3
    <3>4. w[q] = w[r]
      BY <3>2, <3>3
    <3>5. Audit!Piece(q, "whole") = Audit!Piece(r, "whole")
      BY <1>3, <3>4
    <3>6. Audit!Piece(q, "whole").record = q /\ Audit!Piece(r, "whole").record = r
      BY DEF Audit!Piece
    <3> QED
      BY <3>5, <3>6
  <2> HIDE DEF f
  <2> QED
    BY <2>1, <2>2 DEF Injection, IsInjective
<1> HIDE DEF D, f, w
<1>5. Cardinality(D \ short) <= Cardinality(short)
  BY <1>1, <1>4, FS_Injection
<1>6. Cardinality(D \ short) = Cardinality(D) - Cardinality(D \cap short)
  BY <1>1, FS_Difference
<1>7. /\ IsFiniteSet(D \cap short)
      /\ Cardinality(D \cap short) <= Cardinality(short \cap Audit!Returned)
  <2>1. D \cap short \in SUBSET (short \cap Audit!Returned)
    BY DEF D
  <2> QED
    BY <1>1, <2>1, FS_Subset
<1>8. /\ Cardinality(D) \in Nat /\ Cardinality(D \cap short) \in Nat /\ Cardinality(short) \in Nat
      /\ Cardinality(short \cap Audit!Returned) \in Nat
  BY <1>1, <1>7, FS_CardinalityType
<1>9. Cardinality(D) <= Cardinality(short) + Cardinality(short \cap Audit!Returned)
  BY <1>5, <1>6, <1>7, <1>8
<1>10. \A T : Audit!Cardinality(T) = Cardinality(T)
  BY DEF Audit!Cardinality, Cardinality
<1> QED
  BY <1>9, <1>10 DEF D, Audit!DamageIsBounded

LEMMA AuditWindow ==
  ASSUME Audit!BoundsAssumption, AuditInv PROVE Audit!RecentIsYoungest
<1> SUFFICES ASSUME short = {} PROVE Audit!RecentIsYoungest
  BY DEF Audit!RecentIsYoungest
<1> DEFINE n == Len(file)
           all == [i \in 1..n |-> i]
           ends == {i \in 1..n : Audit!EndsLine(i) \/ i = n}
           wanted == LastN(all, Limit)
           window == LastN(auditLog, Limit)
<1>1. /\ \A s, k : Audit!LastN(s, k) = LastN(s, k)
      /\ \A s, T : Audit!Filter(s, T) = Filter(s, T)
  BY DEF Audit!LastN, LastN, Audit!Filter, Filter
<1>2. /\ n \in Nat /\ n = Len(auditLog) /\ auditLog \in Seq(Records)
      /\ Limit \in Nat \ {0}
  BY LenProperties DEF AuditInv, AuditKinds, Untorn, Audit!BoundsAssumption
<1>3. \A i \in 1..n : /\ file[i].record = auditLog[i] /\ file[i].part = "whole"
                      /\ Audit!EndsLine(i)
  <2> SUFFICES ASSUME NEW i \in 1..Len(file)
               PROVE  file[i].record = auditLog[i] /\ file[i].part = "whole" /\ Audit!EndsLine(i)
    OBVIOUS
  <2>1. file[i] = Audit!Piece(auditLog[i], "whole")
    BY DEF AuditInv, Untorn
  <2>2. file[i].record = auditLog[i] /\ file[i].part = "whole"
    BY <2>1 DEF Audit!Piece
  <2> QED
    BY <2>2 DEF Audit!EndsLine
<1>4. \A i \in 1..n : Audit!IsRecord(i)
  <2> SUFFICES ASSUME NEW i \in 1..n PROVE Audit!StartsLine(i)
    BY <1>3 DEF Audit!IsRecord
  <2>1. i = 1 \/ i - 1 \in 1..n
    BY <1>2
  <2> QED
    BY <1>3, <2>1 DEF Audit!StartsLine
<1>5. all \in Seq(1..n) /\ Len(all) = n /\ \A i \in 1..n : all[i] = i
  <2> HIDE DEF n
  <2> QED
    BY <1>2, IsASeq
<1>6. Audit!Lines = all
  <2>1. Audit!Lines = Filter(all, ends)
    BY <1>1 DEF Audit!Lines
  <2>2. \A i \in 1..Len(all) : all[i] \in ends
    BY <1>3, <1>5
  <2> HIDE DEF all, ends, n
  <2> QED
    BY <1>5, <2>1, <2>2, FilterAll
<1>7. Audit!Wanted = wanted
  BY <1>1, <1>6 DEF Audit!Wanted
<1> HIDE DEF all, n, ends
<1>8. /\ Len(wanted) \in Nat /\ Len(wanted) = Len(window)
      /\ \A i \in 1..Len(wanted) : wanted[i] \in 1..n /\ window[i] = auditLog[wanted[i]]
  <2>1. CASE n <= Limit
    <3>1. wanted = all /\ window = auditLog
      BY <1>2, <1>5, <2>1, LastNType
    <3> QED
      BY <1>2, <1>5, <3>1
  <2>2. CASE n > Limit
    <3>1. /\ Len(wanted) = Limit /\ Len(window) = Limit
          /\ \A i \in 1..Limit : wanted[i] = all[n - Limit + i] /\ window[i] = auditLog[n - Limit + i]
      <4>1. Limit > 0 /\ Len(all) > Limit /\ Len(auditLog) > Limit /\ Limit \in Nat
        BY <1>2, <1>5, <2>2
      <4>2. /\ Len(wanted) = Limit
            /\ \A i \in 1..Limit : wanted[i] = all[Len(all) - Limit + i]
        BY <1>5, <4>1, LastNType
      <4>3. /\ Len(window) = Limit
            /\ \A i \in 1..Limit : window[i] = auditLog[Len(auditLog) - Limit + i]
        BY <1>2, <4>1, LastNType
      <4> HIDE DEF wanted, window
      <4> QED
        BY <1>2, <1>5, <4>2, <4>3
    <3>2. \A i \in 1..Limit : n - Limit + i \in 1..n
      BY <1>2, <2>2
    <3> HIDE DEF wanted, window
    <3> QED
      BY <1>2, <1>5, <3>1, <3>2
  <2> QED
    BY <1>2, <2>1, <2>2
<1> HIDE DEF wanted, window
<1>9. Audit!Recent = [i \in 1..Len(wanted) |-> file[wanted[Len(wanted) + 1 - i]].record]
  BY <1>4, <1>7, <1>8 DEF Audit!Recent
<1>10. \A i \in 1..Len(wanted) : file[wanted[Len(wanted) + 1 - i]].record = window[Len(window) + 1 - i]
  <2> SUFFICES ASSUME NEW i \in 1..Len(wanted)
               PROVE  file[wanted[Len(wanted) + 1 - i]].record = window[Len(window) + 1 - i]
    OBVIOUS
  <2>1. Len(wanted) + 1 - i \in 1..Len(wanted)
    BY <1>8
  <2> QED
    BY <1>3, <1>8, <2>1
<1>11. Audit!LastN(auditLog, Limit) = window
  BY <1>1 DEF window
<1> QED
  BY <1>8, <1>9, <1>10, <1>11 DEF Audit!RecentIsYoungest

(* Whoever appends in what order: recent() returns the youngest records,   *)
(* youngest first, as long as all were written at once; and a record that  *)
(* was torn spoils at most one other, however the threads interleave and   *)
(* the process restarts (AuditLogger.record, recent).                      *)
THEOREM AuditStaysReadable == MemorySpec => []AuditIsReadable
<1>1. Audit!Init => AuditInv
  BY AuditInvInit
<1>2. AuditInv /\ [Audit!Next]_(Audit!vars) => AuditInv'
  BY AuditInvStep
<1>3. AuditInv => AuditIsReadable
  BY AuditWindow, AuditDamage, PartsAssumption DEF AuditIsReadable, Audit!AuditIsReadable
<1> QED
  BY <1>1, <1>2, <1>3, StoresAreSeparate, PTL DEF Audit!Spec
=============================================================================
