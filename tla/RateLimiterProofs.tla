-------------------------- MODULE RateLimiterProofs -------------------------
(***************************************************************************)
(* Theorems about RateLimiter, for any number of calls, users and threads, *)
(* any limits and any interleaving.                                        *)
(***************************************************************************)
EXTENDS RateLimiter, FiniteSetTheorems, TLAPS

LEMMA TrackedFinite ==
  /\ IsFiniteSet(Tracked)
  /\ Cardinality(Tracked) \in Nat
BY CallsAssumption, FS_Subset, FS_CardinalityType DEF Tracked

(* Where a call goes after the first statements, and after len. *)
LEMMA FirstStepRange ==
  ASSUME NEW c \in Calls
  PROVE  FirstStep(c) \in {"admitted", "iterate", "clock"} /\ AfterLen \in {"iterate", "clock"}
BY DEF FirstStep, AfterLen

(* Storing a list keeps the dictionary's type. *)
LEMMA PutType ==
  ASSUME TypeOK, NEW c \in Calls, Put(c)
  PROVE  slot' \in [Users -> SUBSET Calls] /\ ahead' \in [Users -> SUBSET Users]
<1>1. Tracked \in SUBSET Users /\ who[c] \in Users /\ {c} \in SUBSET Calls
  BY DEF Tracked, TypeOK
<1> QED
  BY <1>1 DEF Put, TypeOK

-----------------------------------------------------------------------------
LEMMA TypeInit == Init => TypeOK
BY CallsAssumption DEF Init, TypeOK, Sweeping, Judging, Ended

LEMMA TypeNext == TypeOK /\ [Next]_vars => TypeOK'
<1> SUFFICES ASSUME TypeOK, [Next]_vars PROVE TypeOK'
  OBVIOUS
<1> USE DEF TypeOK, dict, local, Goto, Sweeping, Judging, Ended
<1>1. CASE UNCHANGED vars
  BY <1>1 DEF vars
<1>2. CASE Tick
  BY <1>2, NumbersAssumption DEF Tick
<1>3. ASSUME NEW c \in Calls, Begin(c) PROVE TypeOK'
  BY <1>3, FirstStepRange DEF Begin
<1>4. ASSUME NEW c \in Calls, Size(c) PROVE TypeOK'
  BY <1>4, FirstStepRange DEF Size
<1>5. ASSUME NEW c \in Calls, Iterate(c) PROVE TypeOK'
  BY <1>5, TrackedFinite DEF Iterate
<1>6. ASSUME NEW c \in Calls, NextOldest(c) PROVE TypeOK'
  BY <1>6 DEF NextOldest, Tracked
<1>7. ASSUME NEW c \in Calls, NextFails(c) PROVE TypeOK'
  BY <1>7 DEF NextFails
<1>8. ASSUME NEW c \in Calls, Pop(c) PROVE TypeOK'
  BY <1>8 DEF Pop, Drop, Stamped
<1>9. ASSUME NEW c \in Calls, Clock(c) PROVE TypeOK'
  BY <1>9 DEF Clock
<1>10. ASSUME NEW c \in Calls, Get(c) PROVE TypeOK'
  BY <1>10 DEF Get
<1>11. ASSUME NEW c \in Calls, Filter(c) PROVE TypeOK'
  <2>1. Recent(c) \in SUBSET Calls
    BY DEF Recent
  <2> QED
    BY <1>11, <2>1 DEF Filter
<1>12. ASSUME NEW c \in Calls, Store(c) PROVE TypeOK'
  BY <1>12, PutType DEF Store
<1>13. ASSUME NEW c \in Calls, AppendNow(c) PROVE TypeOK'
  BY <1>13 DEF AppendNow
<1>14. ASSUME NEW c \in Calls, Restore(c) PROVE TypeOK'
  BY <1>14, PutType DEF Restore
<1> QED
  BY <1>1, <1>2, <1>3, <1>4, <1>5, <1>6, <1>7, <1>8, <1>9, <1>10, <1>11, <1>12, <1>13, <1>14
  DEF Next, Step

(* Every variable of the limiter holds values of its kind; RuntimeError is *)
(* the only way a call may fail.                                           *)
THEOREM LimiterTypeCorrect == Spec => []TypeOK
BY TypeInit, TypeNext, PTL DEF Spec

LEMMA ParallelIsNat == TypeOK => parallel \in Nat \ {0}
BY NumbersAssumption DEF TypeOK

LEMMA ParallelStays == [Next]_vars => parallel' = parallel
BY DEF Next, Begin, Step, Size, Iterate, NextOldest, NextFails, Pop, Clock, Get, Filter, Store,
       AppendNow, Restore, Tick, vars

-----------------------------------------------------------------------------
(* The bound on the users.  Reserved holds the keys of the dictionary and  *)
(* the users of the calls that are past their test of len and may insert.  *)
Inserting == {c \in Calls : pc[c] \in Judging}

UsersOf(S) == {who[c] : c \in S}

Reserved == Tracked \cup UsersOf(Inserting)

BoundInv ==
  /\ TypeOK
  /\ Cardinality(Active) <= parallel
  /\ MaxUsers > 0 => Cardinality(Reserved) <= MaxUsers + parallel - 1

LEMMA AllFinite ==
  ASSUME TypeOK
  PROVE  /\ IsFiniteSet(Active) /\ IsFiniteSet(Inserting)
         /\ IsFiniteSet(Reserved) /\ Reserved \in SUBSET Users
         /\ Cardinality(Active) \in Nat /\ Cardinality(Reserved) \in Nat
<1>1. Active \in SUBSET Calls /\ Inserting \in SUBSET Calls
  BY DEF Active, Inserting
<1>2. Reserved \in SUBSET Users
  BY DEF Reserved, Tracked, UsersOf, Inserting, TypeOK
<1> QED
  BY <1>1, <1>2, CallsAssumption, FS_Subset, FS_CardinalityType

(* A smaller set of reserved users keeps the bound. *)
LEMMA BoundShrinks ==
  ASSUME BoundInv, TypeOK', Active' \subseteq Active, Reserved' \subseteq Reserved,
         UNCHANGED parallel
  PROVE  BoundInv'
<1>1. /\ Cardinality(Active') \in Nat /\ Cardinality(Active) \in Nat
      /\ Cardinality(Active') <= Cardinality(Active)
  BY AllFinite, FS_Subset, FS_CardinalityType DEF BoundInv
<1>2. /\ Cardinality(Reserved') \in Nat /\ Cardinality(Reserved) \in Nat
      /\ Cardinality(Reserved') <= Cardinality(Reserved)
  BY AllFinite, FS_Subset, FS_CardinalityType DEF BoundInv
<1> QED
  BY <1>1, <1>2, ParallelIsNat, NumbersAssumption DEF BoundInv

(* A call that found room, or an empty dictionary, joins the others that   *)
(* may insert: there are fewer than parallel of them beside it.            *)
LEMMA RoomLeft ==
  ASSUME TypeOK, TypeOK', NEW c \in Calls, Cardinality(Active') <= parallel,
         c \in Inserting', Tracked' = Tracked, MaxUsers > 0,
         Cardinality(Tracked) < MaxUsers
  PROVE  Cardinality(Reserved') <= MaxUsers + parallel - 1
<1>1. Inserting' \in SUBSET Active'
  BY DEF Inserting, Active
<1>2. IsFiniteSet(Active') /\ IsFiniteSet(Inserting')
  BY AllFinite, <1>1, FS_Subset, CallsAssumption DEF Active
<1>3. Cardinality(Inserting') <= parallel /\ Cardinality(Inserting') \in Nat
  BY <1>1, <1>2, FS_Subset, FS_CardinalityType, ParallelIsNat
<1>4. IsFiniteSet(UsersOf(Inserting)') /\ Cardinality(UsersOf(Inserting)') <= Cardinality(Inserting')
  <2> DEFINE f == [d \in Inserting' |-> who'[d]]
  <2>1. f \in Surjection(Inserting', UsersOf(Inserting)')
    BY DEF Surjection, UsersOf
  <2> QED
    BY <2>1, <1>2, FS_Surjection
<1>5. /\ Cardinality(Tracked \cup UsersOf(Inserting)') =
         Cardinality(Tracked) + Cardinality(UsersOf(Inserting)')
           - Cardinality(Tracked \cap UsersOf(Inserting)')
      /\ Cardinality(Tracked \cap UsersOf(Inserting)') \in Nat
  BY <1>4, TrackedFinite, FS_Union, FS_Intersection, FS_CardinalityType
<1>6. Cardinality(UsersOf(Inserting)') \in Nat /\ Cardinality(Tracked) \in Nat
  BY <1>4, TrackedFinite, FS_CardinalityType
<1>7. Reserved' = Tracked \cup UsersOf(Inserting)'
  BY DEF Reserved
<1> QED
  BY <1>3, <1>4, <1>5, <1>6, <1>7, ParallelIsNat, NumbersAssumption

LEMMA BoundInit == Init => BoundInv
<1> SUFFICES ASSUME Init PROVE BoundInv
  OBVIOUS
<1>1. Active = {} /\ Reserved = {}
  BY DEF Init, Active, Sweeping, Judging, Reserved, Tracked, Inserting, UsersOf
<1>2. Cardinality({}) = 0
  BY FS_EmptySet
<1> QED
  BY <1>1, <1>2, TypeInit, ParallelIsNat, NumbersAssumption DEF BoundInv

(* A call begins: one more is active, and either its user is tracked       *)
(* already, or there is room, or it goes to sweep.                         *)
LEMMA BoundBegin ==
  ASSUME BoundInv, TypeOK', NEW c \in Calls, Begin(c)
  PROVE  BoundInv'
<1> USE DEF Begin, Goto, dict, local
<1>1. UNCHANGED <<who, parallel, slot>> /\ Tracked' = Tracked
  BY DEF Tracked
<1>2. pc' = [pc EXCEPT ![c] = FirstStep(c)] /\ pc \in [Calls -> {"new"} \cup Sweeping \cup Judging \cup Ended]
  BY DEF BoundInv, TypeOK
<1>3. Cardinality(Active') <= parallel
  <2>1. Active' \in SUBSET (Active \cup {c})
    BY <1>2 DEF Active
  <2>0. IsFiniteSet(Active) /\ Cardinality(Active) \in Nat
    BY AllFinite DEF BoundInv
  <2>2. /\ IsFiniteSet(Active \cup {c})
        /\ Cardinality(Active \cup {c}) <= Cardinality(Active) + 1
    BY <2>0, FS_AddElement
  <2>3. /\ Cardinality(Active') <= Cardinality(Active \cup {c})
        /\ Cardinality(Active') \in Nat /\ Cardinality(Active \cup {c}) \in Nat
    BY <2>1, <2>2, FS_Subset, FS_CardinalityType
  <2>4. Cardinality(Active) < parallel
    OBVIOUS
  <2> HIDE DEF Begin
  <2> QED
    BY <2>0, <2>2, <2>3, <2>4, ParallelIsNat DEF BoundInv
<1>4. CASE FirstStep(c) = "clock" /\ who[c] \notin Tracked /\ MaxUsers > 0
  <2>1. Cardinality(Tracked) < MaxUsers
    BY <1>4, TrackedFinite, NumbersAssumption DEF FirstStep, AfterLen
  <2>2. c \in Inserting'
    BY <1>2, <1>4 DEF Inserting, Judging
  <2> QED
    BY <1>1, <1>3, <1>4, <2>1, <2>2, RoomLeft DEF BoundInv
<1>5. CASE ~(FirstStep(c) = "clock" /\ who[c] \notin Tracked /\ MaxUsers > 0)
  <2>1. MaxUsers > 0 => Reserved' \subseteq Reserved
    BY <1>1, <1>2, <1>5, FirstStepRange
    DEF Reserved, UsersOf, Inserting, Judging
  <2>2. IsFiniteSet(Reserved) /\ Cardinality(Reserved) \in Nat
    BY AllFinite DEF BoundInv
  <2>3. MaxUsers > 0 => /\ Cardinality(Reserved') <= Cardinality(Reserved)
                        /\ Cardinality(Reserved') \in Nat
    BY <2>1, <2>2, FS_Subset, FS_CardinalityType
  <2> QED
    BY <1>3, <2>2, <2>3, ParallelIsNat, NumbersAssumption DEF BoundInv
<1> QED
  BY <1>4, <1>5

(* The sweep's test of len, or its empty iterator, lets the call go on. *)
LEMMA BoundLeaveSweep ==
  ASSUME BoundInv, TypeOK', NEW c \in Calls, pc[c] \in Sweeping,
         NEW next \in Sweeping \cup {"clock"},
         pc' = [pc EXCEPT ![c] = next], UNCHANGED <<who, parallel, slot>>,
         next = "clock" => MaxUsers = 0 \/ Cardinality(Tracked) < MaxUsers
  PROVE  BoundInv'
<1>1. Tracked' = Tracked
  BY DEF Tracked
<1>2. pc \in [Calls -> {"new"} \cup Sweeping \cup Judging \cup Ended]
  BY DEF BoundInv, TypeOK
<1>3. Active' = Active
  BY <1>2 DEF Active, Judging
<1>4. CASE next = "clock" /\ MaxUsers > 0
  <2>1. c \in Inserting'
    BY <1>2, <1>4 DEF Inserting, Judging
  <2>2. Cardinality(Tracked) < MaxUsers
    BY <1>4, NumbersAssumption
  <2> QED
    BY <1>1, <1>3, <1>4, <2>1, <2>2, RoomLeft DEF BoundInv
<1>5. CASE next # "clock"
  <2>1. Reserved' \subseteq Reserved
    BY <1>1, <1>2, <1>5 DEF Reserved, UsersOf, Inserting, Judging, Sweeping
  <2> QED
    BY <1>3, <2>1, BoundShrinks
<1>6. CASE ~(MaxUsers > 0)
  BY <1>3, <1>6 DEF BoundInv
<1> QED
  BY <1>4, <1>5, <1>6

(* A step of a call that is past its test: its user is reserved already. *)
LEMMA BoundJudge ==
  ASSUME BoundInv, TypeOK', NEW c \in Calls, pc[c] \in Judging,
         NEW next \in Judging \cup Ended,
         pc' = [pc EXCEPT ![c] = next], UNCHANGED <<who, parallel>>, UNCHANGED slot \/ Put(c)
  PROVE  BoundInv'
<1>1. pc \in [Calls -> {"new"} \cup Sweeping \cup Judging \cup Ended]
  BY DEF BoundInv, TypeOK
<1>2. Active' \subseteq Active
  BY <1>1 DEF Active
<1>3. Tracked' \subseteq Tracked \cup {who[c]}
  BY DEF Tracked, Put, BoundInv, TypeOK
<1>4. who[c] \in Reserved
  BY DEF Reserved, UsersOf, Inserting
<1>5. Inserting' \subseteq Inserting
  BY <1>1 DEF Inserting
<1>6. Reserved' \subseteq Reserved
  BY <1>3, <1>4, <1>5 DEF Reserved, UsersOf
<1> QED
  BY <1>2, <1>6, BoundShrinks

LEMMA BoundPop ==
  ASSUME BoundInv, TypeOK', NEW c \in Calls, Pop(c)
  PROVE  BoundInv'
<1>1. pc' = [pc EXCEPT ![c] = "size"] /\ pc[c] = "pop" /\ UNCHANGED <<who, parallel>>
  BY DEF Pop, Goto
<1>2. pc \in [Calls -> {"new"} \cup Sweeping \cup Judging \cup Ended]
  BY DEF BoundInv, TypeOK
<1>3. Tracked' \subseteq Tracked
  BY DEF Pop, Drop, Tracked, BoundInv, TypeOK
<1>4. Active' \subseteq Active
  BY <1>1, <1>2 DEF Active, Sweeping
<1>5. Inserting' \subseteq Inserting
  BY <1>1, <1>2 DEF Inserting, Judging
<1>6. Reserved' \subseteq Reserved
  BY <1>1, <1>3, <1>5 DEF Reserved, UsersOf
<1> QED
  BY <1>1, <1>4, <1>6, BoundShrinks

LEMMA BoundNext == BoundInv /\ [Next]_vars => BoundInv'
<1> SUFFICES ASSUME BoundInv, [Next]_vars PROVE BoundInv'
  OBVIOUS
<1>0. TypeOK'
  BY TypeNext DEF BoundInv
<1> USE DEF dict, local, Goto
<1>1. CASE UNCHANGED vars \/ Tick
  <2>1. UNCHANGED <<pc, who, parallel, slot>>
    BY <1>1 DEF vars, Tick
  <2>2. Active' = Active /\ Reserved' = Reserved
    BY <2>1 DEF Active, Reserved, Tracked, UsersOf, Inserting
  <2> QED
    BY <1>0, <2>1, <2>2, BoundShrinks
<1>2. ASSUME NEW c \in Calls, Begin(c) PROVE BoundInv'
  BY <1>0, <1>2, BoundBegin
<1>3. ASSUME NEW c \in Calls, Size(c) PROVE BoundInv'
  <2>1. AfterLen \in Sweeping \cup {"clock"} /\ pc[c] \in Sweeping
    BY <1>3 DEF AfterLen, Sweeping, Size
  <2>2. AfterLen = "clock" => Cardinality(Tracked) < MaxUsers
    BY TrackedFinite, NumbersAssumption DEF AfterLen
  <2>3. pc' = [pc EXCEPT ![c] = AfterLen] /\ UNCHANGED <<who, parallel, slot>>
    BY <1>3 DEF Size
  <2> QED
    BY <1>0, <2>1, <2>2, <2>3, BoundLeaveSweep
<1>4. ASSUME NEW c \in Calls, Iterate(c) PROVE BoundInv'
  <2>1. pc[c] \in Sweeping /\ "next" \in Sweeping \cup {"clock"}
    BY <1>4 DEF Iterate, Sweeping
  <2>2. pc' = [pc EXCEPT ![c] = "next"] /\ UNCHANGED <<who, parallel, slot>>
    BY <1>4 DEF Iterate
  <2> QED
    BY <1>0, <2>1, <2>2, BoundLeaveSweep
<1>5. ASSUME NEW c \in Calls, NextOldest(c) PROVE BoundInv'
  <2>1. pc[c] \in Sweeping /\ {"pop", "clock"} \subseteq Sweeping \cup {"clock"}
    BY <1>5 DEF NextOldest, Sweeping
  <2>2. UNCHANGED <<who, parallel, slot>>
    BY <1>5 DEF NextOldest
  <2>3. CASE pc' = [pc EXCEPT ![c] = "pop"]
    BY <1>0, <2>1, <2>2, <2>3, BoundLeaveSweep
  <2>4. CASE pc' = [pc EXCEPT ![c] = "clock"] /\ Tracked = {}
    <3>1. MaxUsers = 0 \/ Cardinality(Tracked) < MaxUsers
      BY <2>4, FS_EmptySet, NumbersAssumption
    <3> QED
      BY <1>0, <2>1, <2>2, <2>4, <3>1, BoundLeaveSweep
  <2> QED
    BY <1>5, <2>3, <2>4 DEF NextOldest
<1>6. ASSUME NEW c \in Calls, NextFails(c) PROVE BoundInv'
  <2>1. pc' = [pc EXCEPT ![c] = "failed"] /\ UNCHANGED <<who, parallel, slot>>
    BY <1>6 DEF NextFails
  <2>2. Active' \subseteq Active /\ Inserting' \subseteq Inserting
    BY <2>1 DEF Active, Inserting, Sweeping, Judging, BoundInv, TypeOK
  <2>3. Reserved' \subseteq Reserved
    BY <2>1, <2>2 DEF Reserved, Tracked, UsersOf
  <2> QED
    BY <1>0, <2>1, <2>2, <2>3, BoundShrinks
<1>7. ASSUME NEW c \in Calls, Pop(c) PROVE BoundInv'
  BY <1>0, <1>7, BoundPop
<1>8. ASSUME NEW c \in Calls, Clock(c) \/ Get(c) \/ Filter(c) \/ AppendNow(c) PROVE BoundInv'
  <2>1. pc[c] \in Judging /\ UNCHANGED <<who, parallel, slot>>
    BY <1>8 DEF Clock, Get, Filter, AppendNow, Judging
  <2>2. PICK next \in Judging \cup Ended : pc' = [pc EXCEPT ![c] = next]
    BY <1>8 DEF Clock, Get, Filter, AppendNow, Judging
  <2> QED
    BY <1>0, <2>1, <2>2, BoundJudge
<1>9. ASSUME NEW c \in Calls, Store(c) \/ Restore(c) PROVE BoundInv'
  <2>1. pc[c] \in Judging /\ UNCHANGED <<who, parallel>> /\ Put(c)
    BY <1>9 DEF Store, Restore, Judging
  <2>2. PICK next \in Judging \cup Ended : pc' = [pc EXCEPT ![c] = next]
    BY <1>9 DEF Store, Restore, Judging, Ended
  <2> QED
    BY <1>0, <2>1, <2>2, BoundJudge
<1> QED
  BY <1>1, <1>2, <1>3, <1>4, <1>5, <1>6, <1>7, <1>8, <1>9 DEF Next, Step

(* However many threads evict and insert at once, the dictionary holds at  *)
(* most one user more than its bound for each other call under way; with   *)
(* one call at a time, the bound itself.                                   *)
THEOREM UsersStayBounded == Spec => []TrackedBound
<1>1. BoundInv => TrackedBound
  <2> SUFFICES ASSUME BoundInv, MaxUsers > 0
               PROVE  Cardinality(Tracked) <= MaxUsers + parallel - 1
    BY DEF TrackedBound
  <2>1. Tracked \in SUBSET Reserved
    BY DEF Reserved
  <2>2. Cardinality(Tracked) <= Cardinality(Reserved) /\ Cardinality(Reserved) \in Nat
    BY <2>1, AllFinite, FS_Subset DEF BoundInv
  <2> QED
    BY <2>2, TrackedFinite, ParallelIsNat, NumbersAssumption DEF BoundInv
<1> QED
  BY <1>1, BoundInit, BoundNext, PTL DEF Spec

-----------------------------------------------------------------------------
(* Refusals.  A list, wherever it lies, holds timestamps that its own user *)
(* has appended, and those a call counts lie within its window.            *)
OwnLists ==
  /\ \A u \in Users : \A s \in slot[u] : who[s] = u
  /\ \A c \in Calls : \A s \in source[c] : who[s] = who[c]
  /\ \A c \in Calls : \A d \in list[c] : d \in Stamped /\ who[d] = who[c]

Counted(c) == {d \in Stamped : who[d] = who[c] /\ stamp[c] < stamp[d] + Window}

RefusalInv ==
  /\ TypeOK
  /\ OwnLists
  /\ \A c \in Calls : pc[c] \in {"store", "refused"} => list[c] \subseteq Counted(c)
  /\ \A c \in Calls : pc[c] = "refused" => Cardinality(list[c]) >= Limit

LEMMA RefusalInit == Init => RefusalInv
BY TypeInit DEF Init, RefusalInv, OwnLists

(* Steps that leave lists and stamps alone, refuse nobody and measure      *)
(* nothing.                                                                *)
LEMMA RefusalKept ==
  ASSUME RefusalInv, TypeOK', UNCHANGED <<who, list, stamp>>,
         Stamped \subseteq Stamped',
         \A c \in Calls : pc'[c] \in {"store", "refused"} => pc'[c] = pc[c],
         \A u \in Users : \A s \in slot'[u] : who[s] = u,
         \A c \in Calls : \A s \in source'[c] : who[s] = who[c]
  PROVE  RefusalInv'
<1>1. OwnLists'
  BY DEF RefusalInv, OwnLists
<1>2. \A c \in Calls : Counted(c) \subseteq Counted(c)'
  BY DEF Counted
<1> QED
  BY <1>1, <1>2 DEF RefusalInv

(* A call only moves from one position to another. *)
LEMMA RefusalMove ==
  ASSUME RefusalInv, TypeOK', NEW c \in Calls, NEW next,
         pc[c] \notin {"restore", "admitted"} \/ next \in {"restore", "admitted"},
         next \notin {"store", "refused"},
         pc' = [pc EXCEPT ![c] = next], UNCHANGED <<who, list, stamp>>,
         UNCHANGED slot \/ Put(c) \/ \E v \in Users : slot' = [slot EXCEPT ![v] = {}],
         UNCHANGED source \/ source' = [source EXCEPT ![c] = slot[who[c]]]
  PROVE  RefusalInv'
<1>1. pc \in [Calls -> {"new"} \cup Sweeping \cup Judging \cup Ended]
  BY DEF RefusalInv, TypeOK
<1>2. Stamped \subseteq Stamped'
  BY <1>1 DEF Stamped
<1>3. \A d \in Calls : pc'[d] \in {"store", "refused"} => pc'[d] = pc[d]
  BY <1>1
<1>4. \A u \in Users : \A s \in slot'[u] : who[s] = u
  BY DEF RefusalInv, OwnLists, Put, TypeOK
<1>5. \A d \in Calls : \A s \in source'[d] : who[s] = who[d]
  BY SMTT(20) DEF RefusalInv, OwnLists, TypeOK
<1> QED
  BY <1>2, <1>3, <1>4, <1>5, RefusalKept

(* now is taken before anything is measured. *)
LEMMA RefusalClock ==
  ASSUME RefusalInv, TypeOK', NEW c \in Calls, Clock(c)
  PROVE  RefusalInv'
<1> USE DEF Clock, Goto, dict
<1>1. pc \in [Calls -> {"new"} \cup Sweeping \cup Judging \cup Ended] /\ stamp \in [Calls -> Nat]
  BY DEF RefusalInv, TypeOK
<1>2. Stamped' = Stamped /\ c \notin Stamped
  BY <1>1 DEF Stamped
<1>3. OwnLists'
  BY <1>2 DEF RefusalInv, OwnLists
<1>4. \A d \in Calls : pc'[d] \in {"store", "refused"} =>
        d # c /\ pc[d] = pc'[d] /\ Counted(d)' = Counted(d)
  BY <1>1, <1>2 DEF Counted
<1> QED
  BY <1>3, <1>4 DEF RefusalInv

(* The comprehension copies what is recent of a list of the same user. *)
LEMMA RefusalFilter ==
  ASSUME RefusalInv, TypeOK', NEW c \in Calls, Filter(c)
  PROVE  RefusalInv'
<1> USE DEF Filter, Goto, dict
<1>1. /\ pc \in [Calls -> {"new"} \cup Sweeping \cup Judging \cup Ended]
      /\ list \in [Calls -> SUBSET Calls] /\ source \in [Calls -> SUBSET Calls]
  BY DEF RefusalInv, TypeOK
<1>2. Stamped' = Stamped
  BY <1>1 DEF Stamped
<1>3. Recent(c) \subseteq Counted(c)
  BY <1>1 DEF Recent, Counted, RefusalInv, OwnLists
<1>4. list' = [list EXCEPT ![c] = Recent(c)]
  OBVIOUS
<1>5. OwnLists'
  <2>1. \A u \in Users : \A s \in slot'[u] : who'[s] = u
    BY DEF RefusalInv, OwnLists
  <2>2. \A d \in Calls : \A s \in source'[d] : who'[s] = who'[d]
    BY <1>1 DEF RefusalInv, OwnLists
  <2>3. \A d \in Calls : \A e \in list'[d] : e \in Stamped' /\ who'[e] = who'[d]
    BY <1>1, <1>2, <1>3, <1>4 DEF RefusalInv, OwnLists, Counted
  <2> QED
    BY <2>1, <2>2, <2>3 DEF OwnLists
<1>6. \A d \in Calls : Counted(d)' = Counted(d)
  BY <1>2 DEF Counted
<1>7. \A d \in Calls : pc'[d] \in {"store", "refused"} => list'[d] \subseteq Counted(d)'
  BY <1>1, <1>3, <1>4, <1>6 DEF RefusalInv
<1>8. \A d \in Calls : pc'[d] = "refused" => Cardinality(list'[d]) >= Limit
  BY <1>1, <1>4 DEF RefusalInv
<1> QED
  BY <1>5, <1>7, <1>8 DEF RefusalInv

(* The list is measured: whoever is refused counted Limit timestamps. *)
LEMMA RefusalStore ==
  ASSUME RefusalInv, TypeOK', NEW c \in Calls, Store(c)
  PROVE  RefusalInv'
<1> USE DEF Store, Goto, local
<1>1. pc \in [Calls -> {"new"} \cup Sweeping \cup Judging \cup Ended]
  BY DEF RefusalInv, TypeOK
<1>2. Stamped' = Stamped /\ pc[c] = "store"
  BY <1>1 DEF Stamped
<1>3. OwnLists'
  BY <1>2 DEF RefusalInv, OwnLists, Put, TypeOK
<1>4. \A d \in Calls : Counted(d)' = Counted(d)
  BY <1>2 DEF Counted
<1>5. \A d \in Calls : pc'[d] \in {"store", "refused"} => list'[d] \subseteq Counted(d)'
  BY <1>1, <1>2, <1>4 DEF RefusalInv
<1>6. \A d \in Calls : pc'[d] = "refused" => Cardinality(list'[d]) >= Limit
  BY <1>1 DEF RefusalInv, Exceeds
<1> QED
  BY <1>3, <1>5, <1>6 DEF RefusalInv

(* The call's own timestamp joins its list. *)
LEMMA RefusalAppend ==
  ASSUME RefusalInv, TypeOK', NEW c \in Calls, AppendNow(c)
  PROVE  RefusalInv'
<1> USE DEF AppendNow, Goto, dict
<1>1. /\ pc \in [Calls -> {"new"} \cup Sweeping \cup Judging \cup Ended]
      /\ list \in [Calls -> SUBSET Calls]
  BY DEF RefusalInv, TypeOK
<1>2. Stamped' = Stamped \cup {c}
  BY <1>1 DEF Stamped
<1>3. OwnLists'
  BY <1>1, <1>2 DEF RefusalInv, OwnLists
<1>4. \A d \in Calls : Counted(d) \subseteq Counted(d)'
  BY <1>2 DEF Counted
<1>5. \A d \in Calls : pc'[d] \in {"store", "refused"} => d # c /\ pc[d] = pc'[d]
  BY <1>1
<1> QED
  BY <1>1, <1>3, <1>4, <1>5 DEF RefusalInv

LEMMA RefusalNext == RefusalInv /\ [Next]_vars => RefusalInv'
<1> SUFFICES ASSUME RefusalInv, [Next]_vars PROVE RefusalInv'
  OBVIOUS
<1>0. TypeOK'
  BY TypeNext DEF RefusalInv
<1> USE DEF dict, local, Goto
<1>1. CASE UNCHANGED vars \/ Tick
  <2>1. UNCHANGED <<pc, who, slot, list, stamp, source>>
    BY <1>1 DEF vars, Tick
  <2>2. Stamped' = Stamped
    BY <2>1 DEF Stamped
  <2> QED
    BY <1>0, <2>1, <2>2, RefusalKept DEF RefusalInv, OwnLists
<1>2. ASSUME NEW c \in Calls, Begin(c) PROVE RefusalInv'
  <2>1. FirstStep(c) \notin {"store", "refused"}
    BY FirstStepRange
  <2> QED
    BY <1>0, <1>2, <2>1, RefusalMove DEF Begin
<1>3. ASSUME NEW c \in Calls, Size(c) PROVE RefusalInv'
  <2>1. AfterLen \notin {"store", "refused"}
    BY FirstStepRange
  <2> QED
    BY <1>0, <1>3, <2>1, RefusalMove DEF Size
<1>4. ASSUME NEW c \in Calls, Iterate(c) PROVE RefusalInv'
  BY <1>0, <1>4, RefusalMove DEF Iterate
<1>5. ASSUME NEW c \in Calls, NextOldest(c) PROVE RefusalInv'
  BY <1>0, <1>5, RefusalMove DEF NextOldest
<1>6. ASSUME NEW c \in Calls, NextFails(c) PROVE RefusalInv'
  BY <1>0, <1>6, RefusalMove DEF NextFails
<1>7. ASSUME NEW c \in Calls, Pop(c) PROVE RefusalInv'
  <2>1. \E v \in Users : slot' = [slot EXCEPT ![v] = {}]
    BY <1>7 DEF Pop, Drop, RefusalInv, TypeOK
  <2> QED
    BY <1>0, <1>7, <2>1, RefusalMove DEF Pop
<1>8. ASSUME NEW c \in Calls, Clock(c) PROVE RefusalInv'
  BY <1>0, <1>8, RefusalClock
<1>9. ASSUME NEW c \in Calls, Get(c) PROVE RefusalInv'
  BY <1>0, <1>9, RefusalMove DEF Get
<1>10. ASSUME NEW c \in Calls, Filter(c) PROVE RefusalInv'
  BY <1>0, <1>10, RefusalFilter
<1>11. ASSUME NEW c \in Calls, Store(c) PROVE RefusalInv'
  BY <1>0, <1>11, RefusalStore
<1>12. ASSUME NEW c \in Calls, AppendNow(c) PROVE RefusalInv'
  BY <1>0, <1>12, RefusalAppend
<1>13. ASSUME NEW c \in Calls, Restore(c) PROVE RefusalInv'
  BY <1>0, <1>13, RefusalMove DEF Restore
<1> QED
  BY <1>1, <1>2, <1>3, <1>4, <1>5, <1>6, <1>7, <1>8, <1>9, <1>10, <1>11, <1>12, <1>13
  DEF Next, Step

(* However the threads interleave, a call is refused only when Limit calls *)
(* of its own user were let through within the window before it.           *)
THEOREM RefusalsAreJustified == Spec => []RefusalJustified
<1>1. RefusalInv => RefusalJustified
  <2> SUFFICES ASSUME RefusalInv, NEW c \in Calls, pc[c] = "refused"
               PROVE  Cardinality(Counted(c)) >= Limit
    BY DEF RefusalJustified, Counted
  <2>1. list[c] \in SUBSET Counted(c) /\ Cardinality(list[c]) >= Limit
    BY DEF RefusalInv
  <2>2. IsFiniteSet(Counted(c))
    <3>1. Counted(c) \in SUBSET Calls
      BY DEF Counted, Stamped
    <3> QED
      BY <3>1, CallsAssumption, FS_Subset
  <2>3. /\ Cardinality(list[c]) <= Cardinality(Counted(c)) /\ IsFiniteSet(list[c])
        /\ Cardinality(Counted(c)) \in Nat
    BY <2>1, <2>2, FS_Subset, FS_CardinalityType
  <2>4. Cardinality(list[c]) \in Nat
    BY <2>3, FS_CardinalityType
  <2> QED
    BY <2>1, <2>3, <2>4, NumbersAssumption
<1> QED
  BY <1>1, RefusalInit, RefusalNext, PTL DEF Spec
-----------------------------------------------------------------------------
(* One call at a time.  The admissions of u that count at time t.          *)
Admissions(u, t) == {d \in Stamped \ forgotten : who[d] = u /\ t < stamp[d] + Window}

Sole == \A c, d \in Active : c = d

Stored == {"append", "restore", "admitted", "refused"}

(* The list under a key holds every admission that counted when it was     *)
(* filtered, and none that was forgotten; without a list, all are.         *)
Kept ==
  \A u \in Users :
    /\ slot[u] = {} => \A d \in Stamped : who[d] = u => d \in forgotten
    /\ \A s \in slot[u] : /\ slot[u] = {s} /\ pc[s] \in Stored
                          /\ list[s] \cap forgotten = {}
                          /\ Admissions(u, stamp[s]) \subseteq list[s]

Latest ==
  \A c \in Calls :
    /\ stamp[c] <= clock
    /\ pc[c] \in Judging \ {"clock"} => \A d \in Calls : stamp[d] <= stamp[c]

(* What the call that is being judged has in hand. *)
InHand ==
  \A c \in Calls :
    /\ pc[c] = "filter" => source[c] = slot[who[c]]
    /\ pc[c] \in {"store", "append"} => list[c] = Admissions(who[c], stamp[c])
    /\ pc[c] \in {"append", "restore"} => slot[who[c]] = {c}
    /\ pc[c] = "append" => Cardinality(list[c]) < Limit

AdmissionsBound ==
  Limit > 0 => \A u \in Users :
    Cardinality({c \in Stamped \ forgotten :
                   who[c] = u /\ clock < stamp[c] + Window}) <= Limit

WindowInv ==
  RefusalInv /\ forgotten \subseteq Stamped /\ Sole /\ Kept /\ Latest /\ InHand /\ AdmissionsBound

LEMMA WindowInit ==
  ASSUME Init PROVE WindowInv
<1>1. RefusalInv /\ Active = {} /\ Stamped = {} /\ forgotten \subseteq Stamped
  BY RefusalInit DEF Init, Active, Sweeping, Judging, Stamped
<1>2. Sole /\ Kept /\ Latest /\ InHand
  BY <1>1 DEF Init, Sole, Kept, Latest, InHand, Judging
<1>3. AdmissionsBound
  <2>1. \A u \in Users : {c \in Stamped \ forgotten : who[c] = u /\ clock < stamp[c] + Window} = {}
    BY <1>1
  <2>2. Cardinality({}) = 0
    BY FS_EmptySet
  <2>3. Limit > 0 => Cardinality({}) <= Limit
    BY <2>2, NumbersAssumption
  <2> QED
    BY <2>1, <2>3 DEF AdmissionsBound
<1> QED
  BY <1>1, <1>2, <1>3 DEF WindowInv

(* No more calls count, for no user: the window stays within its bound. *)
LEMMA WindowShrinks ==
  ASSUME WindowInv, \A u \in Users : Admissions(u, clock)' \subseteq Admissions(u, clock)
  PROVE  AdmissionsBound'
<1> SUFFICES ASSUME Limit > 0, NEW u \in Users
             PROVE  Cardinality(Admissions(u, clock)') <= Limit
  BY DEF AdmissionsBound, Admissions
<1>1. Cardinality(Admissions(u, clock)) <= Limit
  BY DEF WindowInv, AdmissionsBound, Admissions
<1>2. IsFiniteSet(Admissions(u, clock))
  <2>1. Admissions(u, clock) \in SUBSET Calls
    BY DEF Admissions, Stamped
  <2> QED
    BY <2>1, CallsAssumption, FS_Subset
<1>3. /\ Cardinality(Admissions(u, clock)') <= Cardinality(Admissions(u, clock))
      /\ IsFiniteSet(Admissions(u, clock)')
  BY <1>2, FS_Subset
<1>4. Cardinality(Admissions(u, clock)') \in Nat /\ Cardinality(Admissions(u, clock)) \in Nat
  BY <1>2, <1>3, FS_CardinalityType
<1> QED
  BY <1>1, <1>3, <1>4, NumbersAssumption

(* The other calls do not move while one is active, and none begins.       *)
LEMMA SoleStep ==
  ASSUME WindowInv, NEW c \in Active, NEW next, pc' = [pc EXCEPT ![c] = next]
  PROVE  /\ Sole'
         /\ \A d \in Calls \ {c} : pc'[d] = pc[d] /\ pc[d] \notin Sweeping \cup Judging
         /\ pc'[c] = next
<1>1. pc \in [Calls -> {"new"} \cup Sweeping \cup Judging \cup Ended] /\ c \in Calls
  BY DEF WindowInv, RefusalInv, TypeOK, Active
<1>2. \A d \in Calls \ {c} : pc'[d] = pc[d] /\ pc[d] \notin Sweeping \cup Judging
  BY <1>1 DEF WindowInv, Sole, Active
<1> QED
  BY <1>1, <1>2 DEF Sole, Active

(* Steps that leave the lists, the stamps and the admissions alone.        *)
LEMMA WindowStill ==
  ASSUME WindowInv, RefusalInv', Sole', InHand',
         UNCHANGED <<who, slot, list, stamp, forgotten>>, clock' \in Nat, clock <= clock',
         Stamped' = Stamped,
         \A c \in Calls : pc[c] \in Stored => pc'[c] \in Stored,
         \A c \in Calls : pc'[c] \in Judging \ {"clock"} => \A d \in Calls : stamp[d] <= stamp[c]
  PROVE  WindowInv'
<1>1. clock \in Nat /\ stamp \in [Calls -> Nat] /\ slot \in [Users -> SUBSET Calls]
  BY DEF WindowInv, RefusalInv, TypeOK
<1>2. ASSUME NEW u, NEW t PROVE Admissions(u, t)' = Admissions(u, t')
  BY DEF Admissions
<1>3. Kept'
  BY <1>1 DEF WindowInv, Kept, Admissions
<1>4. Latest'
  BY <1>1 DEF WindowInv, Latest
<1>5. \A u \in Users : Admissions(u, clock)' \subseteq Admissions(u, clock)
  BY <1>1, NumbersAssumption DEF Admissions, Stamped
<1> QED
  BY <1>3, <1>4, <1>5, WindowShrinks DEF WindowInv
(* A call begins when no other is active, and with a limit it is judged.   *)
LEMMA WindowBegin ==
  ASSUME parallel = 1, Limit > 0, WindowInv, RefusalInv', NEW c \in Calls, Begin(c)
  PROVE  WindowInv'
<1> USE DEF Begin, Goto, dict, local
<1>1. /\ pc \in [Calls -> {"new"} \cup Sweeping \cup Judging \cup Ended] /\ clock \in Nat
      /\ pc[c] = "new" /\ pc' = [pc EXCEPT ![c] = FirstStep(c)]
      /\ FirstStep(c) \in {"iterate", "clock"}
  BY FirstStepRange, NumbersAssumption DEF WindowInv, RefusalInv, TypeOK, FirstStep
<1>2. Active = {}
  <2>1. IsFiniteSet(Active) /\ Cardinality(Active) \in Nat
    BY AllFinite DEF WindowInv, RefusalInv
  <2>2. Cardinality(Active) = 0
    BY <2>1
  <2> QED
    BY <2>1, <2>2, FS_EmptySet
<1>3. Sole'
  BY <1>1, <1>2 DEF Sole, Active
<1>4. Stamped' = Stamped
  BY <1>1 DEF Stamped
<1>5. InHand'
  BY <1>1, <1>2, <1>4 DEF WindowInv, InHand, Admissions
<1>6. \A d \in Calls : pc'[d] \in Judging \ {"clock"} => pc[d] \in Judging \ {"clock"}
  BY <1>1 DEF Judging
<1>7. \A d \in Calls : pc[d] \in Stored => pc'[d] \in Stored
  BY <1>1 DEF Stored
<1> QED
  BY <1>1, <1>3, <1>4, <1>5, <1>6, <1>7, WindowStill DEF WindowInv, Latest

(* The sweep, up to the eviction, only moves the call. *)
LEMMA WindowSweep ==
  ASSUME WindowInv, RefusalInv', NEW c \in Calls,
         Size(c) \/ Iterate(c) \/ NextOldest(c) \/ NextFails(c)
  PROVE  WindowInv'
<1> USE DEF dict, local
<1>1. PICK next \in Sweeping \cup {"clock", "failed"} : pc' = [pc EXCEPT ![c] = next]
  BY FirstStepRange DEF Size, Iterate, NextOldest, NextFails, Goto, Sweeping
<1>2. /\ c \in Active /\ pc[c] \in Sweeping /\ clock \in Nat
      /\ UNCHANGED <<clock, who, slot, list, stamp, source, forgotten>>
  BY DEF Size, Iterate, NextOldest, NextFails, Active, Sweeping, WindowInv, RefusalInv, TypeOK
<1>3. /\ Sole' /\ pc'[c] = next
      /\ \A d \in Calls \ {c} : pc'[d] = pc[d] /\ pc[d] \notin Sweeping \cup Judging
  BY <1>1, <1>2, SoleStep
<1>4. Stamped' = Stamped
  BY <1>2, <1>3 DEF Stamped, Sweeping
<1>5. InHand'
  <2>1. \A d \in Calls : pc'[d] \notin {"filter", "store", "append", "restore"}
    BY <1>3 DEF Sweeping, Judging
  <2> QED
    BY <2>1 DEF InHand
<1>6. \A d \in Calls : pc[d] \in Stored => pc'[d] \in Stored
  BY <1>2, <1>3 DEF Stored, Sweeping
<1>7. \A d \in Calls : pc'[d] \notin Judging \ {"clock"}
  BY <1>3 DEF Sweeping, Judging
<1> QED
  BY <1>2, <1>3, <1>4, <1>5, <1>6, <1>7, WindowStill

LEMMA WindowGet ==
  ASSUME WindowInv, RefusalInv', NEW c \in Calls, Get(c)
  PROVE  WindowInv'
<1> USE DEF Get, Goto, dict
<1>1. c \in Active /\ clock \in Nat /\ source \in [Calls -> SUBSET Calls]
  BY DEF Active, Judging, WindowInv, RefusalInv, TypeOK
<1>2. /\ Sole' /\ pc'[c] = "filter"
      /\ \A d \in Calls \ {c} : pc'[d] = pc[d] /\ pc[d] \notin Sweeping \cup Judging
  BY <1>1, SoleStep
<1>3. Stamped' = Stamped
  BY <1>2 DEF Stamped
<1>4. InHand'
  BY <1>1, <1>2 DEF InHand, Judging
<1>5. \A d \in Calls : pc[d] \in Stored => pc'[d] \in Stored
  BY <1>2 DEF Stored
<1>6. \A d \in Calls : pc'[d] \in Judging \ {"clock"} => \A e \in Calls : stamp[e] <= stamp[d]
  BY <1>2 DEF WindowInv, Latest, Judging
<1> QED
  BY <1>1, <1>2, <1>3, <1>4, <1>5, <1>6, WindowStill

(* The second store finds the list still there: nobody has evicted it. *)
LEMMA WindowRestore ==
  ASSUME WindowInv, RefusalInv', NEW c \in Calls, Restore(c)
  PROVE  WindowInv'
<1> USE DEF Restore, Goto, local
<1>1. c \in Active /\ clock \in Nat /\ slot \in [Users -> SUBSET Calls]
  BY DEF Active, Judging, WindowInv, RefusalInv, TypeOK
<1>2. /\ Sole' /\ pc'[c] = "admitted"
      /\ \A d \in Calls \ {c} : pc'[d] = pc[d] /\ pc[d] \notin Sweeping \cup Judging
  BY <1>1, SoleStep
<1>3. Stamped' = Stamped
  BY <1>2 DEF Stamped
<1>4. slot' = slot
  BY <1>1 DEF WindowInv, InHand, Put
<1>5. InHand'
  BY <1>2 DEF InHand, Judging
<1>6. \A d \in Calls : pc[d] \in Stored => pc'[d] \in Stored
  BY <1>2 DEF Stored
<1>7. \A d \in Calls : pc'[d] \notin Judging \ {"clock"}
  BY <1>2 DEF Judging
<1> QED
  BY <1>1, <1>2, <1>3, <1>4, <1>5, <1>6, <1>7, WindowStill

(* An eviction: the user's admissions are forgotten with the list.         *)
LEMMA WindowPop ==
  ASSUME WindowInv, RefusalInv', NEW c \in Calls, Pop(c)
  PROVE  WindowInv'
<1>1. /\ c \in Active /\ clock \in Nat /\ slot \in [Users -> SUBSET Calls]
      /\ pc' = [pc EXCEPT ![c] = "size"] /\ pc[c] = "pop"
      /\ UNCHANGED <<clock, who, list, stamp, source>>
  BY DEF Pop, Goto, Active, Sweeping, WindowInv, RefusalInv, TypeOK
<1>2. PICK v \in Users : /\ slot' = [slot EXCEPT ![v] = {}]
                         /\ forgotten' = forgotten \cup {d \in Stamped : who[d] = v}
  <2>1. victim[c] \subseteq Users
    BY DEF WindowInv, RefusalInv, TypeOK
  <2>2. \E v \in victim[c] : Drop(v)
    BY DEF Pop
  <2> QED
    BY ZenonT(30), <2>1, <2>2 DEF Drop
<1>3. /\ Sole' /\ pc'[c] = "size"
      /\ \A d \in Calls \ {c} : pc'[d] = pc[d] /\ pc[d] \notin Sweeping \cup Judging
  BY <1>1, SoleStep
<1>4. Stamped' = Stamped
  BY <1>1, <1>3 DEF Stamped
<1>5. ASSUME NEW u, NEW t PROVE Admissions(u, t)' \subseteq Admissions(u, t')
  BY <1>1, <1>2, <1>4 DEF Admissions
<1>6. Kept'
  <2> SUFFICES ASSUME NEW u \in Users
               PROVE  /\ slot'[u] = {} => \A d \in Stamped' : who'[d] = u => d \in forgotten'
                      /\ \A s \in slot'[u] : /\ slot'[u] = {s} /\ pc'[s] \in Stored
                                             /\ list'[s] \cap forgotten' = {}
                                             /\ Admissions(u, stamp[s])' \subseteq list'[s]
    BY DEF Kept
  <2>1. CASE u = v
    BY <1>1, <1>2, <1>4, <2>1
  <2>2. CASE u # v
    <3>1. slot'[u] = slot[u]
      BY <1>1, <1>2, <2>2
    <3>2. slot[u] = {} => \A d \in Stamped : who[d] = u => d \in forgotten
      BY DEF WindowInv, Kept
    <3>3. ASSUME NEW s \in slot[u]
          PROVE  /\ slot[u] = {s} /\ pc'[s] \in Stored
                 /\ list[s] \cap forgotten' = {}
                 /\ Admissions(u, stamp[s])' \subseteq list[s]
      <4>1. /\ slot[u] = {s} /\ pc[s] \in Stored /\ list[s] \cap forgotten = {}
            /\ Admissions(u, stamp[s]) \subseteq list[s] /\ s \in Calls /\ who[s] = u
        BY <1>1 DEF WindowInv, Kept, RefusalInv, OwnLists
      <4>2. \A d \in list[s] : who[d] = u
        BY <4>1 DEF WindowInv, RefusalInv, OwnLists
      <4>3. pc'[s] \in Stored
        BY <1>1, <1>3, <4>1 DEF Stored
      <4> QED
        BY <1>1, <1>2, <1>5, <2>2, <4>1, <4>2, <4>3
    <3> QED
      BY <1>1, <1>2, <1>4, <3>1, <3>2, <3>3
  <2> QED
    BY <2>1, <2>2
<1>7. Latest'
  BY <1>1, <1>3 DEF WindowInv, Latest, Judging
<1>8. InHand'
  BY <1>3 DEF InHand, Judging
<1>9. AdmissionsBound'
  BY <1>1, <1>5, WindowShrinks
<1>10. forgotten' \subseteq Stamped'
  BY <1>2, <1>4 DEF WindowInv
<1> QED
  BY <1>3, <1>6, <1>7, <1>8, <1>9, <1>10 DEF WindowInv

(* now is taken from a clock that does not go back. *)
LEMMA WindowClock ==
  ASSUME WindowInv, RefusalInv', NEW c \in Calls, Clock(c)
  PROVE  WindowInv'
<1>1. /\ c \in Active /\ clock \in Nat /\ stamp \in [Calls -> Nat]
      /\ pc' = [pc EXCEPT ![c] = "get"] /\ pc[c] = "clock" /\ stamp' = [stamp EXCEPT ![c] = clock]
      /\ UNCHANGED <<clock, who, slot, list, source, forgotten>>
  BY DEF Clock, Goto, dict, Active, Judging, WindowInv, RefusalInv, TypeOK
<1>2. /\ Sole' /\ pc'[c] = "get"
      /\ \A d \in Calls \ {c} : pc'[d] = pc[d] /\ pc[d] \notin Sweeping \cup Judging
  BY <1>1, SoleStep
<1>3. Stamped' = Stamped /\ c \notin Stamped /\ Stamped \subseteq Calls
  BY <1>1, <1>2 DEF Stamped
<1>4. ASSUME NEW u, NEW t PROVE Admissions(u, t)' = Admissions(u, t')
  BY <1>1, <1>3 DEF Admissions
<1>5. Kept'
  <2>1. \A u \in Users : \A s \in slot[u] :
          /\ s \in Calls /\ s # c /\ stamp'[s] = stamp[s] /\ pc'[s] = pc[s]
          /\ Admissions(u, stamp[s])' = Admissions(u, stamp[s])
    BY <1>1, <1>2, <1>4 DEF WindowInv, Kept, Stored, RefusalInv, TypeOK
  <2> QED
    BY <1>1, <1>3, <2>1 DEF WindowInv, Kept
<1>6. Latest'
  BY <1>1, <1>2 DEF WindowInv, Latest, Judging
<1>7. InHand'
  BY <1>2 DEF InHand, Judging
<1>8. AdmissionsBound'
  BY <1>1, <1>4, WindowShrinks
<1>9. forgotten' \subseteq Stamped'
  BY <1>1, <1>3 DEF WindowInv
<1> QED
  BY <1>2, <1>5, <1>6, <1>7, <1>8, <1>9 DEF WindowInv

(* The list in the dictionary has all that counts at now, and nothing that *)
(* was forgotten: the comprehension finds the user's admissions.           *)
LEMMA WindowFilter ==
  ASSUME WindowInv, RefusalInv', NEW c \in Calls, Filter(c)
  PROVE  WindowInv'
<1>1. /\ c \in Active /\ clock \in Nat /\ list \in [Calls -> SUBSET Calls] /\ who[c] \in Users
      /\ stamp \in [Calls -> Nat] /\ slot \in [Users -> SUBSET Calls]
      /\ pc' = [pc EXCEPT ![c] = "store"] /\ pc[c] = "filter"
      /\ list' = [list EXCEPT ![c] = Recent(c)]
      /\ UNCHANGED <<clock, who, slot, stamp, forgotten>>
  BY DEF Filter, Goto, dict, Active, Judging, WindowInv, RefusalInv, TypeOK
<1>2. /\ Sole' /\ pc'[c] = "store"
      /\ \A d \in Calls \ {c} : pc'[d] = pc[d] /\ pc[d] \notin Sweeping \cup Judging
  BY <1>1, SoleStep
<1>3. Stamped' = Stamped
  BY <1>1, <1>2 DEF Stamped
<1>4. ASSUME NEW u, NEW t PROVE Admissions(u, t)' = Admissions(u, t')
  BY <1>1, <1>3 DEF Admissions
<1>5. Recent(c) = Admissions(who[c], stamp[c])
  <2>1. source[c] = slot[who[c]] /\ \A d \in Calls : stamp[d] <= stamp[c]
    BY <1>1 DEF WindowInv, InHand, Latest, Judging
  <2>2. ASSUME NEW d \in Recent(c) PROVE d \in Admissions(who[c], stamp[c])
    <3>1. PICK s \in slot[who[c]] : d \in list[s] /\ stamp[c] < stamp[d] + Window
      BY <2>1, <2>2 DEF Recent
    <3>2. list[s] \cap forgotten = {} /\ s \in Calls /\ who[s] = who[c]
      BY <1>1 DEF WindowInv, Kept, RefusalInv, OwnLists
    <3>3. d \in Stamped /\ who[d] = who[c]
      BY <3>1, <3>2 DEF WindowInv, RefusalInv, OwnLists
    <3> QED
      BY <3>1, <3>2, <3>3 DEF Admissions
  <2>3. ASSUME NEW d \in Admissions(who[c], stamp[c]) PROVE d \in Recent(c)
    <3>1. d \in Stamped \ forgotten /\ who[d] = who[c] /\ stamp[c] < stamp[d] + Window /\ d \in Calls
      BY <2>3 DEF Admissions, Stamped
    <3>2. PICK s \in slot[who[c]] : Admissions(who[c], stamp[s]) \subseteq list[s]
      BY <1>1, <3>1 DEF WindowInv, Kept
    <3>3. s \in Calls /\ stamp[s] \in Nat /\ stamp[c] \in Nat /\ stamp[d] \in Nat /\ stamp[s] <= stamp[c]
      BY <1>1, <2>1, <3>1
    <3>4. d \in Admissions(who[c], stamp[s])
      BY <3>1, <3>3, NumbersAssumption DEF Admissions
    <3> QED
      BY <2>1, <3>1, <3>2, <3>4 DEF Recent
  <2> QED
    BY <2>2, <2>3
<1>6. \A u \in Users : \A s \in slot[u] : s \in Calls /\ s # c /\ list'[s] = list[s] /\ pc'[s] = pc[s]
  BY <1>1, <1>2 DEF WindowInv, Kept, Stored
<1>7. Kept'
  BY <1>1, <1>3, <1>4, <1>6 DEF WindowInv, Kept
<1>8. Latest'
  BY <1>1, <1>2 DEF WindowInv, Latest, Judging
<1>9. InHand'
  <2>1. list'[c] = Admissions(who[c], stamp[c])'
    BY <1>1, <1>4, <1>5
  <2> QED
    BY <1>1, <1>2, <2>1 DEF InHand, Judging
<1>10. AdmissionsBound'
  BY <1>1, <1>4, WindowShrinks
<1>11. forgotten' \subseteq Stamped'
  BY <1>1, <1>3 DEF WindowInv
<1> QED
  BY <1>2, <1>7, <1>8, <1>9, <1>10, <1>11 DEF WindowInv

(* The list replaces the user's old one: it has all that counts at now.    *)
LEMMA WindowStore ==
  ASSUME WindowInv, RefusalInv', NEW c \in Calls, Store(c)
  PROVE  WindowInv'
<1>1. /\ c \in Active /\ clock \in Nat /\ slot \in [Users -> SUBSET Calls] /\ who[c] \in Users
      /\ list[c] = Admissions(who[c], stamp[c]) /\ pc[c] = "store"
      /\ slot' = [slot EXCEPT ![who[c]] = {c}]
      /\ pc' = [pc EXCEPT ![c] = IF Exceeds(c) THEN "refused" ELSE "append"]
      /\ UNCHANGED <<clock, who, list, stamp, source, forgotten>>
  BY DEF Store, Put, Goto, local, Active, Judging, WindowInv, RefusalInv, TypeOK, InHand
<1>2. /\ Sole' /\ pc'[c] = IF Exceeds(c) THEN "refused" ELSE "append"
      /\ \A d \in Calls \ {c} : pc'[d] = pc[d] /\ pc[d] \notin Sweeping \cup Judging
  BY <1>1, SoleStep
<1>3. Stamped' = Stamped
  BY <1>1, <1>2 DEF Stamped
<1>4. ASSUME NEW u, NEW t PROVE Admissions(u, t)' = Admissions(u, t')
  BY <1>1, <1>3 DEF Admissions
<1>5. Kept'
  <2> SUFFICES ASSUME NEW u \in Users
               PROVE  /\ slot'[u] = {} => \A d \in Stamped' : who'[d] = u => d \in forgotten'
                      /\ \A s \in slot'[u] : /\ slot'[u] = {s} /\ pc'[s] \in Stored
                                             /\ list'[s] \cap forgotten' = {}
                                             /\ Admissions(u, stamp[s])' \subseteq list'[s]
    BY DEF Kept
  <2>1. CASE u = who[c]
    <3>1. slot'[u] = {c} /\ pc'[c] \in Stored
      BY <1>1, <1>2, <2>1 DEF Stored
    <3>2. Admissions(u, stamp[c])' = list[c] /\ list[c] \cap forgotten = {}
      <4>1. Admissions(u, stamp[c])' = Admissions(u, stamp[c])
        BY <1>1, <1>3 DEF Admissions
      <4>2. Admissions(u, stamp[c]) \cap forgotten = {}
        BY DEF Admissions
      <4> QED
        BY <1>1, <2>1, <4>1, <4>2
    <3> QED
      BY <1>1, <3>1, <3>2
  <2>2. CASE u # who[c]
    <3>1. slot'[u] = slot[u] /\ \A s \in slot[u] : s \in Calls /\ s # c /\ pc'[s] = pc[s]
      BY <1>1, <1>2, <2>2 DEF WindowInv, Kept, Stored
    <3> QED
      BY <1>1, <1>3, <1>4, <3>1 DEF WindowInv, Kept
  <2> QED
    BY <2>1, <2>2
<1>6. Latest'
  BY <1>1, <1>2 DEF WindowInv, Latest, Judging
<1>7. InHand'
  <2>1. list'[c] = Admissions(who[c], stamp[c])' /\ slot'[who'[c]] = {c}
    BY <1>1, <1>4
  <2>2. pc'[c] = "append" => Cardinality(list'[c]) < Limit
    <3>1. IsFiniteSet(list[c])
      BY CallsAssumption, FS_Subset DEF WindowInv, RefusalInv, TypeOK
    <3>2. Cardinality(list[c]) \in Nat
      BY <3>1, FS_CardinalityType
    <3> QED
      BY <1>1, <1>2, <3>2, NumbersAssumption DEF Exceeds
  <2> QED
    BY <1>2, <2>1, <2>2 DEF InHand, Judging
<1>8. AdmissionsBound'
  BY <1>1, <1>4, WindowShrinks
<1>9. forgotten' \subseteq Stamped'
  BY <1>1, <1>3 DEF WindowInv
<1> QED
  BY <1>2, <1>5, <1>6, <1>7, <1>8, <1>9 DEF WindowInv

(* The call is admitted: fewer than Limit admissions counted at now, and   *)
(* the clock has only gone on since.                                       *)
LEMMA WindowAppend ==
  ASSUME WindowInv, RefusalInv', NEW c \in Calls, AppendNow(c)
  PROVE  WindowInv'
<1>1. /\ c \in Active /\ clock \in Nat /\ slot \in [Users -> SUBSET Calls] /\ who[c] \in Users
      /\ list \in [Calls -> SUBSET Calls] /\ stamp \in [Calls -> Nat] /\ stamp[c] <= clock
      /\ list[c] = Admissions(who[c], stamp[c]) /\ pc[c] = "append" /\ slot[who[c]] = {c}
      /\ pc' = [pc EXCEPT ![c] = "restore"] /\ list' = [list EXCEPT ![c] = @ \cup {c}]
      /\ UNCHANGED <<clock, who, slot, stamp, source, forgotten>>
  BY DEF AppendNow, Goto, dict, Active, Judging, WindowInv, RefusalInv, TypeOK, InHand, Latest
<1>2. /\ Sole' /\ pc'[c] = "restore"
      /\ \A d \in Calls \ {c} : pc'[d] = pc[d] /\ pc[d] \notin Sweeping \cup Judging
  BY <1>1, SoleStep
<1>3. Stamped' = Stamped \cup {c} /\ c \notin Stamped
  BY <1>1, <1>2 DEF Stamped
<1>4. c \notin forgotten
  BY <1>3 DEF WindowInv
<1>5. ASSUME NEW u, NEW t
      PROVE  Admissions(u, t)' \subseteq Admissions(u, t') \cup (IF u = who[c] THEN {c} ELSE {})
  BY <1>1, <1>3 DEF Admissions
<1>6. Kept'
  <2> SUFFICES ASSUME NEW u \in Users
               PROVE  /\ slot'[u] = {} => \A d \in Stamped' : who'[d] = u => d \in forgotten'
                      /\ \A s \in slot'[u] : /\ slot'[u] = {s} /\ pc'[s] \in Stored
                                             /\ list'[s] \cap forgotten' = {}
                                             /\ Admissions(u, stamp[s])' \subseteq list'[s]
    BY DEF Kept
  <2>1. CASE u = who[c]
    <3>1. slot'[u] = {c} /\ pc'[c] \in Stored /\ list'[c] = list[c] \cup {c}
      BY <1>1, <1>2, <2>1 DEF Stored
    <3>2. Admissions(u, stamp[c])' \subseteq list[c] \cup {c} /\ list[c] \cap forgotten = {}
      BY <1>1, <1>5, <2>1 DEF Admissions
    <3> QED
      BY <1>1, <1>4, <3>1, <3>2
  <2>2. CASE u # who[c]
    <3>1. slot'[u] = slot[u]
          /\ \A s \in slot[u] : s \in Calls /\ s # c /\ pc'[s] = pc[s] /\ list'[s] = list[s]
      BY <1>1, <1>2, <2>2 DEF WindowInv, RefusalInv, OwnLists
    <3>2. \A s \in slot[u] : Admissions(u, stamp[s])' \subseteq Admissions(u, stamp[s])
      BY <1>1, <1>5, <2>2
    <3> QED
      BY <1>1, <1>3, <2>2, <3>1, <3>2 DEF WindowInv, Kept
  <2> QED
    BY <2>1, <2>2
<1>7. Latest'
  BY <1>1, <1>2 DEF WindowInv, Latest, Judging
<1>8. InHand'
  BY <1>1, <1>2 DEF InHand, Judging
<1>9. AdmissionsBound'
  <2> SUFFICES ASSUME Limit > 0, NEW u \in Users
               PROVE  Cardinality(Admissions(u, clock)') <= Limit
    BY DEF AdmissionsBound, Admissions
  <2>1. CASE u = who[c]
    <3>1. Admissions(u, clock)' \subseteq list[c] \cup {c}
      <4>1. Admissions(u, clock) \subseteq Admissions(u, stamp[c])
        BY <1>1, NumbersAssumption DEF Admissions, Stamped
      <4> QED
        BY <1>1, <1>5, <2>1, <4>1
    <3>2. IsFiniteSet(list[c]) /\ Cardinality(list[c]) \in Nat
      BY CallsAssumption, FS_Subset, FS_CardinalityType DEF WindowInv, RefusalInv, TypeOK
    <3>3. Cardinality(list[c] \cup {c}) <= Cardinality(list[c]) + 1 /\ IsFiniteSet(list[c] \cup {c})
      BY <3>2, FS_AddElement
    <3>4. /\ Cardinality(Admissions(u, clock)') <= Cardinality(list[c] \cup {c})
          /\ IsFiniteSet(Admissions(u, clock)')
      BY <3>1, <3>3, FS_Subset
    <3>5. Cardinality(Admissions(u, clock)') \in Nat /\ Cardinality(list[c] \cup {c}) \in Nat
      BY <3>3, <3>4, FS_CardinalityType
    <3>6. Cardinality(list[c]) < Limit
      BY <1>1 DEF WindowInv, InHand
    <3> QED
      BY <3>2, <3>3, <3>4, <3>5, <3>6, NumbersAssumption
  <2>2. CASE u # who[c]
    <3>1. Admissions(u, clock)' \subseteq Admissions(u, clock)
      BY <1>1, <1>5, <2>2
    <3>2. Cardinality(Admissions(u, clock)) <= Limit
      BY DEF WindowInv, AdmissionsBound, Admissions
    <3>3. IsFiniteSet(Admissions(u, clock))
      <4>1. Admissions(u, clock) \in SUBSET Calls
        BY DEF Admissions, Stamped
      <4> QED
        BY <4>1, CallsAssumption, FS_Subset
    <3>4. /\ Cardinality(Admissions(u, clock)') <= Cardinality(Admissions(u, clock))
          /\ IsFiniteSet(Admissions(u, clock)')
      BY <3>1, <3>3, FS_Subset
    <3>5. Cardinality(Admissions(u, clock)') \in Nat /\ Cardinality(Admissions(u, clock)) \in Nat
      BY <3>3, <3>4, FS_CardinalityType
    <3> QED
      BY <3>2, <3>4, <3>5, NumbersAssumption
  <2> QED
    BY <2>1, <2>2
<1>10. forgotten' \subseteq Stamped'
  BY <1>1, <1>3 DEF WindowInv
<1> QED
  BY <1>2, <1>6, <1>7, <1>8, <1>9, <1>10 DEF WindowInv

LEMMA WindowNext ==
  ASSUME parallel = 1, Limit > 0, WindowInv, [Next]_vars
  PROVE  WindowInv'
<1>0. RefusalInv'
  BY RefusalNext DEF WindowInv
<1>1. CASE UNCHANGED vars \/ Tick
  <2>1. /\ UNCHANGED <<pc, who, slot, list, stamp, source, forgotten>>
        /\ clock' \in Nat /\ clock <= clock' /\ stamp \in [Calls -> Nat]
    BY <1>1 DEF vars, Tick, dict, local, WindowInv, RefusalInv, TypeOK
  <2>2. Stamped' = Stamped /\ Sole'
    BY <2>1 DEF Stamped, WindowInv, Sole, Active
  <2>3. InHand'
    BY <2>1, <2>2 DEF WindowInv, InHand, Admissions
  <2>4. \A c \in Calls : pc[c] \in Stored => pc'[c] \in Stored
    BY <2>1
  <2>5. \A c \in Calls : pc'[c] \in Judging \ {"clock"} => \A d \in Calls : stamp[d] <= stamp[c]
    BY <2>1 DEF WindowInv, Latest
  <2> QED
    BY <1>0, <2>1, <2>2, <2>3, <2>4, <2>5, WindowStill
<1>2. ASSUME NEW c \in Calls, Begin(c) PROVE WindowInv'
  BY <1>0, <1>2, WindowBegin
<1>3. ASSUME NEW c \in Calls, Size(c) \/ Iterate(c) \/ NextOldest(c) \/ NextFails(c) PROVE WindowInv'
  BY <1>0, <1>3, WindowSweep
<1>4. ASSUME NEW c \in Calls, Pop(c) PROVE WindowInv'
  BY <1>0, <1>4, WindowPop
<1>5. ASSUME NEW c \in Calls, Clock(c) PROVE WindowInv'
  BY <1>0, <1>5, WindowClock
<1>6. ASSUME NEW c \in Calls, Get(c) PROVE WindowInv'
  BY <1>0, <1>6, WindowGet
<1>7. ASSUME NEW c \in Calls, Filter(c) PROVE WindowInv'
  BY <1>0, <1>7, WindowFilter
<1>8. ASSUME NEW c \in Calls, Store(c) PROVE WindowInv'
  BY <1>0, <1>8, WindowStore
<1>9. ASSUME NEW c \in Calls, AppendNow(c) PROVE WindowInv'
  BY <1>0, <1>9, WindowAppend
<1>10. ASSUME NEW c \in Calls, Restore(c) PROVE WindowInv'
  BY <1>0, <1>10, WindowRestore
<1> QED
  BY <1>1, <1>2, <1>3, <1>4, <1>5, <1>6, <1>7, <1>8, <1>9, <1>10 DEF Next, Step

(* One call at a time: whatever is evicted, refused and let through, no    *)
(* window holds more than Limit admissions of a user, those from before    *)
(* the user's last eviction apart (_check_rate_limit).                     *)
THEOREM WindowIsKept == Spec => []WindowBound
<1> DEFINE LoopInv == parallel = 1 /\ Limit > 0 => WindowInv
<1>1. Init => LoopInv
  BY WindowInit
<1>2. LoopInv /\ [Next]_vars => LoopInv'
  BY ParallelStays, WindowNext
<1>3. LoopInv => WindowBound
  BY DEF WindowInv, AdmissionsBound, WindowBound
<1> QED
  BY <1>1, <1>2, <1>3, PTL DEF Spec

-----------------------------------------------------------------------------
(* Without a limit a call is admitted by its first step.                   *)
FreeInv ==
  /\ TypeOK
  /\ \A c \in Calls : pc[c] \in {"new", "admitted"} /\ stamp[c] = 0

LEMMA FreeNext ==
  ASSUME Limit = 0, FreeInv, [Next]_vars
  PROVE  FreeInv'
<1>0. TypeOK'
  BY TypeNext DEF FreeInv
<1>1. CASE UNCHANGED vars \/ Tick
  BY <1>0, <1>1 DEF FreeInv, vars, Tick, local
<1>2. ASSUME NEW c \in Calls, Begin(c) PROVE FreeInv'
  BY <1>0, <1>2 DEF FreeInv, TypeOK, Begin, FirstStep, Goto, local
<1>3. \A c \in Calls : ~Step(c)
  BY DEF FreeInv, Step, Size, Iterate, NextOldest, NextFails, Pop, Clock, Get, Filter, Store,
         AppendNow, Restore
<1> QED
  BY <1>1, <1>2, <1>3 DEF Next

(* The times the calls were judged by, as SlidingWindow sees them.         *)
JudgedAt == [c \in Calls |-> IF Judgement[c] = "pending" THEN 0 ELSE stamp[c]]

(* A call that is judged: one step of SlidingWindow.                       *)
LEMMA JudgeStep ==
  ASSUME TypeOK, NEW c \in Calls, NEW next \in {"refused", "restore", "admitted"},
         pc[c] \notin {"restore"} \cup Ended, pc' = [pc EXCEPT ![c] = next],
         UNCHANGED <<clock, who, stamp, forgotten>>, stamp[c] <= clock
  PROVE  /\ next = "refused" => W!Judge(c, stamp[c], "refused")
         /\ next # "refused" => W!Judge(c, stamp[c], "admitted")
<1>1. pc \in [Calls -> {"new"} \cup Sweeping \cup Judging \cup Ended]
  BY DEF TypeOK
<1>2. Judgement[c] = "pending"
  BY DEF Judgement, Ended
<1>3. Judgement' = [Judgement EXCEPT ![c] = IF next = "refused" THEN "refused" ELSE "admitted"]
  BY <1>1 DEF Judgement
<1>4. JudgedAt' = [JudgedAt EXCEPT ![c] = stamp[c]]
  <2>1. DOMAIN Judgement = Calls
    BY DEF Judgement
  <2>2. Judgement'[c] # "pending" /\ \A d \in Calls \ {c} : Judgement'[d] = Judgement[d]
    BY <1>3, <2>1
  <2> QED
    BY <2>2 DEF JudgedAt
<1> QED
  BY <1>2, <1>3, <1>4 DEF W!Judge, JudgedAt

(* The instance brings its own copy of Cardinality. *)
LEMMA SameCardinality ==
  ASSUME NEW S PROVE W!Cardinality(S) = Cardinality(S)
BY DEF W!Cardinality, Cardinality

LEMMA CountingIsAdmissions ==
  ASSUME TypeOK, NEW u, NEW t PROVE W!Counting(u, t) = Admissions(u, t)
BY DEF W!Counting, Admissions, Stamped, Judgement

(* A step that judges nobody and forgets nothing.                          *)
LEMMA StutterStep ==
  ASSUME TypeOK, UNCHANGED <<clock, who, forgotten>>,
         \A c \in Calls : \/ pc'[c] = pc[c] /\ stamp'[c] = stamp[c]
                          \/ /\ pc[c] \notin {"restore", "admitted", "refused"}
                             /\ pc'[c] \notin {"restore", "admitted", "refused"}
                          \/ pc[c] = "restore" /\ pc'[c] = "admitted" /\ stamp'[c] = stamp[c]
  PROVE  UNCHANGED W!vars
<1>1. Judgement' = Judgement
  BY DEF Judgement
<1>2. JudgedAt' = JudgedAt
  BY <1>1 DEF JudgedAt, Judgement
<1> QED
  BY <1>1, <1>2 DEF W!vars, JudgedAt

(* One call at a time: the whole judgement of a call, with its evictions,  *)
(* is one step of SlidingWindow where its list is measured or appended to, *)
(* and each eviction one where the key goes.                               *)
LEMMA WindowStep ==
  ASSUME WindowInv, Limit > 0, [Next]_vars
  PROVE  [W!Next]_(W!vars)
<1> USE DEF dict, local, Goto
<1>0. /\ TypeOK /\ clock \in Nat /\ stamp \in [Calls -> Nat]
      /\ pc \in [Calls -> {"new"} \cup Sweeping \cup Judging \cup Ended]
      /\ \A c \in Calls : stamp[c] \in 0 .. clock
  BY DEF WindowInv, RefusalInv, TypeOK, Latest
<1>1. CASE UNCHANGED vars
  BY <1>0, <1>1, StutterStep DEF vars
<1>2. CASE Tick
  <2>1. UNCHANGED <<Judgement, JudgedAt, who, forgotten>> /\ clock' > clock
    BY <1>0, <1>2 DEF Tick, Judgement, JudgedAt
  <2> QED
    BY <2>1 DEF W!Tick, W!Next, JudgedAt
<1>3. ASSUME NEW c \in Calls, Begin(c) PROVE UNCHANGED W!vars
  <2>1. FirstStep(c) \in {"iterate", "clock"}
    BY FirstStepRange, NumbersAssumption DEF FirstStep
  <2> QED
    BY <1>0, <1>3, <2>1, StutterStep DEF Begin
<1>4. ASSUME NEW c \in Calls,
             Size(c) \/ Iterate(c) \/ NextOldest(c) \/ NextFails(c) \/ Clock(c) \/ Get(c) \/ Filter(c)
      PROVE  UNCHANGED W!vars
  <2>1. pc[c] \notin {"restore", "admitted", "refused"} /\ UNCHANGED <<clock, who, forgotten>>
    BY <1>4 DEF Size, Iterate, NextOldest, NextFails, Clock, Get, Filter
  <2>2. PICK next \in Sweeping \cup {"clock", "get", "filter", "store", "failed"} :
               pc' = [pc EXCEPT ![c] = next]
    BY <1>4, FirstStepRange DEF Size, Iterate, NextOldest, NextFails, Clock, Get, Filter, Sweeping
  <2>3. \A d \in Calls \ {c} : stamp'[d] = stamp[d]
    BY <1>0, <1>4 DEF Size, Iterate, NextOldest, NextFails, Clock, Get, Filter
  <2> QED
    BY <1>0, <2>1, <2>2, <2>3, StutterStep DEF Sweeping
<1>5. ASSUME NEW c \in Calls, Pop(c) PROVE W!Next
  <2>1. PICK v \in Users : forgotten' = forgotten \cup {d \in Stamped : who[d] = v}
    <3>1. victim[c] \subseteq Users
      BY DEF WindowInv, RefusalInv, TypeOK
    <3>2. \E v \in victim[c] : Drop(v)
      BY <1>5 DEF Pop
    <3> QED
      BY <3>1, <3>2 DEF Drop
  <2>2. {d \in Stamped : who[d] = v} = {d \in Calls : Judgement[d] = "admitted" /\ who[d] = v}
    BY DEF Stamped, Judgement
  <2>3. UNCHANGED <<Judgement, JudgedAt, clock, who>>
    BY <1>0, <1>5 DEF Pop, Judgement, JudgedAt
  <2>4. W!Forget(v)
    BY <2>1, <2>2, <2>3 DEF W!Forget, JudgedAt
  <2> QED
    BY <2>4 DEF W!Next
<1>6. ASSUME NEW c \in Calls, Store(c) PROVE [W!Next]_(W!vars)
  <2>1. /\ pc[c] = "store" /\ UNCHANGED <<clock, who, stamp, forgotten>>
        /\ pc' = [pc EXCEPT ![c] = IF Exceeds(c) THEN "refused" ELSE "append"]
    BY <1>6 DEF Store
  <2>2. CASE Exceeds(c)
    <3>1. W!Judge(c, stamp[c], "refused")
      <4>1. pc' = [pc EXCEPT ![c] = "refused"]
        BY <2>1, <2>2
      <4>2. pc[c] \notin {"restore"} \cup Ended /\ stamp[c] <= clock
        BY <1>0, <2>1 DEF Ended
      <4> QED
        BY <1>0, <2>1, <4>1, <4>2, JudgeStep
    <3>2. Cardinality(W!Counting(who[c], stamp[c])) >= Limit
      BY <1>0, <2>1, <2>2, CountingIsAdmissions DEF WindowInv, InHand, Exceeds
    <3>3. W!Refuse(c, stamp[c])
      BY <3>1, <3>2, SameCardinality DEF W!Refuse
    <3> QED
      BY <1>0, <3>3 DEF W!Next
  <2>3. CASE ~Exceeds(c)
    BY <1>0, <2>1, <2>3, StutterStep
  <2> QED
    BY <2>2, <2>3
<1>7. ASSUME NEW c \in Calls, AppendNow(c) PROVE W!Next
  <2>1. /\ pc[c] = "append" /\ UNCHANGED <<clock, who, stamp, forgotten>>
        /\ pc' = [pc EXCEPT ![c] = "restore"]
    BY <1>7 DEF AppendNow
  <2>2. W!Judge(c, stamp[c], "admitted")
    <3>1. pc[c] \notin {"restore"} \cup Ended /\ stamp[c] <= clock
      BY <1>0, <2>1 DEF Ended
    <3>2. "restore" # "refused"
      OBVIOUS
    <3> QED
      BY <1>0, <2>1, <3>1, <3>2, JudgeStep
  <2>3. Cardinality(W!Counting(who[c], stamp[c])) < Limit
    BY <1>0, <2>1, CountingIsAdmissions DEF WindowInv, InHand
  <2>4. W!Admit(c, stamp[c])
    BY <2>2, <2>3, SameCardinality DEF W!Admit
  <2> QED
    BY <1>0, <2>4 DEF W!Next
<1>8. ASSUME NEW c \in Calls, Restore(c) PROVE UNCHANGED W!vars
  BY <1>0, <1>8, StutterStep DEF Restore
<1> QED
  BY <1>1, <1>2, <1>3, <1>4, <1>5, <1>6, <1>7, <1>8 DEF Next, Step

LEMMA FreeStep ==
  ASSUME FreeInv, Limit = 0, [Next]_vars
  PROVE  [W!Next]_(W!vars)
<1>0. /\ TypeOK /\ clock \in Nat
      /\ \A c \in Calls : stamp[c] \in 0 .. clock /\ pc[c] \in {"new", "admitted"}
  BY DEF FreeInv, TypeOK
<1>1. CASE UNCHANGED vars
  BY <1>0, <1>1, StutterStep DEF vars, local
<1>2. CASE Tick
  <2>1. UNCHANGED <<Judgement, JudgedAt, who, forgotten>> /\ clock' > clock
    BY <1>0, <1>2 DEF Tick, Judgement, JudgedAt, local
  <2> QED
    BY <2>1 DEF W!Tick, W!Next, JudgedAt
<1>3. ASSUME NEW c \in Calls, Begin(c) PROVE W!Next
  <2>1. pc' = [pc EXCEPT ![c] = "admitted"] /\ pc[c] = "new" /\ UNCHANGED <<clock, who, stamp, forgotten>>
    BY <1>3 DEF Begin, FirstStep, Goto, local
  <2>2. W!Judge(c, stamp[c], "admitted")
    <3>1. pc[c] \notin {"restore"} \cup Ended /\ stamp[c] <= clock
      BY <1>0, <2>1 DEF Ended
    <3>2. "admitted" # "refused"
      OBVIOUS
    <3> QED
      BY <1>0, <2>1, <3>1, <3>2, JudgeStep
  <2>3. W!Admit(c, stamp[c])
    BY <2>2 DEF W!Admit
  <2> QED
    BY <1>0, <2>3 DEF W!Next
<1>4. \A c \in Calls : ~Step(c)
  BY <1>0 DEF Step, Size, Iterate, NextOldest, NextFails, Pop, Clock, Get, Filter, Store,
              AppendNow, Restore
<1> QED
  BY <1>1, <1>2, <1>3, <1>4 DEF Next

(* One call at a time: the call, with its sweep, its copy of the list and  *)
(* its two stores, is the one step SlidingWindow promises: admitted if and *)
(* only if fewer than Limit admissions of its user count in the window     *)
(* before it, those from before the user's last eviction apart.            *)
THEOREM LimiterIsWindow == Spec => ImplementsWindow
<1>1. Init => W!Init
  <2> SUFFICES ASSUME Init PROVE W!Init
    OBVIOUS
  <2>1. Judgement = [c \in Calls |-> "pending"]
    BY DEF Init, Judgement
  <2>2. JudgedAt = [c \in Calls |-> 0]
    BY <2>1 DEF JudgedAt
  <2> QED
    BY <2>1, <2>2, CallsAssumption DEF Init, W!Init, JudgedAt
<1> DEFINE LoopInv == parallel = 1 /\ Limit > 0 => WindowInv
           FreeInv0 == Limit = 0 => FreeInv
<1>2. Init => LoopInv /\ FreeInv0
  BY WindowInit, TypeInit DEF Init, FreeInv
<1>3. LoopInv /\ FreeInv0 /\ [Next]_vars => LoopInv' /\ FreeInv0'
  BY ParallelStays, WindowNext, FreeNext
<1>4. LoopInv /\ FreeInv0 /\ [Next]_vars => [parallel = 1 => [W!Next]_(W!vars)]_vars
  BY NumbersAssumption, WindowStep, FreeStep
<1> QED
  BY <1>1, <1>2, <1>3, <1>4, PTL DEF Spec, ImplementsWindow
=============================================================================
