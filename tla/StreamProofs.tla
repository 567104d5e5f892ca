---------------------------- MODULE StreamProofs ----------------------------
(***************************************************************************)
(* Theorems about StreamRoute, for any number of streams, any limits and   *)
(* any order in which threads, callbacks and departures of clients come.   *)
(***************************************************************************)
EXTENDS StreamRoute, SlicesProofs

PutsOf(s) == {"put"} \X {s} \X Events

(* The events in the callbacks r that are to be put on the queue of s.     *)
PutEvents(r, s) == [i \in 1..Len(Filter(r, PutsOf(s))) |-> Filter(r, PutsOf(s))[i][3]]

LEMMA PutsArePutEvents == \A s : Puts(s) = PutEvents(ready, s)
BY DEF Puts, PutEvents, PutsOf

LEMMA CallbackKinds ==
  /\ \A s \in Streams, e \in Events : <<"put", s, e>> \in Callbacks
  /\ \A s \in Streams : <<"resume", s>> \in Callbacks
  /\ \A cb \in Callbacks : \/ \E s \in Streams, e \in Events : cb = <<"put", s, e>>
                           \/ \E s \in Streams : cb = <<"resume", s>>
  /\ \A s, t, e : e \in Events => (<<"put", s, e>> \in PutsOf(t) <=> s = t)
  /\ \A s, t : <<"resume", s>> \notin PutsOf(t)
  /\ \A s, t, e : <<"put", s, e>> # <<"resume", t>>
  /\ \A s, t : <<"resume", s>> = <<"resume", t>> => s = t
  /\ \A s : s \in Streams => PutsOf(s) \subseteq Callbacks
<1>1. /\ \A s \in Streams, e \in Events : <<"put", s, e>> \in Callbacks
      /\ \A s \in Streams : <<"resume", s>> \in Callbacks
      /\ \A s : s \in Streams => PutsOf(s) \subseteq Callbacks
  BY DEF Callbacks, PutsOf
<1>2. \A cb \in Callbacks : \/ \E s \in Streams, e \in Events : cb = <<"put", s, e>>
                            \/ \E s \in Streams : cb = <<"resume", s>>
  BY DEF Callbacks
<1>3. \A s, t, e : e \in Events => (<<"put", s, e>> \in PutsOf(t) <=> s = t)
  BY DEF PutsOf
<1>4. \A s, t : <<"resume", s>> \notin PutsOf(t)
  <2> SUFFICES ASSUME NEW s, NEW t, NEW cb \in PutsOf(t), cb = <<"resume", s>> PROVE FALSE
    OBVIOUS
  <2>1. cb[1] = "put" /\ cb[1] = "resume"
    BY DEF PutsOf
  <2> QED
    BY <2>1
<1>5. \A s, t, e : <<"put", s, e>> # <<"resume", t>>
  <2> SUFFICES ASSUME NEW s, NEW t, NEW e, NEW cb, cb = <<"put", s, e>>, cb = <<"resume", t>> PROVE FALSE
    OBVIOUS
  <2>1. cb[1] = "put" /\ cb[1] = "resume"
    OBVIOUS
  <2> QED
    BY <2>1
<1> QED
  BY <1>1, <1>2, <1>3, <1>4, <1>5

-----------------------------------------------------------------------------
(* What the loop has still to put, when callbacks come and go.             *)
LEMMA PutEventsType ==
  ASSUME NEW r \in Seq(Callbacks), NEW s \in Streams
  PROVE  /\ PutEvents(r, s) \in Seq(Events)
         /\ Len(PutEvents(r, s)) = Len(Filter(r, PutsOf(s)))
         /\ \A i \in 1..Len(PutEvents(r, s)) : PutEvents(r, s)[i] = Filter(r, PutsOf(s))[i][3]
<1> DEFINE f == Filter(r, PutsOf(s))
<1>1. f \in Seq(Callbacks) /\ Len(f) \in Nat
  BY FilterPicks, LenProperties
<1>2. \A i \in 1..Len(f) : f[i] \in PutsOf(s)
  BY FilterMembers
<1>3. \A i \in 1..Len(f) : f[i][3] \in Events
  BY <1>2 DEF PutsOf
<1>4. PutEvents(r, s) = [i \in 1..Len(f) |-> f[i][3]]
  BY DEF PutEvents
<1> HIDE DEF f
<1> QED
  BY <1>1, <1>3, <1>4 DEF f

LEMMA PutEventsAppend ==
  ASSUME NEW r \in Seq(Callbacks), NEW s \in Streams
  PROVE  /\ \A e \in Events : PutEvents(Append(r, <<"put", s, e>>), s) = Append(PutEvents(r, s), e)
         /\ \A t \in Streams \ {s}, e \in Events :
              PutEvents(Append(r, <<"put", t, e>>), s) = PutEvents(r, s)
         /\ \A t \in Streams : PutEvents(Append(r, <<"resume", t>>), s) = PutEvents(r, s)
<1>1. ASSUME NEW e \in Events
      PROVE  PutEvents(Append(r, <<"put", s, e>>), s) = Append(PutEvents(r, s), e)
  <2> DEFINE cb == <<"put", s, e>>
             f == Filter(r, PutsOf(s))
             g == Filter(Append(r, cb), PutsOf(s))
  <2>1. cb \in Callbacks /\ cb \in PutsOf(s) /\ cb[3] = e
    BY CallbackKinds
  <2> HIDE DEF cb
  <2>2. g = Append(f, cb)
    BY <2>1, FilterAppend
  <2>3. f \in Seq(Callbacks)
    BY FilterPicks
  <2>4. /\ Len(g) = Len(f) + 1 /\ Len(f) \in Nat /\ g[Len(f) + 1] = cb
        /\ \A i \in 1..Len(f) : g[i] = f[i]
    BY <2>1, <2>2, <2>3, AppendProperties, LenProperties
  <2>5. Append(r, cb) \in Seq(Callbacks)
    BY <2>1, AppendProperties
  <2> DEFINE u == PutEvents(r, s)
             v == PutEvents(Append(r, cb), s)
  <2>6. /\ u \in Seq(Events) /\ Len(u) = Len(f) /\ \A i \in 1..Len(f) : u[i] = f[i][3]
        /\ v \in Seq(Events) /\ Len(v) = Len(g) /\ \A i \in 1..Len(g) : v[i] = g[i][3]
    BY <2>5, PutEventsType
  <2> HIDE DEF u, v, f, g
  <2>7. /\ Append(u, e) \in Seq(Events) /\ Len(Append(u, e)) = Len(u) + 1
        /\ Append(u, e)[Len(u) + 1] = e /\ \A i \in 1..Len(u) : Append(u, e)[i] = u[i]
    BY <2>6, AppendProperties
  <2>8. ASSUME NEW i \in 1..Len(v) PROVE v[i] = Append(u, e)[i]
    <3>1. i \in 1..Len(f) \/ i = Len(f) + 1
      BY <2>4, <2>6
    <3> QED
      BY <2>1, <2>4, <2>6, <2>7, <3>1
  <2>9. v = Append(u, e)
    BY <2>4, <2>6, <2>7, <2>8, SeqEqual
  <2> QED
    BY <2>9 DEF u, v, cb
<1>2. ASSUME NEW cb \in Callbacks, cb \notin PutsOf(s)
      PROVE  PutEvents(Append(r, cb), s) = PutEvents(r, s)
  <2>1. Filter(Append(r, cb), PutsOf(s)) = Filter(r, PutsOf(s))
    BY <1>2, FilterAppend
  <2> QED
    BY <2>1 DEF PutEvents
<1> QED
  BY <1>1, <1>2, CallbackKinds

LEMMA OneBefore ==
  ASSUME NEW R, NEW x \in R, NEW u \in Seq(R)
  PROVE  /\ <<x>> \o u \in Seq(R) /\ <<x>> \in Seq(R)
         /\ Len(<<x>> \o u) = Len(u) + 1 /\ Len(u) \in Nat
         /\ (<<x>> \o u)[1] = x
         /\ \A i \in 1..Len(u) : (<<x>> \o u)[i + 1] = u[i]
<1>1. <<x>> \in Seq(R) /\ Len(<<x>>) = 1 /\ <<x>>[1] = x /\ Len(u) \in Nat
  BY LenProperties
<1> DEFINE v == <<x>>
<1>2. v \in Seq(R) /\ Len(v) = 1 /\ v[1] = x
  BY <1>1
<1> HIDE DEF v
<1>3. /\ v \o u \in Seq(R)
      /\ Len(v \o u) = Len(v) + Len(u)
      /\ \A i \in 1..(Len(v) + Len(u)) : (v \o u)[i] = IF i <= Len(v) THEN v[i] ELSE u[i - Len(v)]
  BY <1>2, ConcatProperties
<1>4. \A i \in 1..Len(u) : (v \o u)[i + 1] = u[i]
  <2> SUFFICES ASSUME NEW i \in 1..Len(u) PROVE (v \o u)[i + 1] = u[i]
    OBVIOUS
  <2>1. i + 1 \in 1..(Len(v) + Len(u)) /\ ~(i + 1 <= Len(v)) /\ (i + 1) - Len(v) = i
    BY <1>1, <1>2
  <2> QED
    BY <1>3, <2>1
<1>5. (v \o u)[1] = x
  BY <1>1, <1>2, <1>3
<1> QED
  BY <1>1, <1>2, <1>3, <1>4, <1>5 DEF v

LEMMA PutEventsHead ==
  ASSUME NEW r \in Seq(Callbacks), r # <<>>, NEW s \in Streams
  PROVE  /\ Tail(r) \in Seq(Callbacks) /\ Head(r) \in Callbacks
         /\ \A e \in Events : Head(r) = <<"put", s, e>> => PutEvents(r, s) = <<e>> \o PutEvents(Tail(r), s)
         /\ Head(r) \notin PutsOf(s) => PutEvents(r, s) = PutEvents(Tail(r), s)
<1>1. Tail(r) \in Seq(Callbacks) /\ Head(r) \in Callbacks
  BY HeadTailProperties
<1> DEFINE f == Filter(r, PutsOf(s))
           g == Filter(Tail(r), PutsOf(s))
<1>2. f = IF Head(r) \in PutsOf(s) THEN <<Head(r)>> \o g ELSE g
  BY FilterHead
<1>3. ASSUME NEW e \in Events, Head(r) = <<"put", s, e>>
      PROVE  PutEvents(r, s) = <<e>> \o PutEvents(Tail(r), s)
  <2>1. Head(r) \in PutsOf(s) /\ Head(r)[3] = e
    BY <1>3, CallbackKinds
  <2>2. g \in Seq(Callbacks)
    BY <1>1, FilterPicks
  <2>3. f = <<Head(r)>> \o g
    BY <1>2, <2>1
  <2> DEFINE u == PutEvents(Tail(r), s)
             v == PutEvents(r, s)
             h == Head(r)
             w == <<e>> \o u
  <2>4. /\ u \in Seq(Events) /\ Len(u) = Len(g) /\ \A i \in 1..Len(g) : u[i] = g[i][3]
        /\ v \in Seq(Events) /\ Len(v) = Len(f) /\ \A i \in 1..Len(f) : v[i] = f[i][3]
    BY <1>1, PutEventsType
  <2>5. h \in Callbacks /\ h[3] = e /\ f = <<h>> \o g
    BY <1>1, <2>1, <2>3
  <2> HIDE DEF f, g, h
  <2>6. /\ Len(f) = Len(g) + 1 /\ Len(g) \in Nat /\ f[1] = h
        /\ \A i \in 1..Len(g) : f[i + 1] = g[i]
    BY <2>2, <2>5, OneBefore
  <2> HIDE DEF u, v
  <2>7. /\ w \in Seq(Events) /\ Len(w) = Len(u) + 1 /\ w[1] = e
        /\ \A i \in 1..Len(u) : w[i + 1] = u[i]
    BY <2>4, OneBefore
  <2> HIDE DEF w
  <2>8. ASSUME NEW i \in 1..Len(v) PROVE v[i] = w[i]
    <3>1. CASE i = 1
      <4>1. v[1] = f[1][3]
        BY <2>4, <2>6
      <4> QED
        BY <2>5, <2>6, <2>7, <3>1, <4>1
    <3>2. CASE i # 1
      <4>1. PICK j \in 1..Len(g) : i = j + 1
        <5>1. i - 1 \in 1..Len(g) /\ i = (i - 1) + 1
          BY <2>4, <2>6, <3>2
        <5> QED
          BY <5>1
      <4>2. v[i] = f[i][3]
        BY <2>4
      <4>3. f[i] = g[j]
        BY <2>6, <4>1
      <4>4. w[i] = u[j]
        BY <2>4, <2>7, <4>1
      <4> QED
        BY <2>4, <4>1, <4>2, <4>3, <4>4
    <3> QED
      BY <3>1, <3>2
  <2>9. v = w
    BY <2>4, <2>6, <2>7, <2>8, SeqEqual
  <2> QED
    BY <2>9 DEF u, v, w
<1>4. Head(r) \notin PutsOf(s) => PutEvents(r, s) = PutEvents(Tail(r), s)
  BY <1>2 DEF PutEvents
<1> QED
  BY <1>1, <1>3, <1>4

LEMMA PutEventsLeave ==
  ASSUME NEW r \in Seq(Callbacks), NEW s \in Streams, NEW t \in Streams
  PROVE  /\ Filter(r, Callbacks \ {<<"resume", t>>}) \in Seq(Callbacks)
         /\ PutEvents(Filter(r, Callbacks \ {<<"resume", t>>}), s) = PutEvents(r, s)
<1>1. (Callbacks \ {<<"resume", t>>}) \cap PutsOf(s) = PutsOf(s)
  BY CallbackKinds
<1>2. Filter(Filter(r, Callbacks \ {<<"resume", t>>}), PutsOf(s)) = Filter(r, PutsOf(s))
  BY <1>1, FilterTwice
<1> QED
  BY <1>2, FilterPicks DEF PutEvents

-----------------------------------------------------------------------------
(* The continuations of s among the callbacks r.                           *)
Turns(r, s) == Len(Filter(r, {<<"resume", s>>}))

LEMMA TurnsMove ==
  ASSUME NEW r \in Seq(Callbacks), NEW s \in Streams
  PROVE  /\ Turns(r, s) \in Nat
         /\ Turns(Append(r, <<"resume", s>>), s) = Turns(r, s) + 1
         /\ \A cb \in Callbacks \ {<<"resume", s>>} : Turns(Append(r, cb), s) = Turns(r, s)
         /\ r # <<>> => Turns(r, s) = Turns(Tail(r), s) + (IF Head(r) = <<"resume", s>> THEN 1 ELSE 0)
         /\ Turns(Filter(r, Callbacks \ {<<"resume", s>>}), s) = 0
         /\ \A t \in Streams \ {s} : Turns(Filter(r, Callbacks \ {<<"resume", t>>}), s) = Turns(r, s)
<1> DEFINE c == <<"resume", s>>
<1>1. c \in Callbacks /\ Filter(r, {c}) \in Seq(Callbacks) /\ Turns(r, s) = Len(Filter(r, {c}))
  BY CallbackKinds, FilterPicks DEF Turns
<1>2. Turns(r, s) \in Nat
  BY <1>1, LenProperties
<1>3. /\ Turns(Append(r, c), s) = Turns(r, s) + 1
      /\ \A cb \in Callbacks \ {c} : Turns(Append(r, cb), s) = Turns(r, s)
  <2> HIDE DEF c
  <2>1. Filter(Append(r, c), {c}) = Append(Filter(r, {c}), c)
    BY <1>1, FilterAppend
  <2>2. \A cb \in Callbacks \ {c} : Filter(Append(r, cb), {c}) = Filter(r, {c})
    BY FilterAppend
  <2>3. Len(Append(Filter(r, {c}), c)) = Len(Filter(r, {c})) + 1
    BY <1>1, AppendProperties
  <2> QED
    BY <2>1, <2>2, <2>3 DEF Turns, c
<1>4. ASSUME r # <<>>
      PROVE  Turns(r, s) = Turns(Tail(r), s) + (IF Head(r) = c THEN 1 ELSE 0)
  <2> DEFINE g == Filter(Tail(r), {c})
  <2>1. Tail(r) \in Seq(Callbacks) /\ Head(r) \in Callbacks
    BY <1>4, HeadTailProperties
  <2>2. g \in Seq(Callbacks) /\ Len(g) \in Nat /\ Turns(Tail(r), s) = Len(g)
    BY <2>1, FilterPicks, LenProperties DEF Turns
  <2>3. Filter(r, {c}) = IF Head(r) = c THEN <<Head(r)>> \o g ELSE g
    <3> HIDE DEF c
    <3> QED
      BY <1>4, FilterHead
  <2> HIDE DEF g, c
  <2> DEFINE w == <<Head(r)>> \o g
  <2>4. Len(w) = Len(g) + 1 /\ Filter(r, {c}) = IF Head(r) = c THEN w ELSE g
    BY <2>1, <2>2, <2>3, OneBefore
  <2> HIDE DEF w
  <2>5. Turns(r, s) = Len(Filter(r, {c})) /\ Len(g) \in Nat /\ Turns(Tail(r), s) = Len(g)
    BY <1>1, <2>2
  <2>6. CASE Head(r) = c
    <3>1. Turns(r, s) = Len(g) + 1
      BY <2>4, <2>5, <2>6
    <3> QED
      BY <2>5, <2>6, <3>1
  <2>7. CASE Head(r) # c
    <3>1. Turns(r, s) = Len(g)
      BY <2>4, <2>5, <2>7
    <3> QED
      BY <2>5, <2>7, <3>1
  <2> QED
    BY <2>6, <2>7
<1>5. Turns(Filter(r, Callbacks \ {c}), s) = 0
  <2>1. (Callbacks \ {c}) \cap {c} = {}
    OBVIOUS
  <2>2. Filter(Filter(r, Callbacks \ {c}), {c}) = <<>>
    <3> HIDE DEF c
    <3> QED
      BY <2>1, FilterTwice, FilterNothing
  <2> QED
    BY <2>2, EmptySeq DEF Turns
<1>6. ASSUME NEW t \in Streams \ {s}
      PROVE  Turns(Filter(r, Callbacks \ {<<"resume", t>>}), s) = Turns(r, s)
  <2>1. (Callbacks \ {<<"resume", t>>}) \cap {c} = {c}
    BY <1>1, CallbackKinds
  <2>2. Filter(Filter(r, Callbacks \ {<<"resume", t>>}), {c}) = Filter(r, {c})
    BY <2>1, FilterTwice
  <2> QED
    BY <2>2 DEF Turns
<1> QED
  BY <1>2, <1>3, <1>4, <1>5, <1>6

-----------------------------------------------------------------------------
(* What is on its way to a client, when an event is handed over, put or    *)
(* sent.                                                                   *)
LEMMA OnTheWay ==
  ASSUME NEW a \in Seq(Events), NEW b \in Seq(Events), NEW p \in Seq(Events), NEW e \in Events
  PROVE  /\ (a \o b) \o Append(p, e) = Append((a \o b) \o p, e)
         /\ (a \o Append(b, e)) \o p = (a \o b) \o (<<e>> \o p)
         /\ (Append(a, e) \o b) \o p = (a \o (<<e>> \o b)) \o p
<1> DEFINE o == <<e>>
<1>1. /\ o \in Seq(Events) /\ Append(p, e) = p \o o /\ Append(b, e) = b \o o /\ Append(a, e) = a \o o
  BY AppendIsConcat
<1> HIDE DEF o
<1>2. /\ a \o b \in Seq(Events) /\ (a \o b) \o p \in Seq(Events)
  BY ConcatProperties
<1>3. Append((a \o b) \o p, e) = ((a \o b) \o p) \o o
  BY <1>2, AppendIsConcat DEF o
<1>4. (a \o b) \o (p \o o) = ((a \o b) \o p) \o o
  BY SMTT(20), <1>1, <1>2, ConcatAssociative
<1>5. (a \o (b \o o)) \o p = (a \o b) \o (o \o p)
  <2>1. a \o (b \o o) = (a \o b) \o o
    BY <1>1, ConcatAssociative
  <2>2. ((a \o b) \o o) \o p = (a \o b) \o (o \o p)
    BY SMTT(20), <1>1, <1>2, ConcatAssociative
  <2> QED
    BY <2>1, <2>2
<1>6. ((a \o o) \o b) \o p = (a \o (o \o b)) \o p
  BY <1>1, ConcatAssociative
<1> QED
  BY <1>1, <1>3, <1>4, <1>5, <1>6 DEF o

LEMMA HeadAndTail ==
  ASSUME NEW R, NEW q \in Seq(R), q # <<>>
  PROVE  q = <<Head(q)>> \o Tail(q) /\ Head(q) \in R /\ Tail(q) \in Seq(R)
<1>1. Head(q) \in R /\ Tail(q) \in Seq(R) /\ Len(Tail(q)) = Len(q) - 1 /\ Len(q) \in Nat
      /\ Head(q) = q[1] /\ \A i \in 1..Len(Tail(q)) : Tail(q)[i] = q[i + 1]
  BY HeadTailProperties, LenProperties
<1> DEFINE h == Head(q)
           t == Tail(q)
           w == <<h>> \o t
<1>2. h \in R /\ t \in Seq(R) /\ Len(t) = Len(q) - 1 /\ h = q[1] /\ \A i \in 1..Len(t) : t[i] = q[i + 1]
  BY <1>1
<1> HIDE DEF h, t
<1>3. w \in Seq(R) /\ Len(w) = Len(t) + 1 /\ Len(t) \in Nat /\ w[1] = h /\ \A i \in 1..Len(t) : w[i + 1] = t[i]
  BY <1>2, OneBefore
<1> HIDE DEF w
<1>4. ASSUME NEW i \in 1..Len(q) PROVE q[i] = w[i]
  <2>1. CASE i = 1
    BY <1>2, <1>3, <2>1
  <2>2. CASE i # 1
    <3>1. i - 1 \in 1..Len(t) /\ (i - 1) + 1 = i
      BY <1>1, <1>2, <2>2
    <3>2. PICK j \in 1..Len(t) : i = j + 1
      BY <3>1
    <3> QED
      BY <1>2, <1>3, <3>2
  <2> QED
    BY <2>1, <2>2
<1>5. q = w
  BY <1>1, <1>2, <1>3, <1>4, SeqEqual
<1> QED
  BY <1>1, <1>5 DEF h, t, w

-----------------------------------------------------------------------------
(* The loop: it keeps HeardInOrder, because a callback goes to the end of  *)
(* the list and is taken from its head; and a generator that is to run has *)
(* one continuation, so that nothing is sent twice.                        *)
InOrder(s) ==
  gen[s] # "broken" => (sent[s] \o queue[s]) \o PutEvents(ready, s) = posted[s]

Due(s) == Turns(ready, s) = IF gen[s] = "woken" THEN 1 ELSE 0

(* A generator that ended by itself sent "done" last.                      *)
Closes(s) == gen[s] = "finished" => sent[s] # <<>> /\ sent[s][Len(sent[s])] = <<"done">>

LoopKinds ==
  /\ posted \in [Streams -> Seq(Events)]
  /\ ready \in Seq(Callbacks)
  /\ queue \in [Streams -> Seq(Events)]
  /\ sent \in [Streams -> Seq(Events)]
  /\ gen \in [Streams -> {"none", "woken", "waiting", "finished", "broken", "closed"}]

LoopInv == LoopKinds /\ \A s \in Streams : InOrder(s) /\ Due(s) /\ Closes(s)

LEMMA LoopPost ==
  ASSUME LoopInv, NEW s \in Streams, NEW e \in Events, Post(s, e), UNCHANGED loop
  PROVE  LoopInv'
<1> DEFINE cb == <<"put", s, e>>
<1>1. /\ posted' = [posted EXCEPT ![s] = Append(@, e)] /\ ready' = Append(ready, cb)
      /\ queue' = queue /\ gen' = gen /\ sent' = sent
  BY DEF Post, loop
<1>2. LoopKinds /\ cb \in Callbacks /\ \A t \in Streams : cb # <<"resume", t>>
  BY CallbackKinds DEF LoopInv
<1> HIDE DEF cb
<1>3. LoopKinds'
  <2>1. ready' \in Seq(Callbacks) /\ \A t \in Streams : posted'[t] \in Seq(Events)
    BY <1>1, <1>2, AppendProperties DEF LoopKinds
  <2> QED
    BY <1>1, <1>2, <2>1 DEF LoopKinds
<1>4. ASSUME NEW t \in Streams
      PROVE  InOrder(t)' /\ Due(t)' /\ Closes(t)'
  <2>1. InOrder(t) /\ Due(t) /\ Closes(t)
    BY DEF LoopInv
  <2>2. Turns(ready', t) = Turns(ready, t)
    BY <1>1, <1>2, TurnsMove DEF LoopKinds
  <2>3. CASE t = s
    <3>1. PutEvents(ready', s) = Append(PutEvents(ready, s), e) /\ PutEvents(ready, s) \in Seq(Events)
      BY <1>1, <1>2, PutEventsAppend, PutEventsType DEF LoopKinds, cb
    <3>2. (sent[s] \o queue[s]) \o Append(PutEvents(ready, s), e)
            = Append((sent[s] \o queue[s]) \o PutEvents(ready, s), e)
      <4>1. sent[s] \in Seq(Events) /\ queue[s] \in Seq(Events)
        BY <1>2 DEF LoopKinds
      <4> QED
        BY ZenonT(30), <3>1, <4>1, OnTheWay
    <3>3. posted'[s] = Append(posted[s], e)
      BY <1>1, <1>2 DEF LoopKinds
    <3> QED
      BY <1>1, <2>1, <2>2, <2>3, <3>1, <3>2, <3>3 DEF InOrder, Due, Closes
  <2>4. CASE t # s
    <3>1. PutEvents(ready', t) = PutEvents(ready, t)
      BY <1>1, <1>2, <2>4, PutEventsAppend DEF LoopKinds, cb
    <3>2. posted'[t] = posted[t]
      BY <1>1, <1>2, <2>4 DEF LoopKinds
    <3> QED
      BY <1>1, <2>1, <2>2, <3>1, <3>2 DEF InOrder, Due, Closes
  <2> QED
    BY <2>3, <2>4
<1> QED
  BY <1>3, <1>4 DEF LoopInv

LEMMA LoopStart ==
  ASSUME LoopInv, NEW s \in Streams, Start(s), gen[s] = "none"
  PROVE  LoopInv'
<1> DEFINE cb == <<"resume", s>>
<1>1. /\ posted' = posted /\ ready' = Append(ready, cb) /\ queue' = queue /\ sent' = sent
      /\ gen' = [gen EXCEPT ![s] = "woken"]
  BY DEF Start
<1>2. LoopKinds /\ cb \in Callbacks /\ \A t \in Streams \ {s} : cb # <<"resume", t>>
  BY CallbackKinds DEF LoopInv
<1> HIDE DEF cb
<1>3. LoopKinds'
  <2>1. ready' \in Seq(Callbacks)
    BY <1>1, <1>2, AppendProperties DEF LoopKinds
  <2> QED
    BY <1>1, <1>2, <2>1 DEF LoopKinds
<1>4. ASSUME NEW t \in Streams
      PROVE  InOrder(t)' /\ Due(t)' /\ Closes(t)'
  <2>1. InOrder(t) /\ Due(t) /\ Closes(t)
    BY DEF LoopInv
  <2>2. PutEvents(ready', t) = PutEvents(ready, t)
    BY <1>1, <1>2, PutEventsAppend DEF LoopKinds, cb
  <2>3. CASE t = s
    <3>1. Turns(ready', t) = Turns(ready, t) + 1
      BY <1>1, <1>2, <2>3, TurnsMove DEF LoopKinds, cb
    <3>2. gen'[t] = "woken"
      BY <1>1, <1>2, <2>3 DEF LoopKinds
    <3>3. InOrder(t)'
      BY <1>1, <2>1, <2>2, <2>3 DEF InOrder
    <3>4. Due(t)'
      BY <2>1, <2>3, <3>1, <3>2 DEF Due
    <3> QED
      BY <3>2, <3>3, <3>4 DEF Closes
  <2>4. CASE t # s
    <3>1. Turns(ready', t) = Turns(ready, t)
      <4>1. cb \in Callbacks \ {<<"resume", t>>}
        BY <1>2, <2>4, CallbackKinds DEF cb
      <4> QED
        BY <1>1, <1>2, <4>1, TurnsMove DEF LoopKinds
    <3>2. gen'[t] = gen[t]
      BY <1>1, <1>2, <2>4 DEF LoopKinds
    <3> QED
      BY <1>1, <2>1, <2>2, <3>1, <3>2 DEF InOrder, Due, Closes
  <2> QED
    BY <2>3, <2>4
<1> QED
  BY <1>3, <1>4 DEF LoopInv

LEMMA LoopPut ==
  ASSUME LoopInv, NEW s \in Streams, Put(s)
  PROVE  LoopInv'
<1>1. LoopKinds /\ ready # <<>> /\ Tail(ready) \in Seq(Callbacks) /\ Head(ready) \in Callbacks
  BY PutEventsHead DEF LoopInv, LoopKinds, Put
<1>2. PICK e \in Events : Head(ready) = <<"put", s, e>>
  <2>1. Head(ready)[1] = "put" /\ Head(ready)[2] = s
    BY DEF Put, Callback
  <2>2. \A t \in Streams : Head(ready) # <<"resume", t>>
    <3> SUFFICES ASSUME NEW t \in Streams, NEW h, h[1] = "put", h = <<"resume", t>> PROVE FALSE
      BY <2>1
    <3> QED
      OBVIOUS
  <2>3. PICK t \in Streams, e \in Events : Head(ready) = <<"put", t, e>>
    BY <1>1, <2>2, CallbackKinds
  <2>4. t = s
    BY <2>1, <2>3
  <2> QED
    BY <2>3, <2>4
<1> DEFINE cb == <<"resume", s>>
           r == Tail(ready)
<1>3. /\ posted' = posted /\ sent' = sent
      /\ queue' = [queue EXCEPT ![s] = Append(@, e)]
      /\ \/ gen[s] = "waiting" /\ gen' = [gen EXCEPT ![s] = "woken"] /\ ready' = Append(r, cb)
         \/ gen[s] # "waiting" /\ gen' = gen /\ ready' = r
  <2>1. Callback[3] = e
    BY <1>2 DEF Callback
  <2> QED
    BY <2>1 DEF Put
<1>4. cb \in Callbacks /\ r \in Seq(Callbacks) /\ \A t \in Streams : t # s => cb # <<"resume", t>>
  BY <1>1, CallbackKinds
<1>5. \A t \in Streams : Turns(r, t) = Turns(ready, t) /\ Turns(r, t) \in Nat
  <2> SUFFICES ASSUME NEW t \in Streams PROVE Turns(r, t) = Turns(ready, t) /\ Turns(r, t) \in Nat
    OBVIOUS
  <2>1. Head(ready) # <<"resume", t>>
    BY <1>2, CallbackKinds
  <2>2. Turns(r, t) \in Nat
    BY <1>4, TurnsMove
  <2>3. Turns(ready, t) = Turns(r, t) + (IF Head(ready) = <<"resume", t>> THEN 1 ELSE 0)
    BY <1>1, TurnsMove DEF LoopKinds
  <2> HIDE DEF r
  <2> QED
    BY <2>1, <2>2, <2>3
<1>6. /\ PutEvents(ready, s) = <<e>> \o PutEvents(r, s) /\ PutEvents(r, s) \in Seq(Events)
      /\ \A t \in Streams : t # s => PutEvents(ready, t) = PutEvents(r, t)
  <2>1. \A t \in Streams : t # s => Head(ready) \notin PutsOf(t)
    BY <1>2, CallbackKinds
  <2>2. ready \in Seq(Callbacks)
    BY <1>1 DEF LoopKinds
  <2>3. PutEvents(ready, s) = <<e>> \o PutEvents(r, s)
    BY <1>1, <1>2, <2>2, PutEventsHead
  <2>4. PutEvents(r, s) \in Seq(Events)
    BY <1>4, PutEventsType
  <2>5. \A t \in Streams : t # s => PutEvents(ready, t) = PutEvents(r, t)
    BY <1>1, <2>1, <2>2, PutEventsHead
  <2> QED
    BY <2>3, <2>4, <2>5
<1>7. \A t \in Streams : PutEvents(ready', t) = PutEvents(r, t)
  <2> SUFFICES ASSUME NEW t \in Streams PROVE PutEvents(ready', t) = PutEvents(r, t)
    OBVIOUS
  <2>1. PutEvents(Append(r, cb), t) = PutEvents(r, t)
    BY <1>4, PutEventsAppend
  <2> HIDE DEF r, cb
  <2> QED
    BY <1>3, <2>1
<1> HIDE DEF r
<1>8. LoopKinds'
  <2>1. Append(r, cb) \in Seq(Callbacks)
    <3> HIDE DEF cb
    <3> QED
      BY <1>4, AppendProperties
  <2>2. \A t \in Streams : queue'[t] \in Seq(Events)
    BY <1>1, <1>3, AppendProperties DEF LoopKinds
  <2> HIDE DEF cb
  <2> QED
    BY <1>1, <1>3, <1>4, <2>1, <2>2 DEF LoopKinds
<1>9. ASSUME NEW t \in Streams
      PROVE  InOrder(t)' /\ Due(t)' /\ Closes(t)'
  <2>1. InOrder(t) /\ Due(t) /\ Closes(t) /\ PutEvents(ready', t) = PutEvents(r, t)
    BY <1>7 DEF LoopInv
  <2>2. Due(t)'
    <3>1. CASE gen[s] = "waiting" /\ gen' = [gen EXCEPT ![s] = "woken"] /\ ready' = Append(r, cb)
      <4>1. CASE t = s
        <5>1. Turns(ready', t) = Turns(r, t) + 1 /\ gen'[t] = "woken"
          BY <1>1, <1>4, <3>1, <4>1, TurnsMove DEF LoopKinds
        <5> QED
          BY <1>5, <2>1, <3>1, <4>1, <5>1 DEF Due
      <4>2. CASE t # s
        <5>1. Turns(ready', t) = Turns(r, t) /\ gen'[t] = gen[t]
          BY <1>1, <1>4, <3>1, <4>2, TurnsMove DEF LoopKinds
        <5> QED
          BY <1>5, <2>1, <5>1 DEF Due
      <4> QED
        BY <4>1, <4>2
    <3>2. CASE gen' = gen /\ ready' = r
      BY <1>5, <2>1, <3>2 DEF Due
    <3> QED
      BY <1>3, <3>1, <3>2
  <2>3. /\ gen'[t] = "broken" <=> gen[t] = "broken"
        /\ gen'[t] = "finished" => gen[t] = "finished"
    BY <1>1, <1>3 DEF LoopKinds
  <2>4. InOrder(t)'
    <3>1. CASE t = s
      <4>1. queue'[s] = Append(queue[s], e) /\ sent[s] \in Seq(Events) /\ queue[s] \in Seq(Events)
        BY <1>1, <1>3 DEF LoopKinds
      <4>2. (sent[s] \o Append(queue[s], e)) \o PutEvents(r, s)
              = (sent[s] \o queue[s]) \o (<<e>> \o PutEvents(r, s))
        BY ZenonT(30), <1>6, <4>1, OnTheWay
      <4> QED
        BY <1>3, <1>6, <2>1, <2>3, <3>1, <4>1, <4>2 DEF InOrder
    <3>2. CASE t # s
      <4>1. queue'[t] = queue[t]
        BY <1>1, <1>3, <3>2 DEF LoopKinds
      <4> QED
        BY <1>3, <1>6, <2>1, <2>3, <3>2, <4>1 DEF InOrder
    <3> QED
      BY <3>1, <3>2
  <2> QED
    BY <1>3, <2>1, <2>2, <2>3, <2>4 DEF Closes
<1> QED
  BY <1>8, <1>9 DEF LoopInv

(* The generator of s has its turn: its continuation is the oldest         *)
(* callback, and it is to run.                                             *)
LEMMA AtTurn ==
  ASSUME LoopInv, NEW s \in Streams, Turn(s)
  PROVE  /\ gen[s] = "woken" /\ Tail(ready) \in Seq(Callbacks)
         /\ Turns(ready, s) = 1 /\ Turns(Tail(ready), s) = 0
         /\ \A t \in Streams : t # s => Turns(Tail(ready), t) = Turns(ready, t)
         /\ \A t \in Streams : PutEvents(Tail(ready), t) = PutEvents(ready, t)
         /\ Turns(Append(Tail(ready), Callback), s) = 1
         /\ \A t \in Streams : t # s => Turns(Append(Tail(ready), Callback), t) = Turns(ready, t)
         /\ \A t \in Streams : PutEvents(Append(Tail(ready), Callback), t) = PutEvents(ready, t)
         /\ Append(Tail(ready), Callback) \in Seq(Callbacks)
<1> DEFINE r == Tail(ready)
           cb == <<"resume", s>>
<1>1. /\ ready \in Seq(Callbacks) /\ ready # <<>> /\ Head(ready) = cb /\ Callback = cb
      /\ r \in Seq(Callbacks) /\ cb \in Callbacks
  BY PutEventsHead, CallbackKinds DEF LoopInv, LoopKinds, Turn, Callback
<1>2. Turns(ready, s) \in Nat /\ Turns(r, s) \in Nat /\ Due(s)
  BY <1>1, TurnsMove DEF LoopInv
<1>3. Turns(ready, s) = Turns(r, s) + 1
  <2>1. Turns(ready, s) = Turns(r, s) + (IF Head(ready) = cb THEN 1 ELSE 0)
    BY <1>1, TurnsMove
  <2> HIDE DEF r, cb
  <2> QED
    BY <1>1, <1>2, <2>1
<1>4. gen[s] = "woken" /\ Turns(ready, s) = 1 /\ Turns(r, s) = 0
  <2> HIDE DEF r, cb
  <2> QED
    BY <1>2, <1>3 DEF Due
<1>5. ASSUME NEW t \in Streams, t # s
      PROVE  Turns(r, t) = Turns(ready, t) /\ Turns(Append(r, cb), t) = Turns(ready, t)
  <2>1. cb # <<"resume", t>>
    BY <1>5, CallbackKinds
  <2>2. Turns(r, t) \in Nat /\ Turns(Append(r, cb), t) = Turns(r, t)
    BY <1>1, <2>1, TurnsMove
  <2>3. Turns(ready, t) = Turns(r, t) + (IF Head(ready) = <<"resume", t>> THEN 1 ELSE 0)
    BY <1>1, TurnsMove
  <2>4. Turns(ready, t) = Turns(r, t)
    <3>1. Head(ready) # <<"resume", t>>
      BY <1>1, <2>1
    <3> HIDE DEF r
    <3> QED
      BY <2>2, <2>3, <3>1
  <2> HIDE DEF r, cb
  <2> QED
    BY <2>2, <2>4
<1>6. ASSUME NEW t \in Streams
      PROVE  PutEvents(r, t) = PutEvents(ready, t) /\ PutEvents(Append(r, cb), t) = PutEvents(ready, t)
  <2>1. cb \notin PutsOf(t)
    BY CallbackKinds
  <2>2. PutEvents(r, t) = PutEvents(ready, t)
    BY <1>1, <2>1, PutEventsHead
  <2>3. PutEvents(Append(r, cb), t) = PutEvents(r, t)
    BY <1>1, PutEventsAppend
  <2> QED
    BY <2>2, <2>3
<1>7. Turns(Append(r, cb), s) = 1 /\ Append(r, cb) \in Seq(Callbacks)
  <2>1. Turns(Append(r, cb), s) = Turns(r, s) + 1
    BY <1>1, TurnsMove
  <2>2. Append(r, cb) \in Seq(Callbacks)
    <3> HIDE DEF r, cb
    <3> QED
      BY <1>1, AppendProperties
  <2> QED
    BY <1>4, <2>1, <2>2
<1> HIDE DEF cb
<1> QED
  BY <1>1, <1>4, <1>5, <1>6, <1>7

LEMMA LoopStays ==
  ASSUME LoopInv, NEW s \in Streams, NEW t \in Streams, t # s,
         posted' = posted, queue'[t] = queue[t], sent'[t] = sent[t], gen'[t] = gen[t],
         PutEvents(ready', t) = PutEvents(ready, t), Turns(ready', t) = Turns(ready, t)
  PROVE  InOrder(t)' /\ Due(t)' /\ Closes(t)'
BY DEF LoopInv, InOrder, Due, Closes

LEMMA LoopWait ==
  ASSUME LoopInv, NEW s \in Streams, Wait(s)
  PROVE  LoopInv'
<1>1. /\ Turn(s) /\ posted' = posted /\ queue' = queue /\ sent' = sent
      /\ gen' = [gen EXCEPT ![s] = "waiting"] /\ ready' = Tail(ready)
  BY DEF Wait
<1>2. LoopKinds /\ gen'[s] = "waiting" /\ \A t \in Streams : t # s => gen'[t] = gen[t]
  BY <1>1 DEF LoopInv, LoopKinds
<1>3. LoopKinds'
  BY <1>1, <1>2, AtTurn DEF LoopKinds
<1>4. InOrder(s)' /\ Due(s)' /\ Closes(s)'
  <2>1. InOrder(s) /\ gen[s] = "woken" /\ PutEvents(ready', s) = PutEvents(ready, s) /\ Turns(ready', s) = 0
    BY <1>1, AtTurn DEF LoopInv
  <2>2. InOrder(s)'
    BY <1>1, <2>1 DEF InOrder
  <2> QED
    BY <1>2, <2>1, <2>2 DEF Due, Closes
<1>5. \A t \in Streams : t # s => InOrder(t)' /\ Due(t)' /\ Closes(t)'
  BY <1>1, <1>2, AtTurn, LoopStays
<1> QED
  BY <1>3, <1>4, <1>5 DEF LoopInv

LEMMA LoopSend ==
  ASSUME LoopInv, NEW s \in Streams, Send(s)
  PROVE  LoopInv'
<1> DEFINE e == Head(queue[s])
<1>1. /\ Turn(s) /\ queue[s] # <<>> /\ posted' = posted
      /\ queue' = [queue EXCEPT ![s] = Tail(@)]
      /\ sent' = [sent EXCEPT ![s] = Append(@, e)]
      /\ \/ e = <<"done">> /\ gen' = [gen EXCEPT ![s] = "finished"] /\ ready' = Tail(ready)
         \/ e # <<"done">> /\ gen' = gen /\ ready' = Append(Tail(ready), Callback)
  BY DEF Send
<1>2. /\ LoopKinds /\ queue[s] \in Seq(Events) /\ sent[s] \in Seq(Events)
      /\ e \in Events /\ Tail(queue[s]) \in Seq(Events) /\ queue[s] = <<e>> \o Tail(queue[s])
  BY <1>1, HeadAndTail DEF LoopInv, LoopKinds
<1> HIDE DEF e
<1>3. /\ queue'[s] = Tail(queue[s]) /\ sent'[s] = Append(sent[s], e)
      /\ \A t \in Streams : t # s => queue'[t] = queue[t] /\ sent'[t] = sent[t] /\ gen'[t] = gen[t]
      /\ Append(sent[s], e) \in Seq(Events)
      /\ Append(sent[s], e) # <<>> /\ Append(sent[s], e)[Len(Append(sent[s], e))] = e
  <2>1. /\ Append(sent[s], e) \in Seq(Events) /\ Append(sent[s], e) # <<>>
        /\ Append(sent[s], e)[Len(Append(sent[s], e))] = e
    BY <1>2, AppendProperties
  <2>2. /\ queue'[s] = Tail(queue[s]) /\ sent'[s] = Append(sent[s], e)
        /\ \A t \in Streams : t # s => queue'[t] = queue[t] /\ sent'[t] = sent[t] /\ gen'[t] = gen[t]
    BY <1>1, <1>2 DEF LoopKinds
  <2> QED
    BY <2>1, <2>2
<1>4. LoopKinds'
  <2>1. \A t \in Streams : queue'[t] \in Seq(Events) /\ sent'[t] \in Seq(Events)
    BY <1>2, <1>3 DEF LoopKinds
  <2>2. ready' \in Seq(Callbacks)
    BY <1>1, AtTurn
  <2> QED
    BY <1>1, <1>2, <2>1, <2>2 DEF LoopKinds
<1>5. InOrder(s)' /\ Due(s)' /\ Closes(s)'
  <2>1. /\ InOrder(s) /\ gen[s] = "woken" /\ PutEvents(ready', s) = PutEvents(ready, s)
        /\ PutEvents(ready, s) \in Seq(Events)
    BY <1>1, <1>2, AtTurn, PutEventsType DEF LoopInv, LoopKinds
  <2>2. (Append(sent[s], e) \o Tail(queue[s])) \o PutEvents(ready, s)
          = (sent[s] \o (<<e>> \o Tail(queue[s]))) \o PutEvents(ready, s)
    BY ZenonT(30), <1>2, <2>1, OnTheWay
  <2>3. InOrder(s)'
    BY <1>1, <1>2, <1>3, <2>1, <2>2 DEF InOrder
  <2>4. CASE e = <<"done">> /\ gen' = [gen EXCEPT ![s] = "finished"] /\ ready' = Tail(ready)
    <3>1. gen'[s] = "finished" /\ Turns(ready', s) = 0
      BY <1>1, <1>2, <2>4, AtTurn DEF LoopKinds
    <3>2. Closes(s)'
      BY <1>3, <2>4 DEF Closes
    <3> QED
      BY <2>3, <3>1, <3>2 DEF Due
  <2>5. CASE gen' = gen /\ ready' = Append(Tail(ready), Callback)
    <3>1. gen'[s] = "woken" /\ Turns(ready', s) = 1
      BY <1>1, <2>1, <2>5, AtTurn
    <3> QED
      BY <2>3, <3>1 DEF Due, Closes
  <2> QED
    BY <1>1, <2>4, <2>5
<1>6. \A t \in Streams : t # s => InOrder(t)' /\ Due(t)' /\ Closes(t)'
  <2>1. \A t \in Streams : t # s => /\ PutEvents(ready', t) = PutEvents(ready, t)
                                    /\ Turns(ready', t) = Turns(ready, t)
    BY <1>1, AtTurn
  <2> QED
    BY <1>1, <1>3, <2>1, LoopStays
<1> QED
  BY <1>4, <1>5, <1>6 DEF LoopInv

LEMMA LoopBreak ==
  ASSUME LoopInv, NEW s \in Streams, Break(s)
  PROVE  LoopInv'
<1>1. /\ Turn(s) /\ queue[s] # <<>> /\ posted' = posted /\ sent' = sent
      /\ queue' = [queue EXCEPT ![s] = Tail(@)]
      /\ gen' = [gen EXCEPT ![s] = "broken"] /\ ready' = Tail(ready)
  BY DEF Break
<1>2. LoopKinds /\ Tail(queue[s]) \in Seq(Events)
  BY <1>1, HeadAndTail DEF LoopInv, LoopKinds
<1>3. /\ queue'[s] = Tail(queue[s]) /\ gen'[s] = "broken"
      /\ \A t \in Streams : t # s => queue'[t] = queue[t] /\ gen'[t] = gen[t]
  BY <1>1, <1>2 DEF LoopKinds
<1>4. LoopKinds'
  <2>1. \A t \in Streams : queue'[t] \in Seq(Events)
    BY <1>2, <1>3 DEF LoopKinds
  <2>2. ready' \in Seq(Callbacks)
    BY <1>1, AtTurn
  <2> QED
    BY <1>1, <1>2, <2>1, <2>2 DEF LoopKinds
<1>5. InOrder(s)' /\ Due(s)' /\ Closes(s)'
  <2>1. Turns(ready', s) = 0
    BY <1>1, AtTurn
  <2> QED
    BY <1>3, <2>1 DEF InOrder, Due, Closes
<1>6. \A t \in Streams : t # s => InOrder(t)' /\ Due(t)' /\ Closes(t)'
  <2>1. \A t \in Streams : t # s => /\ PutEvents(ready', t) = PutEvents(ready, t)
                                    /\ Turns(ready', t) = Turns(ready, t)
    BY <1>1, AtTurn
  <2> QED
    BY <1>1, <1>3, <2>1, LoopStays
<1> QED
  BY <1>4, <1>5, <1>6 DEF LoopInv

LEMMA LoopLeave ==
  ASSUME LoopInv, NEW s \in Streams, Leave(s)
  PROVE  LoopInv'
<1>1. /\ posted' = posted /\ sent' = sent /\ queue' = queue
      /\ gen[s] \in {"woken", "waiting"} /\ gen' = [gen EXCEPT ![s] = "closed"]
      /\ ready' = Filter(ready, Callbacks \ {<<"resume", s>>})
  BY DEF Leave
<1>2. LoopKinds /\ ready \in Seq(Callbacks)
  BY DEF LoopInv, LoopKinds
<1>3. /\ gen'[s] = "closed" /\ \A t \in Streams : t # s => gen'[t] = gen[t]
  BY <1>1, <1>2 DEF LoopKinds
<1>4. LoopKinds'
  BY <1>1, <1>2, FilterPicks DEF LoopKinds
<1>5. \A t \in Streams : PutEvents(ready', t) = PutEvents(ready, t)
  BY <1>1, <1>2, PutEventsLeave
<1>6. InOrder(s)' /\ Due(s)' /\ Closes(s)'
  <2>1. Turns(ready', s) = 0 /\ InOrder(s) /\ gen[s] # "broken"
    BY <1>1, <1>2, TurnsMove DEF LoopInv
  <2>2. InOrder(s)'
    BY <1>1, <1>5, <2>1 DEF InOrder
  <2> QED
    BY <1>3, <2>1, <2>2 DEF Due, Closes
<1>7. \A t \in Streams : t # s => InOrder(t)' /\ Due(t)' /\ Closes(t)'
  <2>1. \A t \in Streams : t # s => Turns(ready', t) = Turns(ready, t)
    <3> SUFFICES ASSUME NEW t \in Streams, t # s PROVE Turns(ready', t) = Turns(ready, t)
      OBVIOUS
    <3> QED
      BY <1>1, <1>2, TurnsMove
  <2> QED
    BY <1>1, <1>3, <1>5, <2>1, LoopStays
<1> QED
  BY <1>4, <1>6, <1>7 DEF LoopInv

-----------------------------------------------------------------------------
(* The thread: what it has handed over at each point of its life, and how  *)
(* often that says "generating".                                           *)
Generations(p) == {i \in 1..Len(p) : p[i][2] = "generating"}

Told(p, st, n) ==
  /\ \A i \in 1..Len(p) : p[i] \in {"progress"} \X Stages
  /\ p = <<>> <=> st = "none"
  /\ p # <<>> => p[Len(p)] = <<"progress", st>>
  /\ Cardinality(Generations(p)) <= IF p = <<>> THEN 0 ELSE n + 1

Lasts(s) ==
  ({"result"} \X Outcomes(s)) \cup (IF stage[s] \in Final THEN {} ELSE {<<"error">>})

Reported(s, p) ==
  \E q \in Seq(Events), e \in Lasts(s) :
    p = Append(q, e) /\ Told(q, stage[s], attempt[s])

ThreadKinds ==
  /\ phase \in [Streams -> {"new", "answer", "finally", "ended"}]
  /\ stage \in [Streams -> Stages]
  /\ attempt \in [Streams -> 0..MaxRetries]
  /\ odd \in [Streams -> BOOLEAN]

Life(s) ==
  /\ phase[s] = "new" => posted[s] = <<>> /\ stage[s] = "none" /\ gen[s] = "none"
  /\ phase[s] = "answer" => Told(posted[s], stage[s], attempt[s])
  /\ phase[s] = "finally" => Reported(s, posted[s])
  /\ phase[s] = "ended" => \E p \in Seq(Events) : Reported(s, p) /\ posted[s] = Append(p, <<"done">>)

ThreadInv == ThreadKinds /\ \A s \in Streams : Life(s)

LEMMA GenerationsAppend ==
  ASSUME NEW p \in Seq(Events), NEW x \in Stages
  PROVE  /\ Cardinality(Generations(p)) \in Nat
         /\ Cardinality(Generations(Append(p, <<"progress", x>>)))
              = Cardinality(Generations(p)) + (IF x = "generating" THEN 1 ELSE 0)
<1> DEFINE e == <<"progress", x>>
           q == Append(p, e)
<1>1. e \in Events /\ e[2] = x
  BY DEF Events
<1> HIDE DEF e
<1>2. Len(p) \in Nat /\ Len(q) = Len(p) + 1 /\ q[Len(p) + 1] = e /\ \A i \in 1..Len(p) : q[i] = p[i]
  BY <1>1, AppendProperties, LenProperties
<1> HIDE DEF q
<1>3. Generations(q) = Generations(p) \cup (IF x = "generating" THEN {Len(p) + 1} ELSE {})
  BY <1>1, <1>2 DEF Generations
<1>4. IsFiniteSet(Generations(p)) /\ Cardinality(Generations(p)) \in Nat
  <2>1. IsFiniteSet(1..Len(p)) /\ Generations(p) \subseteq 1..Len(p)
    BY <1>2, FS_Interval DEF Generations
  <2> QED
    BY <2>1, FS_Subset, FS_CardinalityType
<1>5. Len(p) + 1 \notin Generations(p)
  BY <1>2 DEF Generations
<1>6. Cardinality(Generations(p) \cup {Len(p) + 1}) = Cardinality(Generations(p)) + 1
  BY <1>4, <1>5, FS_AddElement
<1>7. Cardinality(Generations(q)) = Cardinality(Generations(p)) + (IF x = "generating" THEN 1 ELSE 0)
  <2>1. CASE x = "generating"
    BY <1>3, <1>6, <2>1
  <2>2. CASE x # "generating"
    <3>1. Generations(q) = Generations(p)
      BY <1>3, <2>2
    <3> QED
      BY <1>4, <2>2, <3>1
  <2> QED
    BY <2>1, <2>2
<1> QED
  BY <1>4, <1>7 DEF q, e

LEMMA ToldMore ==
  ASSUME NEW p \in Seq(Events), NEW st \in Stages, NEW n \in Nat, NEW m \in Nat, NEW x \in Stages,
         Told(p, st, n), x # "none",
         m >= n, x = "generating" => p = <<>> \/ m = n + 1
  PROVE  Told(Append(p, <<"progress", x>>), x, m)
<1> DEFINE e == <<"progress", x>>
           q == Append(p, e)
<1>1. e \in Events /\ e \in {"progress"} \X Stages
  BY DEF Events
<1>2. /\ Cardinality(Generations(p)) \in Nat
      /\ Cardinality(Generations(q)) = Cardinality(Generations(p)) + (IF x = "generating" THEN 1 ELSE 0)
  BY GenerationsAppend
<1> HIDE DEF e
<1>3. /\ Len(p) \in Nat /\ Len(q) = Len(p) + 1 /\ q[Len(p) + 1] = e /\ q # <<>>
      /\ \A i \in 1..Len(p) : q[i] = p[i]
  BY <1>1, AppendProperties, LenProperties
<1> HIDE DEF q
<1>4. \A i \in 1..Len(q) : q[i] \in {"progress"} \X Stages
  <2> SUFFICES ASSUME NEW i \in 1..Len(q) PROVE q[i] \in {"progress"} \X Stages
    OBVIOUS
  <2>1. i \in 1..Len(p) \/ i = Len(p) + 1
    BY <1>3
  <2> QED
    BY <1>1, <1>3, <2>1 DEF Told
<1>5. Cardinality(Generations(q)) <= m + 1
  <2>1. CASE x = "generating"
    <3>1. CASE p = <<>>
      <4>1. Cardinality(Generations(p)) = 0
        BY <1>2, <3>1 DEF Told
      <4> QED
        BY <1>2, <4>1
    <3>2. CASE p # <<>>
      <4>1. Cardinality(Generations(p)) <= n + 1 /\ m = n + 1
        BY <2>1, <3>2 DEF Told
      <4> QED
        BY <1>2, <2>1, <4>1
    <3> QED
      BY <3>1, <3>2
  <2>2. CASE x # "generating"
    <3>1. Cardinality(Generations(p)) <= n + 1
      BY <1>2 DEF Told
    <3> QED
      BY <1>2, <2>2, <3>1
  <2> QED
    BY <2>1, <2>2
<1> QED
  BY <1>3, <1>4, <1>5 DEF Told, q, e

(* What a step of another thread, or of the loop, leaves of a thread's     *)
(* life.                                                                   *)
LEMMA LifeStays ==
  ASSUME NEW t \in Streams, Life(t),
         phase'[t] = phase[t], stage'[t] = stage[t], attempt'[t] = attempt[t],
         posted'[t] = posted[t], gen[t] = "none" => gen'[t] = "none"
  PROVE  Life(t)'
<1>1. Lasts(t)' = Lasts(t)
  BY DEF Lasts, Outcomes
<1>2. \A p : Reported(t, p)' <=> Reported(t, p)
  BY <1>1 DEF Reported
<1> QED
  BY <1>2 DEF Life

LEMMA ThreadPost ==
  ASSUME LoopInv, ThreadInv, NEW s \in Streams, NEW e \in Events, Post(s, e)
  PROVE  /\ posted'[s] = Append(posted[s], e) /\ posted[s] \in Seq(Events)
         /\ \A t \in Streams : t # s => posted'[t] = posted[t]
BY DEF Post, LoopInv, LoopKinds

LEMMA ThreadEmit ==
  ASSUME MaxRetries \in Nat, LoopInv, ThreadInv, NEW s \in Streams, Emit(s)
  PROVE  ThreadInv'
<1>1. PICK x \in Stages : /\ <<stage[s], x>> \in Steps(s)
                          /\ stage' = [stage EXCEPT ![s] = x]
                          /\ attempt' = [attempt EXCEPT ![s] = IF <<stage[s], x>> \in Retry THEN @ + 1 ELSE @]
                          /\ Post(s, <<"progress", x>>)
  BY DEF Emit
<1>2. /\ phase[s] = "answer" /\ UNCHANGED <<phase, odd, gen>>
      /\ ThreadKinds /\ \A t \in Streams : Life(t)
  BY DEF Emit, loop, ThreadInv
<1>3. /\ posted'[s] = Append(posted[s], <<"progress", x>>) /\ posted[s] \in Seq(Events)
      /\ \A t \in Streams : t # s => posted'[t] = posted[t]
  <2>1. <<"progress", x>> \in Events
    BY DEF Events
  <2> QED
    BY <1>1, <2>1, ThreadPost
<1>4. /\ x # "none"
      /\ x = "generating" => stage[s] = "none" \/ <<stage[s], x>> \in Retry
      /\ <<stage[s], x>> \in Retry => attempt[s] < MaxRetries
  BY <1>1 DEF Steps, Onward, Retry, GiveUp
<1>5. /\ stage'[s] = x /\ stage[s] \in Stages /\ attempt[s] \in 0..MaxRetries
      /\ attempt'[s] = IF <<stage[s], x>> \in Retry THEN attempt[s] + 1 ELSE attempt[s]
      /\ \A t \in Streams : t # s => stage'[t] = stage[t] /\ attempt'[t] = attempt[t]
  BY <1>1, <1>2 DEF ThreadKinds
<1>6. attempt'[s] \in 0..MaxRetries /\ attempt'[s] >= attempt[s]
  BY <1>4, <1>5
<1>7. ThreadKinds'
  BY <1>1, <1>2, <1>5, <1>6 DEF ThreadKinds
<1>8. Life(s)'
  <2>1. Told(posted[s], stage[s], attempt[s])
    BY <1>2 DEF Life
  <2>2. x = "generating" => posted[s] = <<>> \/ attempt'[s] = attempt[s] + 1
    BY <1>4, <1>5, <2>1 DEF Told
  <2>3. Told(Append(posted[s], <<"progress", x>>), x, attempt'[s])
    <3> DEFINE p == posted[s]
               n == attempt[s]
               m == attempt'[s]
               st == stage[s]
    <3>1. /\ p \in Seq(Events) /\ st \in Stages /\ n \in Nat /\ m \in Nat /\ m >= n
          /\ x # "none" /\ Told(p, st, n)
          /\ x = "generating" => p = <<>> \/ m = n + 1
      BY <1>3, <1>4, <1>5, <1>6, <2>1, <2>2
    <3> HIDE DEF p, n, m, st
    <3>2. Told(Append(p, <<"progress", x>>), x, m)
      BY <3>1, ToldMore
    <3> QED
      BY <3>2 DEF p, m
  <2>4. Told(posted'[s], stage'[s], attempt'[s])
    BY <1>3, <1>5, <2>3
  <2> QED
    BY <1>2, <2>4 DEF Life
<1>9. \A t \in Streams : t # s => Life(t)'
  BY <1>2, <1>3, <1>5, LifeStays
<1> QED
  BY <1>7, <1>8, <1>9 DEF ThreadInv

(* The result, or the word of an exception, comes last but one.            *)
LEMMA ThreadReport ==
  ASSUME LoopInv, ThreadInv, NEW s \in Streams, NEW e \in Events \cap Lasts(s), Post(s, e),
         phase[s] = "answer", phase' = [phase EXCEPT ![s] = "finally"],
         UNCHANGED <<stage, attempt, odd, gen>>
  PROVE  ThreadInv'
<1>1. /\ posted'[s] = Append(posted[s], e) /\ posted[s] \in Seq(Events)
      /\ \A t \in Streams : t # s => posted'[t] = posted[t]
  BY ThreadPost
<1>2. phase'[s] = "finally" /\ \A t \in Streams : t # s => phase'[t] = phase[t]
  BY DEF ThreadInv, ThreadKinds
<1>3. Told(posted[s], stage[s], attempt[s])
  BY DEF ThreadInv, Life
<1>4. Reported(s, posted[s])'
  <2>1. Lasts(s)' = Lasts(s)
    BY DEF Lasts, Outcomes
  <2>2. Reported(s, posted'[s])
    BY <1>1, <1>3 DEF Reported
  <2> QED
    BY <2>1, <2>2 DEF Reported
<1>5. Life(s)'
  BY <1>2, <1>4 DEF Life
<1>6. \A t \in Streams : t # s => Life(t)'
  BY <1>1, <1>2, LifeStays DEF ThreadInv
<1> QED
  BY <1>5, <1>6 DEF ThreadInv, ThreadKinds

LEMMA ThreadReturn ==
  ASSUME LoopInv, ThreadInv, NEW s \in Streams, Return(s)
  PROVE  ThreadInv'
<1>1. PICK o \in Outcomes(s) : Post(s, <<"result", o>>)
  BY DEF Return
<1>2. <<"result", o>> \in Events \cap Lasts(s)
  BY DEF Events, Lasts, Outcomes
<1> QED
  BY <1>1, <1>2, ThreadReport DEF Return, loop

LEMMA ThreadFail ==
  ASSUME LoopInv, ThreadInv, NEW s \in Streams, Fail(s)
  PROVE  ThreadInv'
<1>1. <<"error">> \in Events \cap Lasts(s)
  BY DEF Events, Lasts, Fail
<1> QED
  BY <1>1, ThreadReport DEF Fail, loop

LEMMA ThreadFinally ==
  ASSUME LoopInv, ThreadInv, NEW s \in Streams, Finally(s)
  PROVE  ThreadInv'
<1>1. /\ posted'[s] = Append(posted[s], <<"done">>) /\ posted[s] \in Seq(Events)
      /\ \A t \in Streams : t # s => posted'[t] = posted[t]
  <2>1. <<"done">> \in Events
    BY DEF Events
  <2> QED
    BY <2>1, ThreadPost DEF Finally
<1>2. /\ UNCHANGED <<stage, attempt, odd, gen>> /\ phase[s] = "finally"
      /\ phase' = [phase EXCEPT ![s] = "ended"]
  BY DEF Finally, loop
<1>3. phase'[s] = "ended" /\ \A t \in Streams : t # s => phase'[t] = phase[t]
  BY <1>2 DEF ThreadInv, ThreadKinds
<1>4. Reported(s, posted[s])
  BY <1>2 DEF ThreadInv, Life
<1>5. \A p : Reported(s, p)' <=> Reported(s, p)
  BY <1>2 DEF Reported, Lasts, Outcomes
<1>6. Life(s)'
  BY <1>1, <1>3, <1>4, <1>5 DEF Life
<1>7. \A t \in Streams : t # s => Life(t)'
  BY <1>1, <1>2, <1>3, LifeStays DEF ThreadInv
<1> QED
  BY <1>2, <1>6, <1>7 DEF ThreadInv, ThreadKinds

LEMMA ThreadStart ==
  ASSUME ThreadInv, LoopInv, NEW s \in Streams, Start(s)
  PROVE  ThreadInv'
<1>1. /\ UNCHANGED <<stage, attempt, odd, posted>> /\ phase[s] = "new"
      /\ phase' = [phase EXCEPT ![s] = "answer"] /\ gen' = [gen EXCEPT ![s] = "woken"]
  BY DEF Start
<1>2. phase'[s] = "answer" /\ \A t \in Streams : t # s => phase'[t] = phase[t] /\ gen'[t] = gen[t]
  BY <1>1 DEF ThreadInv, ThreadKinds, LoopInv, LoopKinds
<1>3. Told(posted[s], stage[s], attempt[s])
  <2>1. posted[s] = <<>> /\ stage[s] = "none"
    BY <1>1 DEF ThreadInv, Life
  <2>2. Len(<<>>) = 0 /\ Generations(<<>>) = {}
    BY DEF Generations
  <2>3. Cardinality({}) = 0
    BY FS_EmptySet
  <2> QED
    BY <2>1, <2>2, <2>3 DEF Told
<1>4. Life(s)'
  BY <1>1, <1>2, <1>3 DEF Life
<1>5. \A t \in Streams : t # s => Life(t)'
  BY <1>1, <1>2, LifeStays DEF ThreadInv
<1> QED
  BY <1>1, <1>4, <1>5 DEF ThreadInv, ThreadKinds

(* The generator of a stream begins with its thread.                       *)
LEMMA ThreadServed ==
  ASSUME ThreadInv, LoopInv, NEW s \in Streams, Serve(s) \/ Leave(s)
  PROVE  ThreadInv'
<1>1. UNCHANGED <<phase, stage, attempt, odd, posted>>
  BY DEF Serve, Put, Wait, Send, Break, Leave, thread
<1>2. ASSUME NEW t \in Streams, gen[t] = "none" PROVE gen'[t] = "none"
  <2>1. CASE Put(s) \/ Leave(s)
    BY <1>2, <2>1 DEF Put, Leave, LoopInv, LoopKinds
  <2>2. CASE Wait(s) \/ Send(s) \/ Break(s)
    <3>1. Turn(s)
      BY <2>2 DEF Wait, Send, Break
    <3>2. gen[s] = "woken"
      BY <3>1, AtTurn
    <3> QED
      BY <1>2, <2>2, <3>2 DEF Wait, Send, Break, LoopInv, LoopKinds
  <2> QED
    BY <2>1, <2>2 DEF Serve
<1>3. \A t \in Streams : Life(t)'
  BY <1>1, <1>2, LifeStays DEF ThreadInv
<1> QED
  BY <1>1, <1>3 DEF ThreadInv, ThreadKinds

StreamInv == LoopInv /\ ThreadInv

LEMMA StreamInvStarts == BoundsAssumption /\ Init => StreamInv
<1> SUFFICES ASSUME BoundsAssumption, Init PROVE StreamInv
  OBVIOUS
<1>1. <<>> \in Seq(Events) /\ <<>> \in Seq(Callbacks)
  BY EmptySeq
<1>2. LoopKinds /\ ThreadKinds
  BY <1>1 DEF Init, LoopKinds, ThreadKinds, Stages, BoundsAssumption
<1>3. ASSUME NEW s \in Streams PROVE InOrder(s) /\ Due(s) /\ Closes(s) /\ Life(s)
  <2>1. /\ sent[s] = <<>> /\ queue[s] = <<>> /\ posted[s] = <<>> /\ ready = <<>>
        /\ gen[s] = "none" /\ phase[s] = "new" /\ stage[s] = "none"
    BY DEF Init
  <2>2. Filter(ready, PutsOf(s)) = <<>> /\ Filter(ready, {<<"resume", s>>}) = <<>>
    BY <2>1, FilterEmpty
  <2>3. PutEvents(ready, s) = <<>>
    BY <2>2 DEF PutEvents
  <2>4. Turns(ready, s) = 0
    BY <2>2, EmptySeq DEF Turns
  <2>5. <<>> \o <<>> = <<>>
    BY <1>1, ConcatEmptySeq
  <2> QED
    BY <2>1, <2>3, <2>4, <2>5 DEF InOrder, Due, Closes, Life
<1> QED
  BY <1>2, <1>3 DEF StreamInv, LoopInv, ThreadInv

LEMMA StreamInvStep ==
  ASSUME BoundsAssumption, StreamInv, [Next]_vars
  PROVE  StreamInv'
<1>1. CASE UNCHANGED vars
  <2>1. UNCHANGED <<phase, stage, attempt, odd, posted, ready, queue, gen, sent>>
    BY <1>1 DEF vars, thread, loop
  <2>2. LoopInv'
    BY <2>1 DEF StreamInv, LoopInv, LoopKinds, InOrder, Due, Closes, Turns, PutEvents
  <2>3. \A s \in Streams : Life(s)'
    BY <2>1, LifeStays DEF StreamInv, ThreadInv
  <2> QED
    BY <2>1, <2>2, <2>3 DEF StreamInv, ThreadInv, ThreadKinds
<1>2. ASSUME NEW s \in Streams, Start(s) PROVE StreamInv'
  <2>1. gen[s] = "none"
    BY <1>2 DEF Start, StreamInv, ThreadInv, Life
  <2> QED
    BY <1>2, <2>1, LoopStart, ThreadStart DEF StreamInv
<1>3. ASSUME NEW s \in Streams, Work(s) PROVE StreamInv'
  <2>1. MaxRetries \in Nat /\ LoopInv /\ ThreadInv
    BY DEF BoundsAssumption, StreamInv
  <2>2. ThreadInv'
    BY <1>3, <2>1, ThreadEmit, ThreadReturn, ThreadFail, ThreadFinally DEF Work
  <2>3. \E e \in Events : Post(s, e) /\ UNCHANGED loop
    <3>1. CASE Emit(s)
      BY <3>1 DEF Emit, Events
    <3>2. CASE Return(s)
      <4>1. PICK o \in Outcomes(s) : Post(s, <<"result", o>>)
        BY <3>2 DEF Return
      <4>2. <<"result", o>> \in Events
        BY DEF Events, Outcomes
      <4> QED
        BY <3>2, <4>1, <4>2 DEF Return
    <3>3. CASE Fail(s) \/ Finally(s)
      BY <3>3 DEF Fail, Finally, Events
    <3> QED
      BY <1>3, <3>1, <3>2, <3>3 DEF Work
  <2> QED
    BY <2>1, <2>2, <2>3, LoopPost DEF StreamInv
<1>4. ASSUME NEW s \in Streams, Serve(s) \/ Leave(s) PROVE StreamInv'
  <2>1. ThreadInv'
    BY <1>4, ThreadServed DEF StreamInv
  <2>2. LoopInv'
    BY <1>4, LoopPut, LoopWait, LoopSend, LoopBreak, LoopLeave DEF StreamInv, Serve
  <2> QED
    BY <2>1, <2>2 DEF StreamInv
<1> QED
  BY <1>1, <1>2, <1>3, <1>4 DEF Next

-----------------------------------------------------------------------------
(* What the invariant says of the properties.                              *)
LEMMA StreamTypes == StreamInv => TypeOK
<1> SUFFICES ASSUME StreamInv PROVE TypeOK
  OBVIOUS
<1>1. \A s \in Streams : Len(Resumes(s)) = IF gen[s] = "woken" THEN 1 ELSE 0
  BY DEF StreamInv, LoopInv, Due, Turns, Resumes
<1> QED
  BY <1>1 DEF StreamInv, LoopInv, LoopKinds, ThreadInv, ThreadKinds, TypeOK

LEMMA StreamOrder == StreamInv => HeardInOrder
BY PutsArePutEvents DEF StreamInv, LoopInv, InOrder, HeardInOrder

(* Only the last event of a thread that has ended is "done": a client that *)
(* heard "done" heard all there was.                                       *)
LEMMA HeardAll ==
  ASSUME StreamInv, NEW s \in Streams, gen[s] = "finished"
  PROVE  \E q \in Seq(Events), e \in Lasts(s) :
           /\ Told(q, stage[s], attempt[s])
           /\ e \in Events
           /\ sent[s] = Append(Append(q, e), <<"done">>)
<1> DEFINE h == sent[s]
           rest == queue[s] \o PutEvents(ready, s)
           p == posted[s]
           d == <<"done">>
<1>1. h \in Seq(Events) /\ queue[s] \in Seq(Events) /\ PutEvents(ready, s) \in Seq(Events)
      /\ rest \in Seq(Events) /\ h # <<>> /\ h[Len(h)] = d /\ p \in Seq(Events)
  BY PutEventsType, ConcatProperties DEF StreamInv, LoopInv, LoopKinds, Closes
<1>2. p = h \o rest
  <2>1. p = (h \o queue[s]) \o PutEvents(ready, s)
    BY DEF StreamInv, LoopInv, InOrder
  <2> DEFINE k == queue[s]
             v == PutEvents(ready, s)
  <2>2. h \in Seq(Events) /\ k \in Seq(Events) /\ v \in Seq(Events) /\ p = (h \o k) \o v
    BY <1>1, <2>1
  <2> HIDE DEF h, k, v, p
  <2>3. p = h \o (k \o v)
    BY <2>2, ConcatAssociative
  <2> QED
    BY <2>3 DEF k, v
<1> HIDE DEF h, rest, p
<1>3. /\ Len(h) \in Nat \ {0} /\ Len(rest) \in Nat /\ Len(p) = Len(h) + Len(rest)
      /\ \A i \in 1..Len(h) : p[i] = h[i]
  <2>1. Len(h) \in Nat \ {0} /\ Len(rest) \in Nat
    BY <1>1, EmptySeq, LenProperties
  <2> QED
    BY <1>1, <1>2, <2>1, ConcatProperties
<1>4. Len(h) \in 1..Len(p) /\ p[Len(h)] = d
  <2>1. Len(h) \in 1..Len(h) /\ Len(h) \in 1..Len(p)
    BY <1>3
  <2> QED
    BY <1>1, <1>3, <2>1
<1>5. \A e \in Lasts(s) : e # d /\ e \in Events
  <2> SUFFICES ASSUME NEW e \in Lasts(s) PROVE e # d /\ e \in Events
    OBVIOUS
  <2>1. e[1] # "done"
    BY DEF Lasts
  <2> QED
    BY <2>1 DEF Lasts, Outcomes, Events
<1>6. \A e \in {"progress"} \X Stages : e # d
  <2> SUFFICES ASSUME NEW e \in {"progress"} \X Stages PROVE e[1] # "done"
    OBVIOUS
  <2> QED
    OBVIOUS
<1>7. d \in Events
  BY DEF Events
<1> HIDE DEF d
<1>8. ASSUME NEW q \in Seq(Events), NEW e \in Lasts(s), Told(q, stage[s], attempt[s]),
             NEW i \in 1..Len(Append(q, e))
      PROVE  Append(q, e)[i] # d
  <2>1. /\ Len(Append(q, e)) = Len(q) + 1 /\ Append(q, e)[Len(q) + 1] = e /\ Len(q) \in Nat
        /\ \A j \in 1..Len(q) : Append(q, e)[j] = q[j]
    BY <1>5, AppendProperties, LenProperties
  <2>2. i \in 1..Len(q) \/ i = Len(q) + 1
    BY <2>1
  <2> QED
    BY <1>5, <1>6, <1>8, <2>1, <2>2 DEF Told
<1>9. phase[s] = "ended"
  <2>1. Life(s) /\ phase[s] \in {"new", "answer", "finally", "ended"}
    BY DEF StreamInv, ThreadInv, ThreadKinds
  <2>2. phase[s] # "new"
    BY <2>1 DEF Life
  <2>3. phase[s] # "answer"
    BY <1>4, <1>6, <2>1 DEF Life, Told, p
  <2>4. phase[s] # "finally"
    <3> SUFFICES ASSUME phase[s] = "finally" PROVE FALSE
      OBVIOUS
    <3>1. PICK q \in Seq(Events), e \in Lasts(s) : p = Append(q, e) /\ Told(q, stage[s], attempt[s])
      BY <2>1 DEF Life, Reported, p
    <3> QED
      BY <1>4, <1>8, <3>1
  <2> QED
    BY <2>1, <2>2, <2>3, <2>4
<1>10. PICK q \in Seq(Events), e \in Lasts(s) :
         p = Append(Append(q, e), d) /\ Told(q, stage[s], attempt[s])
  BY <1>9 DEF StreamInv, ThreadInv, Life, Reported, p, d
<1> DEFINE a == Append(q, e)
<1>11. a \in Seq(Events) /\ Len(a) \in Nat
  BY <1>5, AppendProperties, LenProperties
<1>12. \A i \in 1..Len(a) : a[i] # d
  BY <1>8, <1>10
<1>13. p = Append(a, d)
  BY <1>10
<1> HIDE DEF a
<1>14. Len(p) = Len(a) + 1 /\ \A i \in 1..Len(a) : p[i] = a[i]
  BY <1>7, <1>11, <1>13, AppendProperties
<1>15. Len(h) = Len(p)
  BY <1>3, <1>4, <1>11, <1>12, <1>14
<1>16. h = p
  BY <1>1, <1>3, <1>15, SeqEqual
<1> QED
  BY <1>5, <1>10, <1>16 DEF h, d

LEMMA StreamEnds == BoundsAssumption /\ StreamInv => EndsAsItSays
<1> SUFFICES ASSUME BoundsAssumption, StreamInv, NEW s \in Streams, gen[s] = "finished"
             PROVE  LET heard == sent[s]
                        n == Len(heard)
                        stages == SubSeq(heard, 1, n - 2)
                    IN  /\ n >= 2 /\ heard[n] = <<"done">>
                        /\ \A i \in 1..(n - 2) : heard[i][1] = "progress"
                        /\ heard[n - 1][1] \in {"result", "error"}
                        /\ (heard[n - 1][1] = "result" /\ n > 2) =>
                             <<stages[n - 2][2], heard[n - 1][2]>> \in
                               {<<"done", "success">>, <<"blocked", "blocked">>, <<"error", "error">>}
                        /\ Cardinality({i \in 1..(n - 2) : stages[i][2] = "generating"}) <= MaxRetries + 1
  BY DEF EndsAsItSays
<1>1. PICK q \in Seq(Events), e \in Lasts(s) :
        Told(q, stage[s], attempt[s]) /\ e \in Events /\ sent[s] = Append(Append(q, e), <<"done">>)
  BY HeardAll
<1> DEFINE h == sent[s]
           m == Len(q)
           a == Append(q, e)
           d == <<"done">>
<1>2. /\ a \in Seq(Events) /\ Len(a) = m + 1 /\ m \in Nat /\ a[m + 1] = e
      /\ \A i \in 1..m : a[i] = q[i]
  BY <1>1, AppendProperties, LenProperties
<1>3. d \in Events /\ h = Append(a, d)
  BY <1>1 DEF Events
<1> HIDE DEF a, d, h
<1>4. h \in Seq(Events) /\ Len(h) = m + 2 /\ h[m + 2] = d /\ h[m + 1] = e /\ \A i \in 1..m : h[i] = q[i]
  <2>1. /\ h \in Seq(Events) /\ Len(h) = Len(a) + 1 /\ h[Len(a) + 1] = d
        /\ \A i \in 1..Len(a) : h[i] = a[i]
    BY <1>2, <1>3, AppendProperties
  <2> QED
    BY <1>2, <2>1
<1> DEFINE stages == SubSeq(h, 1, m)
<1>5. \A i \in 1..m : stages[i] = q[i]
  BY <1>2, <1>4
<1> HIDE DEF stages, m
<1>6. \A i \in 1..m : q[i] \in {"progress"} \X Stages /\ h[i][1] = "progress"
  BY <1>1, <1>4 DEF Told, m
<1>7. e[1] \in {"result", "error"}
  BY DEF Lasts
<1>8. ASSUME e[1] = "result", m > 0
      PROVE  <<stages[m][2], e[2]>> \in
               {<<"done", "success">>, <<"blocked", "blocked">>, <<"error", "error">>}
  <2>1. e \in {"result"} \X Outcomes(s)
    BY <1>8 DEF Lasts
  <2>2. q # <<>> /\ q[m] = <<"progress", stage[s]>> /\ stage[s] # "none"
    BY <1>1, <1>2, <1>8, EmptySeq DEF Told, m
  <2>3. stages[m][2] = stage[s]
    BY <1>2, <1>5, <1>8, <2>2
  <2>4. e[2] \in Outcomes(s)
    BY <2>1
  <2>5. <<stage[s], e[2]>> \in {<<"done", "success">>, <<"blocked", "blocked">>, <<"error", "error">>}
    BY <2>2, <2>4 DEF Outcomes
  <2> QED
    BY <2>3, <2>5
<1>9. Cardinality({i \in 1..m : stages[i][2] = "generating"}) <= MaxRetries + 1
  <2>1. {i \in 1..m : stages[i][2] = "generating"} = Generations(q)
    BY <1>5 DEF Generations, m
  <2>2. attempt[s] \in 0..MaxRetries /\ MaxRetries \in Nat
    BY DEF StreamInv, ThreadInv, ThreadKinds, BoundsAssumption
  <2>3. Cardinality(Generations(q)) \in Nat
    <3>1. IsFiniteSet(1..m) /\ Generations(q) \subseteq 1..m
      BY <1>2, FS_Interval DEF Generations, m
    <3> QED
      BY <3>1, FS_Subset, FS_CardinalityType
  <2>4. Cardinality(Generations(q)) <= IF q = <<>> THEN 0 ELSE attempt[s] + 1
    BY <1>1 DEF Told
  <2>5. Cardinality(Generations(q)) <= MaxRetries + 1
    <3> DEFINE c == Cardinality(Generations(q))
               b == attempt[s]
    <3>1. c \in Nat /\ b \in 0..MaxRetries /\ MaxRetries \in Nat /\ (c <= 0 \/ c <= b + 1)
      BY <2>2, <2>3, <2>4
    <3> HIDE DEF c, b
    <3>2. c <= MaxRetries + 1
      BY <3>1
    <3> QED
      BY <3>2 DEF c
  <2> QED
    BY <2>1, <2>5
<1>10. Len(h) - 2 = m /\ Len(h) - 1 = m + 1 /\ m \in Nat
  BY <1>2, <1>4
<1>11. /\ Len(h) >= 2 /\ h[Len(h)] = d
       /\ \A i \in 1..(Len(h) - 2) : h[i][1] = "progress"
       /\ h[Len(h) - 1][1] \in {"result", "error"}
       /\ (h[Len(h) - 1][1] = "result" /\ Len(h) > 2) =>
            <<SubSeq(h, 1, Len(h) - 2)[Len(h) - 2][2], h[Len(h) - 1][2]>> \in
              {<<"done", "success">>, <<"blocked", "blocked">>, <<"error", "error">>}
       /\ Cardinality({i \in 1..(Len(h) - 2) : SubSeq(h, 1, Len(h) - 2)[i][2] = "generating"}) <= MaxRetries + 1
  <2>1. /\ Len(h) >= 2 /\ h[Len(h)] = d
        /\ \A i \in 1..(Len(h) - 2) : h[i][1] = "progress"
        /\ h[Len(h) - 1] = e
    BY <1>4, <1>6, <1>10
  <2>2. SubSeq(h, 1, Len(h) - 2) = stages /\ (Len(h) > 2 => m > 0)
    BY <1>10 DEF stages
  <2>3. {i \in 1..(Len(h) - 2) : stages[i][2] = "generating"} = {i \in 1..m : stages[i][2] = "generating"}
    BY <1>10
  <2>4. stages[Len(h) - 2] = stages[m]
    BY <1>10
  <2> QED
    BY <1>7, <1>8, <1>9, <2>1, <2>2, <2>3, <2>4
<1> QED
  BY <1>11 DEF h, d

(* For every schedule of threads, callbacks and clients that leave, what   *)
(* the route keeps is of its kind and a generator that is to run has one   *)
(* continuation; each client hears what its thread handed over, in order;  *)
(* and a client that heard "done" heard one outcome that its last stage    *)
(* agrees with (query_stream_route).                                       *)
THEOREM StreamsAreTrue ==
  ASSUME BoundsAssumption
  PROVE  Spec => [](TypeOK /\ HeardInOrder /\ EndsAsItSays)
<1>1. Init => StreamInv
  BY StreamInvStarts
<1>2. StreamInv /\ [Next]_vars => StreamInv'
  BY StreamInvStep
<1>3. StreamInv => TypeOK /\ HeardInOrder /\ EndsAsItSays
  BY StreamTypes, StreamOrder, StreamEnds
<1> QED
  BY <1>1, <1>2, <1>3, PTL DEF Spec
=============================================================================
