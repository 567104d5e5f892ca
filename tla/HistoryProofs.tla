---------------------------- MODULE HistoryProofs ---------------------------
(***************************************************************************)
(* What holds of the histories, for every number of calls and users, and   *)
(* all bounds.                                                             *)
(***************************************************************************)
EXTENDS HistoryStore, SlicesProofs

-----------------------------------------------------------------------------
(* The histories.                                                          *)

HistoryPlaces == Steps \cup {"new", "done"}

TurnLists(u) == {l \in Lists : who[l[1]] = u /\ l[2] \in {"turns", "lastTurns"}}
EntryLists(u) == {l \in Lists : who[l[1]] = u /\ l[2] \in {"entries", "lastEntries"}}

(* The call that makes a list comes past the place where it does. *)
Made(p, l) ==
  /\ l[2] = "turns" => p[l[1]] \notin {"new", "conversation"}
  /\ l[2] = "lastTurns" => p[l[1]] \notin {"new", "conversation", "addTurn", "keepTurns"}
  /\ l[2] = "entries" => p[l[1]] \in {"appendOwn", "measureOwn", "cutOwn", "done"}
  /\ l[2] = "lastEntries" => p[l[1]] = "done"

(* Nobody refers to another user's list, nor to one that is not made yet. *)
Owned ==
  /\ \A u \in Users : own[u] # NoList => own[u] \in EntryLists(u) /\ Made(pc, own[u])
  /\ \A u \in Users : conversation[u] # NoList => conversation[u] \in TurnLists(u) /\ Made(pc, conversation[u])
  /\ \A c \in Calls : pc[c] \in {"addTurn", "keepTurns"} => mine[c] \in TurnLists(who[c]) /\ Made(pc, mine[c])
  /\ \A c \in Calls : pc[c] \in {"appendOwn", "measureOwn", "cutOwn"} => mine[c] \in EntryLists(who[c]) /\ Made(pc, mine[c])
  /\ \A l \in Lists : ~Made(pc, l) => heap[l] = <<>>

Watched ==
  /\ (MaxHistoryEntries > 0 /\ \A c \in Calls : pc[c] \notin {"measure", "cut"})
       => Len(history) <= MaxHistoryEntries
  /\ MaxHistoryEntries > 0 => \A u \in Users :
       own[u] # NoList /\ Len(heap[own[u]]) > MaxHistoryEntries =>
         \E c \in Calls : who[c] = u /\ pc[c] \in {"measureOwn", "cutOwn"} /\ mine[c] = own[u]
  /\ ConversationLimit > 0 => \A u \in Users :
       conversation[u] # NoList /\ Len(heap[conversation[u]]) > ConversationLimit =>
         \E c \in Calls : who[c] = u /\ pc[c] = "keepTurns"

OwnItems(u) == Items(own, u)
OwnEntries(u) == OfUser(log, u)
TurnItems(u) == Items(conversation, u)
OwnTurns(u) == OfUser(turns, u)

Recording == {"measure", "cut", "setdefault", "appendOwn"}
Measuring == {"measureOwn", "cutOwn"}

(* What the list of entries of a user holds while a call of the user that  *)
(* nobody overlaps writes it, and between such calls.                      *)
OwnExact(u) ==
  /\ (\A c \in Calls : who[c] = u => pc[c] \notin Recording \cup Measuring)
       => OwnItems(u) = LastN(OwnEntries(u), MaxHistoryEntries)
  /\ \A c \in Calls : who[c] = u /\ pc[c] \in Recording
       => \E before \in Seq(Calls) : /\ OwnEntries(u) = Append(before, c)
                                     /\ OwnItems(u) = LastN(before, MaxHistoryEntries)
  /\ \A c \in Calls : who[c] = u /\ pc[c] \in Measuring
       => LastN(OwnItems(u), MaxHistoryEntries) = LastN(OwnEntries(u), MaxHistoryEntries)
  /\ \A c \in Calls : who[c] = u /\ pc[c] \in {"appendOwn"} \cup Measuring
       => mine[c] = own[u]

TurnsExact(u) ==
  /\ (\A c \in Calls : who[c] = u => pc[c] # "keepTurns")
       => TurnItems(u) = LastN(OwnTurns(u), ConversationLimit)
  /\ \A c \in Calls : who[c] = u /\ pc[c] = "keepTurns"
       => LastN(TurnItems(u), ConversationLimit) = LastN(OwnTurns(u), ConversationLimit)
  /\ \A c \in Calls : who[c] = u /\ pc[c] \in {"addTurn", "keepTurns"}
       => mine[c] = conversation[u]

Lone(u) == \A c, d \in Active : who[c] = u /\ who[d] = u => c = d

Exact == \A u \in Users \ mixed : Lone(u) /\ OwnExact(u) /\ TurnsExact(u)

Once ==
  \A c \in Calls : (\E i \in 1..Len(log) : log[i] = c) =>
    pc[c] \notin {"new", "conversation", "addTurn", "keepTurns", "append"}

-----------------------------------------------------------------------------
LEMMA HistoryMoves ==
  ASSUME TypeOK, NEW c \in Calls, NEW here, NEW next, At(c, here, next)
  PROVE  /\ pc[c] = here
         /\ pc'[c] = next
         /\ \A d \in Calls \ {c} : pc'[d] = pc[d]
         /\ next \in HistoryPlaces => pc' \in [Calls -> HistoryPlaces]
BY DEF TypeOK, At, HistoryPlaces

(* One step of a call, apart from what it does to the lists. *)
LEMMA HistoryStep ==
  ASSUME TypeOK, NEW c \in Calls,
         \/ Begin(c) \/ GetConversation(c) \/ AddTurn(c) \/ KeepTurns(c)
         \/ AppendEntry(c) \/ Measure(c) \/ Cut(c)
         \/ SetDefault(c) \/ AppendOwn(c) \/ MeasureOwn(c) \/ CutOwn(c)
  PROVE  /\ pc' \in [Calls -> HistoryPlaces]
         /\ \A d \in Calls \ {c} : pc'[d] = pc[d]
         /\ who' = who
         /\ \A l \in Lists : Made(pc, l) => Made(pc', l)
<1>1. PICK here \in HistoryPlaces, next \in HistoryPlaces :
        /\ At(c, here, next)
        /\ \/ here = "new" /\ next \in {"conversation", "append"}
           \/ here = "conversation" /\ next = "addTurn"
           \/ here = "addTurn" /\ next = "keepTurns"
           \/ here = "keepTurns" /\ next = "append"
           \/ here = "append" /\ next = "measure"
           \/ here = "measure" /\ next \in {"cut", "setdefault"}
           \/ here = "cut" /\ next = "setdefault"
           \/ here = "setdefault" /\ next = "appendOwn"
           \/ here = "appendOwn" /\ next = "measureOwn"
           \/ here = "measureOwn" /\ next \in {"cutOwn", "done"}
           \/ here = "cutOwn" /\ next = "done"
  <2> USE DEF HistoryPlaces, Steps
  <2>1. CASE Begin(c)
    BY <2>1 DEF Begin
  <2>2. CASE GetConversation(c)
    BY <2>2 DEF GetConversation
  <2>3. CASE AddTurn(c)
    BY <2>3 DEF AddTurn
  <2>4. CASE KeepTurns(c)
    BY <2>4 DEF KeepTurns
  <2>5. CASE AppendEntry(c)
    BY <2>5 DEF AppendEntry
  <2>6. CASE Measure(c)
    BY <2>6 DEF Measure
  <2>7. CASE Cut(c)
    BY <2>7 DEF Cut
  <2>8. CASE SetDefault(c)
    BY <2>8 DEF SetDefault
  <2>9. CASE AppendOwn(c)
    BY <2>9 DEF AppendOwn
  <2>10. CASE MeasureOwn(c)
    BY <2>10 DEF MeasureOwn
  <2>11. CASE CutOwn(c)
    BY <2>11 DEF CutOwn
  <2> QED
    BY <2>1, <2>2, <2>3, <2>4, <2>5, <2>6, <2>7, <2>8, <2>9, <2>10, <2>11
<1>2. /\ pc[c] = here /\ pc'[c] = next
      /\ \A d \in Calls \ {c} : pc'[d] = pc[d]
      /\ pc' \in [Calls -> HistoryPlaces]
  BY <1>1, HistoryMoves
<1>3. who' = who
  BY DEF Begin, GetConversation, AddTurn, KeepTurns, AppendEntry, Measure, Cut,
         SetDefault, AppendOwn, MeasureOwn, CutOwn
<1>4. ASSUME NEW l \in Lists, Made(pc, l)
      PROVE  Made(pc', l)
  <2>1. CASE l[1] = c
    BY <1>1, <1>2, <1>4, <2>1 DEF Made
  <2>2. CASE l[1] # c
    BY <1>2, <1>4, <2>2 DEF Made, Lists
  <2> QED
    BY <2>1, <2>2
<1> QED
  BY <1>2, <1>3, <1>4

(* What a step may do to the references and the lists. *)
LEMMA OwnedFrame ==
  ASSUME Owned, who' = who,
         \A l \in Lists : Made(pc, l) => Made(pc', l),
         \A u \in Users : \/ own'[u] = own[u]
                          \/ own'[u] \in EntryLists(u) /\ Made(pc', own'[u]),
         \A u \in Users : \/ conversation'[u] = conversation[u]
                          \/ conversation'[u] \in TurnLists(u) /\ Made(pc', conversation'[u]),
         \A c \in Calls : pc'[c] \in {"addTurn", "keepTurns"} =>
           \/ pc[c] \in {"addTurn", "keepTurns"} /\ mine'[c] = mine[c]
           \/ mine'[c] \in TurnLists(who[c]) /\ Made(pc', mine'[c]),
         \A c \in Calls : pc'[c] \in {"appendOwn", "measureOwn", "cutOwn"} =>
           \/ pc[c] \in {"appendOwn", "measureOwn", "cutOwn"} /\ mine'[c] = mine[c]
           \/ mine'[c] \in EntryLists(who[c]) /\ Made(pc', mine'[c]),
         \A l \in Lists : heap'[l] = heap[l] \/ Made(pc', l)
  PROVE  Owned'
<1>1. ASSUME NEW u
      PROVE  /\ TurnLists(u)' = TurnLists(u) /\ EntryLists(u)' = EntryLists(u)
             /\ TurnLists(u) \subseteq Lists /\ EntryLists(u) \subseteq Lists
  BY DEF TurnLists, EntryLists, Lists
<1>2. ASSUME NEW u \in Users, own'[u] # NoList
      PROVE  own'[u] \in EntryLists(u) /\ Made(pc', own'[u])
  BY <1>1, <1>2 DEF Owned
<1>3. ASSUME NEW u \in Users, conversation'[u] # NoList
      PROVE  conversation'[u] \in TurnLists(u) /\ Made(pc', conversation'[u])
  BY <1>1, <1>3 DEF Owned
<1>4. ASSUME NEW c \in Calls, pc'[c] \in {"addTurn", "keepTurns"}
      PROVE  mine'[c] \in TurnLists(who[c]) /\ Made(pc', mine'[c])
  BY <1>1, <1>4 DEF Owned
<1>5. ASSUME NEW c \in Calls, pc'[c] \in {"appendOwn", "measureOwn", "cutOwn"}
      PROVE  mine'[c] \in EntryLists(who[c]) /\ Made(pc', mine'[c])
  BY <1>1, <1>5 DEF Owned
<1>6. ASSUME NEW l \in Lists, ~Made(pc', l)
      PROVE  heap'[l] = <<>>
  BY <1>6 DEF Owned
<1> QED
  BY <1>2, <1>3, <1>4, <1>5, <1>6 DEF Owned, TurnLists, EntryLists, Lists

HistoryCallStep(c) ==
  \/ Begin(c) \/ GetConversation(c) \/ AddTurn(c) \/ KeepTurns(c)
  \/ AppendEntry(c) \/ Measure(c) \/ Cut(c)
  \/ SetDefault(c) \/ AppendOwn(c) \/ MeasureOwn(c) \/ CutOwn(c)

LEMMA HistoryTypes ==
  ASSUME BoundsAssumption, TypeOK, Owned, NEW c \in Calls, HistoryCallStep(c)
  PROVE  TypeOK'
<1>1. pc' \in [Calls -> HistoryPlaces] /\ who' = who
  BY HistoryStep DEF HistoryCallStep
<1>2. /\ who \in [Calls -> Users]
      /\ history \in Seq(Calls)
      /\ own \in [Users -> Lists \cup {NoList}]
      /\ conversation \in [Users -> Lists \cup {NoList}]
      /\ heap \in [Lists -> Seq(Calls)]
      /\ mine \in [Calls -> Lists \cup {NoList}]
      /\ log \in Seq(Calls) /\ turns \in Seq(Calls)
      /\ mixed \in SUBSET Users
      /\ who[c] \in Users
  BY DEF TypeOK
<1>3. /\ <<c, "turns">> \in Lists /\ <<c, "lastTurns">> \in Lists
      /\ <<c, "entries">> \in Lists /\ <<c, "lastEntries">> \in Lists
  BY DEF Lists
<1>4. MaxHistoryEntries \in Nat /\ ConversationLimit \in Nat
  BY DEF BoundsAssumption
<1>5. pc[c] \in {"addTurn", "keepTurns", "appendOwn", "measureOwn", "cutOwn"} =>
        mine[c] \in Lists /\ heap[mine[c]] \in Seq(Calls)
  BY <1>2 DEF Owned, TurnLists, EntryLists
<1> USE <1>1, <1>2, <1>3 DEF TypeOK, HistoryPlaces, stored, ghosts
<1>6. CASE Begin(c)
  BY <1>6 DEF Begin
<1>7. CASE GetConversation(c)
  <2> DEFINE found == IF conversation[who[c]] = NoList THEN <<c, "turns">> ELSE conversation[who[c]]
  <2>1. found \in Lists
    OBVIOUS
  <2>2. /\ conversation' = [conversation EXCEPT ![who[c]] = found]
        /\ mine' = [mine EXCEPT ![c] = found]
        /\ UNCHANGED <<history, own, heap, log, turns, mixed>>
    BY <1>7 DEF GetConversation
  <2> HIDE DEF found
  <2> QED
    BY <2>1, <2>2
<1>8. CASE AddTurn(c)
  <2>1. /\ pc[c] = "addTurn"
        /\ heap' = [heap EXCEPT ![mine[c]] = Append(heap[mine[c]], c)]
        /\ turns' = Append(turns, c)
        /\ UNCHANGED <<history, own, conversation, mine, log, mixed>>
    BY <1>8 DEF AddTurn, At
  <2>2. Append(heap[mine[c]], c) \in Seq(Calls) /\ Append(turns, c) \in Seq(Calls)
    BY <1>5, <2>1, AppendProperties
  <2> QED
    BY <2>1, <2>2
<1>9. CASE KeepTurns(c)
  <2>1. /\ pc[c] = "keepTurns"
        /\ conversation' = [conversation EXCEPT ![who[c]] = <<c, "lastTurns">>]
        /\ heap' = [heap EXCEPT ![<<c, "lastTurns">>] = LastN(heap[mine[c]], ConversationLimit)]
        /\ UNCHANGED <<history, own, mine, log, turns, mixed>>
    BY <1>9 DEF KeepTurns, At
  <2>2. LastN(heap[mine[c]], ConversationLimit) \in Seq(Calls)
    BY <1>4, <1>5, <2>1, LastNType
  <2> QED
    BY <2>1, <2>2
<1>10. CASE AppendEntry(c)
  <2>1. /\ history' = Append(history, c) /\ log' = Append(log, c)
        /\ UNCHANGED <<own, conversation, heap, mine, turns, mixed>>
    BY <1>10 DEF AppendEntry
  <2>2. Append(history, c) \in Seq(Calls) /\ Append(log, c) \in Seq(Calls)
    BY AppendProperties
  <2> QED
    BY <2>1, <2>2
<1>11. CASE Measure(c) \/ MeasureOwn(c)
  BY <1>11 DEF Measure, MeasureOwn
<1>12. CASE Cut(c)
  <2>1. /\ history' = LastN(history, MaxHistoryEntries)
        /\ UNCHANGED <<own, conversation, heap, mine, log, turns, mixed>>
    BY <1>12 DEF Cut
  <2>2. LastN(history, MaxHistoryEntries) \in Seq(Calls)
    BY <1>4, LastNType
  <2> QED
    BY <2>1, <2>2
<1>13. CASE SetDefault(c)
  <2> DEFINE found == IF own[who[c]] = NoList THEN <<c, "entries">> ELSE own[who[c]]
  <2>1. found \in Lists
    OBVIOUS
  <2>2. /\ own' = [own EXCEPT ![who[c]] = found]
        /\ mine' = [mine EXCEPT ![c] = found]
        /\ UNCHANGED <<history, conversation, heap, log, turns, mixed>>
    BY <1>13 DEF SetDefault, NewList
  <2> HIDE DEF found
  <2> QED
    BY <2>1, <2>2
<1>14. CASE AppendOwn(c)
  <2>1. /\ pc[c] = "appendOwn"
        /\ heap' = [heap EXCEPT ![mine[c]] = Append(heap[mine[c]], c)]
        /\ UNCHANGED <<history, own, conversation, mine, log, turns, mixed>>
    BY <1>14 DEF AppendOwn, At
  <2>2. Append(heap[mine[c]], c) \in Seq(Calls)
    BY <1>5, <2>1, AppendProperties
  <2> QED
    BY <2>1, <2>2
<1>15. CASE CutOwn(c)
  <2>1. /\ pc[c] = "cutOwn"
        /\ own' = [own EXCEPT ![who[c]] = <<c, "lastEntries">>]
        /\ heap' = [heap EXCEPT ![<<c, "lastEntries">>] = LastN(heap[mine[c]], MaxHistoryEntries)]
        /\ UNCHANGED <<history, conversation, mine, log, turns, mixed>>
    BY <1>15 DEF CutOwn, At
  <2>2. LastN(heap[mine[c]], MaxHistoryEntries) \in Seq(Calls)
    BY <1>4, <1>5, <2>1, LastNType
  <2> QED
    BY <2>1, <2>2
<1> QED
  BY <1>6, <1>7, <1>8, <1>9, <1>10, <1>11, <1>12, <1>13, <1>14, <1>15 DEF HistoryCallStep

LEMMA OwnedStep ==
  ASSUME TypeOK, Owned, NEW c \in Calls, HistoryCallStep(c)
  PROVE  Owned'
<1>1. /\ pc' \in [Calls -> HistoryPlaces]
      /\ \A d \in Calls \ {c} : pc'[d] = pc[d]
      /\ who' = who
      /\ \A l \in Lists : Made(pc, l) => Made(pc', l)
  BY HistoryStep DEF HistoryCallStep
<1>2. /\ own \in [Users -> Lists \cup {NoList}]
      /\ conversation \in [Users -> Lists \cup {NoList}]
      /\ heap \in [Lists -> Seq(Calls)]
      /\ mine \in [Calls -> Lists \cup {NoList}]
      /\ who[c] \in Users
  BY DEF TypeOK
<1>3. ASSUME NEW here, NEW next, At(c, here, next)
      PROVE  pc[c] = here /\ pc'[c] = next
  BY <1>3, HistoryMoves
<1>4. CASE Begin(c) \/ AppendEntry(c) \/ Measure(c) \/ Cut(c) \/ MeasureOwn(c)
  <2>1. UNCHANGED <<own, conversation, heap, mine>>
    BY <1>4 DEF Begin, AppendEntry, Measure, Cut, MeasureOwn, stored
  <2>2. /\ pc'[c] \notin {"addTurn", "keepTurns"}
        /\ pc'[c] \in {"appendOwn", "measureOwn", "cutOwn"} =>
             pc[c] \in {"appendOwn", "measureOwn", "cutOwn"}
    BY <1>3, <1>4 DEF Begin, AppendEntry, Measure, Cut, MeasureOwn
  <2> QED
    BY <1>1, <2>1, <2>2, OwnedFrame
<1>5. CASE GetConversation(c)
  <2> DEFINE found == IF conversation[who[c]] = NoList THEN <<c, "turns">> ELSE conversation[who[c]]
  <2>1. /\ conversation' = [conversation EXCEPT ![who[c]] = found]
        /\ mine' = [mine EXCEPT ![c] = found]
        /\ UNCHANGED <<own, heap>>
    BY <1>5 DEF GetConversation
  <2>2. pc'[c] = "addTurn"
    BY <1>3, <1>5 DEF GetConversation
  <2>3. found \in TurnLists(who[c]) /\ Made(pc', found)
    <3>1. CASE conversation[who[c]] = NoList
      BY <2>2, <3>1 DEF TurnLists, Lists, Made
    <3>2. CASE conversation[who[c]] # NoList
      BY <1>1, <1>2, <3>2 DEF Owned
    <3> QED
      BY <3>1, <3>2
  <2> HIDE DEF found
  <2>4. /\ conversation'[who[c]] = found /\ mine'[c] = found
        /\ \A u \in Users \ {who[c]} : conversation'[u] = conversation[u]
        /\ \A d \in Calls \ {c} : mine'[d] = mine[d]
    BY <1>2, <2>1
  <2> QED
    BY <1>1, <2>1, <2>2, <2>3, <2>4, OwnedFrame
<1>6. CASE AddTurn(c) \/ AppendOwn(c)
  <2>1. /\ heap' = [heap EXCEPT ![mine[c]] = Append(heap[mine[c]], c)]
        /\ UNCHANGED <<own, conversation, mine>>
    BY <1>6 DEF AddTurn, AppendOwn
  <2>2. \/ pc[c] = "addTurn" /\ pc'[c] = "keepTurns"
        \/ pc[c] = "appendOwn" /\ pc'[c] = "measureOwn"
    BY <1>3, <1>6 DEF AddTurn, AppendOwn
  <2>3. mine[c] \in Lists /\ Made(pc, mine[c])
    BY <2>2 DEF Owned, TurnLists, EntryLists
  <2>4. \A l \in Lists : heap'[l] = heap[l] \/ Made(pc', l)
    BY <1>1, <1>2, <2>1, <2>3
  <2> QED
    BY <1>1, <2>1, <2>2, <2>4, OwnedFrame
<1>7. CASE KeepTurns(c)
  <2> DEFINE l == <<c, "lastTurns">>
  <2>1. /\ conversation' = [conversation EXCEPT ![who[c]] = l]
        /\ heap' = [heap EXCEPT ![l] = LastN(heap[mine[c]], ConversationLimit)]
        /\ UNCHANGED <<own, mine>>
    BY <1>7 DEF KeepTurns
  <2>2. pc'[c] = "append"
    BY <1>3, <1>7 DEF KeepTurns
  <2>3. l \in TurnLists(who[c]) /\ Made(pc', l)
    BY <2>2 DEF TurnLists, Lists, Made
  <2> HIDE DEF l
  <2>4. /\ conversation'[who[c]] = l
        /\ \A u \in Users \ {who[c]} : conversation'[u] = conversation[u]
        /\ \A k \in Lists : heap'[k] = heap[k] \/ k = l
    BY <1>2, <2>1
  <2> QED
    BY <1>1, <2>1, <2>2, <2>3, <2>4, OwnedFrame
<1>8. CASE SetDefault(c)
  <2> DEFINE found == IF own[who[c]] = NoList THEN <<c, "entries">> ELSE own[who[c]]
  <2>1. /\ own' = [own EXCEPT ![who[c]] = found]
        /\ mine' = [mine EXCEPT ![c] = found]
        /\ UNCHANGED <<conversation, heap>>
    BY <1>8 DEF SetDefault, NewList
  <2>2. pc'[c] = "appendOwn"
    BY <1>3, <1>8 DEF SetDefault
  <2>3. found \in EntryLists(who[c]) /\ Made(pc', found)
    <3>1. CASE own[who[c]] = NoList
      BY <2>2, <3>1 DEF EntryLists, Lists, Made
    <3>2. CASE own[who[c]] # NoList
      BY <1>1, <1>2, <3>2 DEF Owned
    <3> QED
      BY <3>1, <3>2
  <2> HIDE DEF found
  <2>4. /\ own'[who[c]] = found /\ mine'[c] = found
        /\ \A u \in Users \ {who[c]} : own'[u] = own[u]
        /\ \A d \in Calls \ {c} : mine'[d] = mine[d]
    BY <1>2, <2>1
  <2> QED
    BY <1>1, <2>1, <2>2, <2>3, <2>4, OwnedFrame
<1>9. CASE CutOwn(c)
  <2> DEFINE l == <<c, "lastEntries">>
  <2>1. /\ own' = [own EXCEPT ![who[c]] = l]
        /\ heap' = [heap EXCEPT ![l] = LastN(heap[mine[c]], MaxHistoryEntries)]
        /\ UNCHANGED <<conversation, mine>>
    BY <1>9 DEF CutOwn
  <2>2. pc'[c] = "done"
    BY <1>3, <1>9 DEF CutOwn
  <2>3. l \in EntryLists(who[c]) /\ Made(pc', l)
    BY <2>2 DEF EntryLists, Lists, Made
  <2> HIDE DEF l
  <2>4. /\ own'[who[c]] = l
        /\ \A u \in Users \ {who[c]} : own'[u] = own[u]
        /\ \A k \in Lists : heap'[k] = heap[k] \/ k = l
    BY <1>2, <2>1
  <2> QED
    BY <1>1, <2>1, <2>2, <2>3, <2>4, OwnedFrame
<1> QED
  BY <1>4, <1>5, <1>6, <1>7, <1>8, <1>9 DEF HistoryCallStep

-----------------------------------------------------------------------------
(* A step leaves alone what belongs to other users, and the entries or the *)
(* turns if it is about the others.                                        *)

LEMMA OwnUntouched ==
  ASSUME TypeOK, Owned, NEW c \in Calls, HistoryCallStep(c), NEW u \in Users,
         u # who[c] \/ ~(SetDefault(c) \/ AppendOwn(c) \/ CutOwn(c))
  PROVE  own'[u] = own[u] /\ (own[u] # NoList => heap'[own[u]] = heap[own[u]])
<1>1. /\ own \in [Users -> Lists \cup {NoList}]
      /\ heap \in [Lists -> Seq(Calls)]
      /\ who[c] \in Users
  BY DEF TypeOK
<1>2. own[u] # NoList => own[u] \in Lists /\ who[own[u][1]] = u /\ own[u][2] \in {"entries", "lastEntries"}
  BY DEF Owned, EntryLists
<1>3. CASE \/ Begin(c) \/ GetConversation(c) \/ AppendEntry(c)
           \/ Measure(c) \/ Cut(c) \/ MeasureOwn(c)
  BY <1>3 DEF Begin, GetConversation, AppendEntry, Measure, Cut, MeasureOwn, stored
<1>4. CASE AddTurn(c) \/ AppendOwn(c)
  <2>1. own' = own /\ heap' = [heap EXCEPT ![mine[c]] = Append(heap[mine[c]], c)]
    BY <1>4 DEF AddTurn, AppendOwn
  <2>2. /\ AddTurn(c) => mine[c] \in TurnLists(who[c])
        /\ AppendOwn(c) => mine[c] \in EntryLists(who[c])
    BY DEF Owned, AddTurn, AppendOwn, At
  <2>3. own[u] # NoList => own[u] # mine[c]
    <3>1. CASE u # who[c]
      BY <1>2, <1>4, <2>2, <3>1 DEF TurnLists, EntryLists
    <3>2. CASE AddTurn(c)
      BY <1>2, <2>2, <3>2 DEF TurnLists
    <3> QED
      BY <1>4, <3>1, <3>2
  <2> QED
    BY <1>1, <1>2, <2>1, <2>3
<1>5. CASE KeepTurns(c)
  <2>1. own' = own /\ heap' = [heap EXCEPT ![<<c, "lastTurns">>] = LastN(heap[mine[c]], ConversationLimit)]
    BY <1>5 DEF KeepTurns
  <2>2. own[u] # NoList => own[u] # <<c, "lastTurns">>
    BY <1>2
  <2> QED
    BY <1>1, <1>2, <2>1, <2>2
<1>6. CASE SetDefault(c)
  <2>1. u # who[c] /\ heap' = heap
    BY <1>6 DEF SetDefault
  <2>2. own'[u] = own[u]
    BY <1>1, <1>6, <2>1 DEF SetDefault
  <2> QED
    BY <2>1, <2>2
<1>7. CASE CutOwn(c)
  <2>1. /\ u # who[c]
        /\ own' = [own EXCEPT ![who[c]] = <<c, "lastEntries">>]
        /\ heap' = [heap EXCEPT ![<<c, "lastEntries">>] = LastN(heap[mine[c]], MaxHistoryEntries)]
    BY <1>7 DEF CutOwn
  <2>2. own'[u] = own[u]
    BY <1>1, <2>1
  <2>3. own[u] # NoList => own[u] # <<c, "lastEntries">>
    BY <1>2, <2>1
  <2> QED
    BY <1>1, <1>2, <2>1, <2>2, <2>3
<1> QED
  BY <1>3, <1>4, <1>5, <1>6, <1>7 DEF HistoryCallStep

LEMMA TurnsUntouched ==
  ASSUME TypeOK, Owned, NEW c \in Calls, HistoryCallStep(c), NEW u \in Users,
         u # who[c] \/ ~(GetConversation(c) \/ AddTurn(c) \/ KeepTurns(c))
  PROVE  /\ conversation'[u] = conversation[u]
         /\ conversation[u] # NoList => heap'[conversation[u]] = heap[conversation[u]]
<1>1. /\ conversation \in [Users -> Lists \cup {NoList}]
      /\ heap \in [Lists -> Seq(Calls)]
      /\ who[c] \in Users
  BY DEF TypeOK
<1>2. conversation[u] # NoList =>
        /\ conversation[u] \in Lists
        /\ who[conversation[u][1]] = u
        /\ conversation[u][2] \in {"turns", "lastTurns"}
  BY DEF Owned, TurnLists
<1>3. CASE \/ Begin(c) \/ SetDefault(c) \/ AppendEntry(c)
           \/ Measure(c) \/ Cut(c) \/ MeasureOwn(c)
  BY <1>3 DEF Begin, SetDefault, AppendEntry, Measure, Cut, MeasureOwn, stored
<1>4. CASE AddTurn(c) \/ AppendOwn(c)
  <2>1. conversation' = conversation /\ heap' = [heap EXCEPT ![mine[c]] = Append(heap[mine[c]], c)]
    BY <1>4 DEF AddTurn, AppendOwn
  <2>2. /\ AddTurn(c) => mine[c] \in TurnLists(who[c])
        /\ AppendOwn(c) => mine[c] \in EntryLists(who[c])
    BY DEF Owned, AddTurn, AppendOwn, At
  <2>3. conversation[u] # NoList => conversation[u] # mine[c]
    <3>1. CASE u # who[c]
      BY <1>2, <1>4, <2>2, <3>1 DEF TurnLists, EntryLists
    <3>2. CASE AppendOwn(c)
      BY <1>2, <2>2, <3>2 DEF EntryLists
    <3> QED
      BY <1>4, <3>1, <3>2
  <2> QED
    BY <1>1, <1>2, <2>1, <2>3
<1>5. CASE CutOwn(c)
  <2>1. /\ conversation' = conversation
        /\ heap' = [heap EXCEPT ![<<c, "lastEntries">>] = LastN(heap[mine[c]], MaxHistoryEntries)]
    BY <1>5 DEF CutOwn
  <2>2. conversation[u] # NoList => conversation[u] # <<c, "lastEntries">>
    BY <1>2
  <2> QED
    BY <1>1, <1>2, <2>1, <2>2
<1>6. CASE GetConversation(c)
  <2>1. u # who[c] /\ heap' = heap
    BY <1>6 DEF GetConversation
  <2>2. conversation'[u] = conversation[u]
    BY <1>1, <1>6, <2>1 DEF GetConversation
  <2> QED
    BY <2>1, <2>2
<1>7. CASE KeepTurns(c)
  <2>1. /\ u # who[c]
        /\ conversation' = [conversation EXCEPT ![who[c]] = <<c, "lastTurns">>]
        /\ heap' = [heap EXCEPT ![<<c, "lastTurns">>] = LastN(heap[mine[c]], ConversationLimit)]
    BY <1>7 DEF KeepTurns
  <2>2. conversation'[u] = conversation[u]
    BY <1>1, <2>1
  <2>3. conversation[u] # NoList => conversation[u] # <<c, "lastTurns">>
    BY <1>2, <2>1
  <2> QED
    BY <1>1, <1>2, <2>1, <2>2, <2>3
<1> QED
  BY <1>3, <1>4, <1>5, <1>6, <1>7 DEF HistoryCallStep

LEMMA MineUntouched ==
  ASSUME TypeOK, NEW c \in Calls, HistoryCallStep(c)
  PROVE  /\ \A d \in Calls \ {c} : mine'[d] = mine[d]
         /\ GetConversation(c) \/ SetDefault(c) \/ mine'[c] = mine[c]
<1>1. mine \in [Calls -> Lists \cup {NoList}]
  BY DEF TypeOK
<1>2. CASE GetConversation(c)
  BY <1>1, <1>2 DEF GetConversation
<1>3. CASE SetDefault(c)
  BY <1>1, <1>3 DEF SetDefault
<1>4. CASE ~GetConversation(c) /\ ~SetDefault(c)
  BY <1>4 DEF HistoryCallStep, Begin, AddTurn, KeepTurns, AppendEntry, Measure, Cut,
              AppendOwn, MeasureOwn, CutOwn, stored
<1> QED
  BY <1>2, <1>3, <1>4

-----------------------------------------------------------------------------
(* A list that is too long is one that a call is about to measure or cut.  *)

LEMMA WatchedHistory ==
  ASSUME BoundsAssumption, TypeOK, NEW c \in Calls, HistoryCallStep(c),
         MaxHistoryEntries > 0,
         (\A d \in Calls : pc[d] \notin {"measure", "cut"}) => Len(history) <= MaxHistoryEntries,
         \A d \in Calls : pc'[d] \notin {"measure", "cut"}
  PROVE  Len(history') <= MaxHistoryEntries
<1>1. \A d \in Calls \ {c} : pc'[d] = pc[d]
  BY HistoryStep DEF HistoryCallStep
<1>2. ASSUME NEW here, NEW next, At(c, here, next)
      PROVE  pc[c] = here /\ pc'[c] = next
  BY <1>2, HistoryMoves
<1>3. history \in Seq(Calls) /\ MaxHistoryEntries \in Nat
  BY DEF TypeOK, BoundsAssumption
<1>4. CASE AppendEntry(c)
  BY <1>2, <1>4 DEF AppendEntry
<1>5. CASE Measure(c)
  <2>1. ~TooLong(history) /\ history' = history
    BY <1>2, <1>5 DEF Measure, stored
  <2> QED
    BY <1>3, <2>1 DEF TooLong
<1>6. CASE Cut(c)
  BY <1>3, <1>6, LastNType DEF Cut
<1>7. CASE \/ Begin(c) \/ GetConversation(c) \/ AddTurn(c) \/ KeepTurns(c)
           \/ SetDefault(c) \/ AppendOwn(c) \/ MeasureOwn(c) \/ CutOwn(c)
  <2>1. history' = history
    BY <1>7 DEF Begin, GetConversation, AddTurn, KeepTurns, SetDefault, AppendOwn, MeasureOwn, CutOwn,
                stored
  <2>2. pc[c] \notin {"measure", "cut"}
    BY <1>2, <1>7 DEF Begin, GetConversation, AddTurn, KeepTurns, SetDefault, AppendOwn, MeasureOwn, CutOwn
  <2> QED
    BY <1>1, <2>1, <2>2
<1> QED
  BY <1>4, <1>5, <1>6, <1>7 DEF HistoryCallStep

LEMMA WatchedOwn ==
  ASSUME BoundsAssumption, TypeOK, Owned, Watched, NEW c \in Calls, HistoryCallStep(c),
         MaxHistoryEntries > 0, NEW u \in Users,
         own'[u] # NoList, Len(heap'[own'[u]]) > MaxHistoryEntries
  PROVE  \E d \in Calls : who[d] = u /\ pc'[d] \in {"measureOwn", "cutOwn"} /\ mine'[d] = own'[u]
<1>1. \A d \in Calls \ {c} : pc'[d] = pc[d] /\ mine'[d] = mine[d]
  BY HistoryStep, MineUntouched DEF HistoryCallStep
<1>2. ASSUME NEW here, NEW next, At(c, here, next)
      PROVE  pc[c] = here /\ pc'[c] = next
  BY <1>2, HistoryMoves
<1>3. /\ own \in [Users -> Lists \cup {NoList}] /\ heap \in [Lists -> Seq(Calls)]
      /\ mine \in [Calls -> Lists \cup {NoList}] /\ who[c] \in Users
      /\ MaxHistoryEntries \in Nat
  BY DEF TypeOK, BoundsAssumption
<1>4. ASSUME own[u] # NoList, Len(heap[own[u]]) > MaxHistoryEntries
      PROVE  \E d \in Calls : who[d] = u /\ pc[d] \in {"measureOwn", "cutOwn"} /\ mine[d] = own[u]
  BY <1>4 DEF Watched
<1>5. CASE u # who[c] \/ ~(SetDefault(c) \/ AppendOwn(c) \/ CutOwn(c))
  <2>1. own'[u] = own[u] /\ heap'[own[u]] = heap[own[u]]
    BY <1>5, OwnUntouched
  <2>2. PICK d \in Calls : who[d] = u /\ pc[d] \in {"measureOwn", "cutOwn"} /\ mine[d] = own[u]
    BY <1>4, <2>1
  <2>3. CASE d # c
    BY <1>1, <2>1, <2>2, <2>3
  <2>4. CASE d = c
    <3>1. MeasureOwn(c)
      BY <1>2, <1>5, <2>2, <2>4 DEF HistoryCallStep, Begin, GetConversation, AddTurn, KeepTurns,
                                    AppendEntry, Measure, Cut, SetDefault, AppendOwn, CutOwn
    <3>2. TooLong(heap[mine[c]])
      BY <2>1, <2>2, <2>4 DEF TooLong
    <3>3. pc'[c] = "cutOwn" /\ mine' = mine
      BY <1>2, <3>1, <3>2 DEF MeasureOwn
    <3> QED
      BY <2>1, <2>2, <2>4, <3>3
  <2> QED
    BY <2>3, <2>4
<1>6. CASE u = who[c] /\ SetDefault(c)
  <2>1. heap' = heap /\ pc[c] = "setdefault"
    BY <1>2, <1>6 DEF SetDefault
  <2>2. CASE own[u] = NoList
    <3>1. own'[u] = <<c, "entries">>
      BY <1>3, <1>6, <2>2 DEF SetDefault, NewList
    <3>2. <<c, "entries">> \in Lists /\ ~Made(pc, <<c, "entries">>)
      BY <2>1 DEF Made, Lists
    <3>3. Len(heap[<<c, "entries">>]) = 0
      BY <3>2, EmptySeq DEF Owned
    <3> QED
      BY <1>3, <2>1, <3>1, <3>3
  <2>3. CASE own[u] # NoList
    <3>1. own'[u] = own[u]
      BY <1>3, <1>6, <2>3 DEF SetDefault
    <3>2. PICK d \in Calls : who[d] = u /\ pc[d] \in {"measureOwn", "cutOwn"} /\ mine[d] = own[u]
      BY <1>4, <2>1, <2>3, <3>1
    <3> QED
      BY <1>1, <2>1, <3>1, <3>2
  <2> QED
    BY <2>2, <2>3
<1>7. CASE u = who[c] /\ AppendOwn(c)
  <2>1. /\ own' = own /\ mine' = mine
        /\ heap' = [heap EXCEPT ![mine[c]] = Append(heap[mine[c]], c)]
    BY <1>7 DEF AppendOwn
  <2>2. pc[c] = "appendOwn" /\ pc'[c] = "measureOwn"
    BY <1>2, <1>7 DEF AppendOwn
  <2>3. CASE mine[c] = own[u]
    BY <1>7, <2>1, <2>2, <2>3
  <2>4. CASE mine[c] # own[u]
    <3>1. heap'[own[u]] = heap[own[u]]
      BY <1>3, <2>1, <2>4
    <3>2. PICK d \in Calls : who[d] = u /\ pc[d] \in {"measureOwn", "cutOwn"} /\ mine[d] = own[u]
      BY <1>4, <2>1, <3>1
    <3> QED
      BY <1>1, <2>1, <2>2, <3>2
  <2> QED
    BY <2>3, <2>4
<1>8. CASE u = who[c] /\ CutOwn(c)
  <2>1. /\ own' = [own EXCEPT ![who[c]] = <<c, "lastEntries">>]
        /\ heap' = [heap EXCEPT ![<<c, "lastEntries">>] = LastN(heap[mine[c]], MaxHistoryEntries)]
    BY <1>8 DEF CutOwn
  <2>2. <<c, "lastEntries">> \in Lists /\ mine[c] \in Lists
    BY <1>2, <1>8 DEF CutOwn, Owned, EntryLists, Lists
  <2>3. heap'[own'[u]] = LastN(heap[mine[c]], MaxHistoryEntries)
    BY <1>3, <1>8, <2>1, <2>2
  <2>4. Len(LastN(heap[mine[c]], MaxHistoryEntries)) <= MaxHistoryEntries
    BY <1>3, <2>2, LastNType
  <2>5. Len(LastN(heap[mine[c]], MaxHistoryEntries)) \in Nat
    BY <1>3, <2>2, LastNType
  <2> QED
    BY <1>3, <2>3, <2>4, <2>5
<1> QED
  BY <1>5, <1>6, <1>7, <1>8

LEMMA WatchedTurns ==
  ASSUME BoundsAssumption, TypeOK, Owned, Watched, NEW c \in Calls, HistoryCallStep(c),
         ConversationLimit > 0, NEW u \in Users,
         conversation'[u] # NoList, Len(heap'[conversation'[u]]) > ConversationLimit
  PROVE  \E d \in Calls : who[d] = u /\ pc'[d] = "keepTurns"
<1>1. \A d \in Calls \ {c} : pc'[d] = pc[d]
  BY HistoryStep DEF HistoryCallStep
<1>2. ASSUME NEW here, NEW next, At(c, here, next)
      PROVE  pc[c] = here /\ pc'[c] = next
  BY <1>2, HistoryMoves
<1>3. /\ conversation \in [Users -> Lists \cup {NoList}] /\ heap \in [Lists -> Seq(Calls)]
      /\ mine \in [Calls -> Lists \cup {NoList}] /\ who[c] \in Users
      /\ ConversationLimit \in Nat
  BY DEF TypeOK, BoundsAssumption
<1>4. ASSUME conversation[u] # NoList, Len(heap[conversation[u]]) > ConversationLimit
      PROVE  \E d \in Calls : who[d] = u /\ pc[d] = "keepTurns"
  BY <1>4 DEF Watched
<1>5. CASE KeepTurns(c) /\ u = who[c]
  <2>1. /\ conversation' = [conversation EXCEPT ![who[c]] = <<c, "lastTurns">>]
        /\ heap' = [heap EXCEPT ![<<c, "lastTurns">>] = LastN(heap[mine[c]], ConversationLimit)]
    BY <1>5 DEF KeepTurns
  <2>2. <<c, "lastTurns">> \in Lists /\ mine[c] \in Lists
    BY <1>2, <1>5 DEF KeepTurns, Owned, TurnLists, Lists
  <2>3. heap'[conversation'[u]] = LastN(heap[mine[c]], ConversationLimit)
    BY <1>3, <1>5, <2>1, <2>2
  <2>4. /\ Len(LastN(heap[mine[c]], ConversationLimit)) <= ConversationLimit
        /\ Len(LastN(heap[mine[c]], ConversationLimit)) \in Nat
    BY <1>3, <2>2, LastNType
  <2> QED
    BY <1>3, <2>3, <2>4
<1>6. CASE AddTurn(c) /\ u = who[c]
  BY <1>2, <1>6 DEF AddTurn
<1>7. CASE GetConversation(c) /\ u = who[c]
  <2>1. heap' = heap /\ pc[c] = "conversation"
    BY <1>2, <1>7 DEF GetConversation
  <2>2. CASE conversation[u] = NoList
    <3>1. conversation'[u] = <<c, "turns">>
      BY <1>3, <1>7, <2>2 DEF GetConversation
    <3>2. <<c, "turns">> \in Lists /\ ~Made(pc, <<c, "turns">>)
      BY <2>1 DEF Made, Lists
    <3>3. Len(heap[<<c, "turns">>]) = 0
      BY <3>2, EmptySeq DEF Owned
    <3> QED
      BY <1>3, <2>1, <3>1, <3>3
  <2>3. CASE conversation[u] # NoList
    <3>1. conversation'[u] = conversation[u]
      BY <1>3, <1>7, <2>3 DEF GetConversation
    <3>2. PICK d \in Calls : who[d] = u /\ pc[d] = "keepTurns"
      BY <1>4, <2>1, <2>3, <3>1
    <3> QED
      BY <1>1, <2>1, <3>2
  <2> QED
    BY <2>2, <2>3
<1>8. CASE u # who[c] \/ ~(GetConversation(c) \/ AddTurn(c) \/ KeepTurns(c))
  <2>1. conversation'[u] = conversation[u] /\ heap'[conversation[u]] = heap[conversation[u]]
    BY <1>8, TurnsUntouched
  <2>2. PICK d \in Calls : who[d] = u /\ pc[d] = "keepTurns"
    BY <1>4, <2>1
  <2>3. d # c
    BY <1>2, <1>8, <2>2 DEF HistoryCallStep, Begin, AppendEntry, Measure, Cut, SetDefault,
                            AppendOwn, MeasureOwn, CutOwn
  <2> QED
    BY <1>1, <2>2, <2>3
<1> QED
  BY <1>5, <1>6, <1>7, <1>8

LEMMA WatchedStep ==
  ASSUME BoundsAssumption, TypeOK, Owned, Watched, NEW c \in Calls, HistoryCallStep(c)
  PROVE  Watched'
<1>1. who' = who
  BY HistoryStep DEF HistoryCallStep
<1>2. (MaxHistoryEntries > 0 /\ \A d \in Calls : pc'[d] \notin {"measure", "cut"})
        => Len(history') <= MaxHistoryEntries
  BY WatchedHistory DEF Watched
<1>3. MaxHistoryEntries > 0 => \A u \in Users :
        own'[u] # NoList /\ Len(heap'[own'[u]]) > MaxHistoryEntries =>
          \E d \in Calls : who[d] = u /\ pc'[d] \in {"measureOwn", "cutOwn"} /\ mine'[d] = own'[u]
  BY WatchedOwn
<1>4. ConversationLimit > 0 => \A u \in Users :
        conversation'[u] # NoList /\ Len(heap'[conversation'[u]]) > ConversationLimit =>
          \E d \in Calls : who[d] = u /\ pc'[d] = "keepTurns"
  BY WatchedTurns
<1> QED
  BY <1>1, <1>2, <1>3, <1>4 DEF Watched

-----------------------------------------------------------------------------
(* A call is recorded once: it is in the log only past append.             *)
LEMMA OnceStep ==
  ASSUME TypeOK, Once, NEW c \in Calls, HistoryCallStep(c)
  PROVE  /\ Once'
         /\ AppendEntry(c) \/ (log' = log)
         /\ AppendEntry(c) => \A i \in 1..Len(log) : log[i] # c
<1>1. \A d \in Calls \ {c} : pc'[d] = pc[d]
  BY HistoryStep DEF HistoryCallStep
<1>2. ASSUME NEW here, NEW next, At(c, here, next)
      PROVE  pc[c] = here /\ pc'[c] = next
  BY <1>2, HistoryMoves
<1>3. AppendEntry(c) \/ log' = log
  BY DEF HistoryCallStep, Begin, GetConversation, AddTurn, KeepTurns, Measure, Cut,
         SetDefault, AppendOwn, MeasureOwn, CutOwn, ghosts
<1>4. ASSUME AppendEntry(c) PROVE \A i \in 1..Len(log) : log[i] # c
  BY <1>2, <1>4 DEF AppendEntry, Once
<1>5. CASE AppendEntry(c)
  <2>1. log' = Append(log, c) /\ pc'[c] = "measure" /\ log \in Seq(Calls)
    BY <1>2, <1>5 DEF AppendEntry, TypeOK
  <2>2. ASSUME NEW d \in Calls \ {c}, NEW i \in 1..Len(log'), log'[i] = d
        PROVE  \E j \in 1..Len(log) : log[j] = d
    <3>1. Len(log') = Len(log) + 1 /\ log'[Len(log) + 1] = c /\ Len(log) \in Nat
      BY <2>1, AppendProperties, LenProperties
    <3>2. i \in 1..Len(log)
      BY <2>2, <3>1
    <3>3. log[i] = d
      BY <2>1, <2>2, <3>2, AppendProperties
    <3> QED
      BY <3>2, <3>3
  <2> QED
    BY <1>1, <1>3, <1>4, <1>5, <2>1, <2>2 DEF Once
<1>6. CASE ~AppendEntry(c)
  <2>1. pc[c] \notin {"new", "conversation", "addTurn", "keepTurns", "append"} =>
          pc'[c] \notin {"new", "conversation", "addTurn", "keepTurns", "append"}
    BY <1>2, <1>6 DEF HistoryCallStep, Begin, GetConversation, AddTurn, KeepTurns, Measure, Cut,
                      SetDefault, AppendOwn, MeasureOwn, CutOwn
  <2> QED
    BY <1>1, <1>3, <1>6, <2>1 DEF Once
<1> QED
  BY <1>5, <1>6

-----------------------------------------------------------------------------
(* While no two calls of a user overlap, the user's lists are exact.       *)

(* The call that makes a step is then the only one of its user.            *)
LEMMA Alone ==
  ASSUME TypeOK, Exact, NEW c \in Calls, HistoryCallStep(c), who[c] \notin mixed'
  PROVE  /\ who[c] \notin mixed
         /\ \A d \in Calls \ {c} : who[d] = who[c] => pc[d] \notin Steps /\ pc'[d] \notin Steps
<1>1. \A d \in Calls \ {c} : pc'[d] = pc[d]
  BY HistoryStep DEF HistoryCallStep
<1>2. who[c] \in Users /\ mixed \in SUBSET Users
  BY DEF TypeOK
<1>3. CASE Begin(c)
  <2>1. mixed' = mixed \cup {u \in {who[c]} : \E d \in Active : who[d] = u}
    BY <1>3 DEF Begin
  <2>2. who[c] \notin mixed /\ \A d \in Active : who[d] # who[c]
    BY <2>1
  <2> QED
    BY <1>1, <2>2 DEF Active
<1>4. CASE ~Begin(c)
  <2>1. mixed' = mixed
    BY <1>4 DEF HistoryCallStep, GetConversation, AddTurn, KeepTurns, AppendEntry, Measure, Cut,
                SetDefault, AppendOwn, MeasureOwn, CutOwn, ghosts
  <2>2. \E here, next : At(c, here, next) /\ here \in Steps
    BY <1>4 DEF HistoryCallStep, GetConversation, AddTurn, KeepTurns, AppendEntry, Measure, Cut,
                SetDefault, AppendOwn, MeasureOwn, CutOwn, Steps
  <2>3. c \in Active
    BY <2>2 DEF At, Active
  <2>4. \A d \in Active : who[d] = who[c] => d = c
    BY <1>2, <2>1, <2>3 DEF Exact, Lone
  <2> QED
    BY <1>1, <2>1, <2>4 DEF Active
<1> QED
  BY <1>3, <1>4

LEMMA LoneStep ==
  ASSUME TypeOK, Exact, NEW c \in Calls, HistoryCallStep(c), NEW u \in Users \ mixed'
  PROVE  u \notin mixed /\ Lone(u)'
<1>1. /\ \A d \in Calls \ {c} : pc'[d] = pc[d]
      /\ who' = who
  BY HistoryStep DEF HistoryCallStep
<1>2. mixed \subseteq mixed'
  BY DEF HistoryCallStep, Begin, GetConversation, AddTurn, KeepTurns, AppendEntry, Measure, Cut,
         SetDefault, AppendOwn, MeasureOwn, CutOwn, ghosts
<1>3. CASE u = who[c]
  <2>1. \A d \in Calls \ {c} : who[d] = u => pc'[d] \notin Steps
    BY <1>3, Alone
  <2> QED
    BY <1>1, <1>2, <2>1 DEF Lone, Active
<1>4. CASE u # who[c]
  <2>1. Lone(u)
    BY <1>2 DEF Exact
  <2> QED
    BY <1>1, <1>2, <1>4, <2>1 DEF Lone, Active
<1> QED
  BY <1>3, <1>4

(* The steps of the others do not count.                                   *)
LEMMA OthersApart ==
  ASSUME TypeOK, Owned, NEW c \in Calls, HistoryCallStep(c), NEW u \in Users, u # who[c]
  PROVE  /\ OwnExact(u) => OwnExact(u)'
         /\ TurnsExact(u) => TurnsExact(u)'
<1>1. /\ \A d \in Calls \ {c} : pc'[d] = pc[d] /\ mine'[d] = mine[d]
      /\ who' = who
  BY HistoryStep, MineUntouched DEF HistoryCallStep
<1>2. \A d \in Calls : who[d] = u => d # c /\ pc'[d] = pc[d] /\ mine'[d] = mine[d] /\ who'[d] = u
  BY <1>1
<1>3. own'[u] = own[u] /\ (own[u] # NoList => heap'[own[u]] = heap[own[u]])
  BY OwnUntouched
<1>4. OwnItems(u)' = OwnItems(u)
  BY <1>3 DEF OwnItems, Items
<1>5. /\ conversation'[u] = conversation[u]
      /\ conversation[u] # NoList => heap'[conversation[u]] = heap[conversation[u]]
  BY TurnsUntouched
<1>6. TurnItems(u)' = TurnItems(u)
  BY <1>5 DEF TurnItems, Items
<1>7. log \in Seq(Calls) /\ turns \in Seq(Calls)
  BY DEF TypeOK
<1>8. /\ log' = log \/ log' = Append(log, c)
      /\ turns' = turns \/ turns' = Append(turns, c)
  BY DEF HistoryCallStep, Begin, GetConversation, AddTurn, KeepTurns, AppendEntry, Measure, Cut,
         SetDefault, AppendOwn, MeasureOwn, CutOwn, ghosts
<1> DEFINE T == {d \in Calls : who[d] = u}
<1>9. c \notin T /\ OwnEntries(u) = Filter(log, T) /\ OwnTurns(u) = Filter(turns, T)
  BY DEF OwnEntries, OwnTurns, OfUser
<1>10. OwnEntries(u)' = Filter(log', T) /\ OwnTurns(u)' = Filter(turns', T)
  BY <1>1 DEF OwnEntries, OwnTurns, OfUser
<1> HIDE DEF T
<1>11. Filter(log', T) = Filter(log, T) /\ Filter(turns', T) = Filter(turns, T)
  <2>1. Filter(Append(log, c), T) = IF c \in T THEN Append(Filter(log, T), c) ELSE Filter(log, T)
    BY <1>7, FilterAppend
  <2>2. Filter(Append(turns, c), T) = IF c \in T THEN Append(Filter(turns, T), c) ELSE Filter(turns, T)
    BY <1>7, FilterAppend
  <2> QED
    BY <1>8, <1>9, <2>1, <2>2
<1>12. OwnEntries(u)' = OwnEntries(u) /\ OwnTurns(u)' = OwnTurns(u)
  BY <1>9, <1>10, <1>11
<1>13. \A d \in Calls : who'[d] = u => who[d] = u
  BY <1>1
<1>14. ASSUME OwnExact(u) PROVE OwnExact(u)'
  BY <1>2, <1>3, <1>4, <1>12, <1>13, <1>14 DEF OwnExact, Recording, Measuring
<1>15. ASSUME TurnsExact(u) PROVE TurnsExact(u)'
  BY <1>2, <1>5, <1>6, <1>12, <1>13, <1>15 DEF TurnsExact
<1> QED
  BY <1>14, <1>15

(* It is enough to look at the call that makes the step.                   *)
LEMMA OwnExactAlone ==
  ASSUME NEW c \in Calls, NEW u, who[c] = u, who' = who,
         \A d \in Calls \ {c} : who[d] = u => pc'[d] \notin Steps,
         pc'[c] \notin Recording \cup Measuring =>
           OwnItems(u)' = LastN(OwnEntries(u)', MaxHistoryEntries),
         pc'[c] \in Recording =>
           \E before \in Seq(Calls) : /\ OwnEntries(u)' = Append(before, c)
                                      /\ OwnItems(u)' = LastN(before, MaxHistoryEntries),
         pc'[c] \in Measuring =>
           LastN(OwnItems(u)', MaxHistoryEntries) = LastN(OwnEntries(u)', MaxHistoryEntries),
         pc'[c] \in {"appendOwn"} \cup Measuring => mine'[c] = own'[u]
  PROVE  OwnExact(u)'
<1>1. \A d \in Calls : who'[d] = u => d = c \/ pc'[d] \notin Recording \cup Measuring
  BY DEF Steps, Recording, Measuring
<1>2. (\A d \in Calls : who'[d] = u => pc'[d] \notin Recording \cup Measuring)
        => OwnItems(u)' = LastN(OwnEntries(u)', MaxHistoryEntries)
  OBVIOUS
<1>3. \A d \in Calls : who'[d] = u /\ pc'[d] \in Recording
        => \E before \in Seq(Calls) : /\ OwnEntries(u)' = Append(before, d)
                                      /\ OwnItems(u)' = LastN(before, MaxHistoryEntries)
  BY <1>1
<1>4. \A d \in Calls : who'[d] = u /\ pc'[d] \in Measuring
        => LastN(OwnItems(u)', MaxHistoryEntries) = LastN(OwnEntries(u)', MaxHistoryEntries)
  BY <1>1
<1>5. \A d \in Calls : who'[d] = u /\ pc'[d] \in {"appendOwn"} \cup Measuring => mine'[d] = own'[u]
  <2>1. \A d \in Calls : who'[d] = u /\ pc'[d] \in {"appendOwn"} \cup Measuring => d = c
    BY <1>1 DEF Recording
  <2> QED
    BY <2>1
<1> QED
  BY <1>2, <1>3, <1>4, <1>5 DEF OwnExact

LEMMA OwnExactStep ==
  ASSUME BoundsAssumption, TypeOK, Owned, NEW c \in Calls, HistoryCallStep(c), NEW u, u = who[c],
         OwnExact(u), \A d \in Calls \ {c} : who[d] = u => pc[d] \notin Steps /\ pc'[d] \notin Steps
  PROVE  OwnExact(u)'
<1>1. ASSUME NEW here, NEW next, At(c, here, next)
      PROVE  pc[c] = here /\ pc'[c] = next
  BY <1>1, HistoryMoves
<1>2. /\ own \in [Users -> Lists \cup {NoList}] /\ heap \in [Lists -> Seq(Calls)]
      /\ mine \in [Calls -> Lists \cup {NoList}] /\ u \in Users
      /\ log \in Seq(Calls)
      /\ MaxHistoryEntries \in Nat /\ NoList \notin Lists
  BY DEF TypeOK, BoundsAssumption
<1>3. who' = who
  BY HistoryStep DEF HistoryCallStep
<1>4. pc[c] \notin Recording \cup Measuring =>
        OwnItems(u) = LastN(OwnEntries(u), MaxHistoryEntries)
  <2>1. \A d \in Calls : who[d] = u => d = c \/ pc[d] \notin Recording \cup Measuring
    BY DEF Steps, Recording, Measuring
  <2> QED
    BY <2>1 DEF OwnExact
<1>5. /\ pc[c] \in Recording =>
           \E before \in Seq(Calls) : /\ OwnEntries(u) = Append(before, c)
                                      /\ OwnItems(u) = LastN(before, MaxHistoryEntries)
      /\ pc[c] \in Measuring =>
           LastN(OwnItems(u), MaxHistoryEntries) = LastN(OwnEntries(u), MaxHistoryEntries)
      /\ pc[c] \in {"appendOwn"} \cup Measuring => mine[c] = own[u]
  BY DEF OwnExact
<1>6. ASSUME log' = log PROVE OwnEntries(u)' = OwnEntries(u)
  BY <1>3, <1>6 DEF OwnEntries, OfUser
<1>7. ASSUME ~(SetDefault(c) \/ AppendOwn(c) \/ CutOwn(c))
      PROVE  OwnItems(u)' = OwnItems(u) /\ own'[u] = own[u]
  BY <1>2, <1>7, OwnUntouched DEF OwnItems, Items
<1> USE <1>3 DEF Recording, Measuring
<1>8. CASE Begin(c) \/ GetConversation(c) \/ AddTurn(c) \/ KeepTurns(c)
  <2>1. log' = log
    BY <1>8 DEF Begin, GetConversation, AddTurn, KeepTurns, ghosts
  <2>2. pc[c] \notin Recording \cup Measuring /\ pc'[c] \notin Recording \cup Measuring
    BY <1>1, <1>8 DEF Begin, GetConversation, AddTurn, KeepTurns
  <2>3. ~(SetDefault(c) \/ AppendOwn(c) \/ CutOwn(c))
    BY <1>1, <2>2 DEF SetDefault, AppendOwn, CutOwn
  <2>4. OwnItems(u)' = LastN(OwnEntries(u)', MaxHistoryEntries)
    BY <1>4, <1>6, <1>7, <2>1, <2>2, <2>3
  <2> QED
    BY <2>2, <2>4, OwnExactAlone
<1>9. CASE AppendEntry(c)
  <2>1. /\ pc[c] = "append" /\ pc'[c] = "measure" /\ log' = Append(log, c)
    BY <1>1, <1>9 DEF AppendEntry
  <2> DEFINE T == {d \in Calls : who[d] = u}
  <2>2. /\ OwnEntries(u) = Filter(log, T) /\ OwnEntries(u)' = Filter(log', T) /\ c \in T
    BY DEF OwnEntries, OfUser
  <2> HIDE DEF T
  <2>3. Filter(Append(log, c), T) = IF c \in T THEN Append(Filter(log, T), c) ELSE Filter(log, T)
    BY <1>2, FilterAppend
  <2>4. OwnEntries(u)' = Append(OwnEntries(u), c)
    BY <2>1, <2>2, <2>3
  <2>5. OwnEntries(u) \in Seq(Calls)
    BY <1>2, <2>2, FilterPicks
  <2>6. OwnItems(u)' = LastN(OwnEntries(u), MaxHistoryEntries)
    BY <1>1, <1>4, <1>7, <2>1 DEF SetDefault, AppendOwn, CutOwn
  <2> QED
    BY <2>1, <2>4, <2>5, <2>6, OwnExactAlone
<1>10. CASE Measure(c) \/ Cut(c)
  <2>1. pc[c] \in {"measure", "cut"} /\ pc'[c] \in {"cut", "setdefault"} /\ log' = log
    BY <1>1, <1>10 DEF Measure, Cut, ghosts
  <2>2. OwnItems(u)' = OwnItems(u) /\ OwnEntries(u)' = OwnEntries(u)
    BY <1>1, <1>6, <1>7, <2>1 DEF SetDefault, AppendOwn, CutOwn
  <2> QED
    BY <1>5, <2>1, <2>2, OwnExactAlone
<1>11. CASE SetDefault(c)
  <2> DEFINE found == IF own[u] = NoList THEN <<c, "entries">> ELSE own[u]
  <2>1. /\ own' = [own EXCEPT ![u] = found] /\ mine' = [mine EXCEPT ![c] = found]
        /\ heap' = heap /\ log' = log
    BY <1>11 DEF SetDefault, NewList, ghosts
  <2>2. pc[c] = "setdefault" /\ pc'[c] = "appendOwn"
    BY <1>1, <1>11 DEF SetDefault
  <2>3. <<c, "entries">> \in Lists /\ heap[<<c, "entries">>] = <<>>
    BY <2>2 DEF Owned, Made, Lists
  <2>4. found \in Lists /\ heap[found] = OwnItems(u)
    BY <1>2, <2>3 DEF OwnItems, Items
  <2> HIDE DEF found
  <2>5. own'[u] = found /\ mine'[c] = found
    BY <1>2, <2>1
  <2>6. OwnItems(u)' = OwnItems(u)
    BY <1>2, <2>1, <2>4, <2>5 DEF OwnItems, Items
  <2>7. OwnEntries(u)' = OwnEntries(u)
    BY <1>6, <2>1
  <2> QED
    BY <1>5, <2>2, <2>5, <2>6, <2>7, OwnExactAlone
<1>12. CASE AppendOwn(c)
  <2>1. /\ own' = own /\ mine' = mine /\ log' = log
        /\ heap' = [heap EXCEPT ![mine[c]] = Append(heap[mine[c]], c)]
    BY <1>12 DEF AppendOwn, ghosts
  <2>2. pc[c] = "appendOwn" /\ pc'[c] = "measureOwn"
    BY <1>1, <1>12 DEF AppendOwn
  <2>3. mine[c] = own[u] /\ mine[c] \in Lists
    BY <1>5, <2>2 DEF Owned, EntryLists
  <2>4. OwnItems(u)' = Append(OwnItems(u), c)
    BY <1>2, <2>1, <2>3 DEF OwnItems, Items
  <2>5. PICK before \in Seq(Calls) : /\ OwnEntries(u) = Append(before, c)
                                     /\ OwnItems(u) = LastN(before, MaxHistoryEntries)
    BY <1>5, <2>2
  <2>6. LastN(Append(LastN(before, MaxHistoryEntries), c), MaxHistoryEntries)
          = LastN(Append(before, c), MaxHistoryEntries)
    BY <1>2, LastNAppend
  <2>7. OwnEntries(u)' = OwnEntries(u)
    BY <1>6, <2>1
  <2> QED
    BY <2>1, <2>2, <2>3, <2>4, <2>5, <2>6, <2>7, OwnExactAlone
<1>13. CASE MeasureOwn(c)
  <2>1. UNCHANGED <<own, heap, mine, log>> /\ pc[c] = "measureOwn"
    BY <1>1, <1>13 DEF MeasureOwn, stored, ghosts
  <2>2. mine[c] = own[u] /\ mine[c] \in Lists
    BY <1>5, <2>1 DEF Owned, EntryLists
  <2>3. OwnItems(u) = heap[mine[c]] /\ OwnItems(u) \in Seq(Calls)
    BY <1>2, <2>2 DEF OwnItems, Items
  <2>4. OwnItems(u)' = OwnItems(u) /\ OwnEntries(u)' = OwnEntries(u)
    BY <1>6, <2>1 DEF OwnItems, Items
  <2>5. pc'[c] = IF TooLong(heap[mine[c]]) THEN "cutOwn" ELSE "done"
    BY <1>1, <1>13 DEF MeasureOwn
  <2>6. ~TooLong(heap[mine[c]]) => LastN(OwnItems(u), MaxHistoryEntries) = OwnItems(u)
    <3>1. Len(OwnItems(u)) \in Nat
      BY <2>3, LenProperties
    <3> QED
      BY <1>2, <2>3, <3>1 DEF TooLong, LastN
  <2> QED
    BY <1>5, <2>1, <2>2, <2>4, <2>5, <2>6, OwnExactAlone
<1>14. CASE CutOwn(c)
  <2>1. /\ own' = [own EXCEPT ![u] = <<c, "lastEntries">>]
        /\ heap' = [heap EXCEPT ![<<c, "lastEntries">>] = LastN(heap[mine[c]], MaxHistoryEntries)]
        /\ log' = log
    BY <1>14 DEF CutOwn, ghosts
  <2>2. pc[c] = "cutOwn" /\ pc'[c] = "done"
    BY <1>1, <1>14 DEF CutOwn
  <2>3. mine[c] = own[u] /\ mine[c] \in Lists /\ <<c, "lastEntries">> \in Lists
    BY <1>5, <2>2 DEF Owned, EntryLists, Lists
  <2>4. OwnItems(u) = heap[mine[c]]
    BY <1>2, <2>3 DEF OwnItems, Items
  <2>5. own'[u] = <<c, "lastEntries">> /\ heap'[own'[u]] = LastN(heap[mine[c]], MaxHistoryEntries)
    BY <1>2, <2>1, <2>3
  <2>6. OwnItems(u)' = LastN(OwnItems(u), MaxHistoryEntries)
    BY <1>2, <2>3, <2>4, <2>5 DEF OwnItems, Items
  <2>7. OwnEntries(u)' = OwnEntries(u)
    BY <1>6, <2>1
  <2> QED
    BY <1>5, <2>2, <2>6, <2>7, OwnExactAlone
<1> QED
  BY <1>8, <1>9, <1>10, <1>11, <1>12, <1>13, <1>14 DEF HistoryCallStep

LEMMA TurnsExactAlone ==
  ASSUME NEW c \in Calls, NEW u, who[c] = u, who' = who,
         \A d \in Calls \ {c} : who[d] = u => pc'[d] \notin Steps,
         pc'[c] # "keepTurns" => TurnItems(u)' = LastN(OwnTurns(u)', ConversationLimit),
         pc'[c] = "keepTurns" =>
           LastN(TurnItems(u)', ConversationLimit) = LastN(OwnTurns(u)', ConversationLimit),
         pc'[c] \in {"addTurn", "keepTurns"} => mine'[c] = conversation'[u]
  PROVE  TurnsExact(u)'
<1>1. \A d \in Calls : who'[d] = u => d = c \/ pc'[d] \notin {"addTurn", "keepTurns"}
  BY DEF Steps
<1>2. (\A d \in Calls : who'[d] = u => pc'[d] # "keepTurns")
        => TurnItems(u)' = LastN(OwnTurns(u)', ConversationLimit)
  OBVIOUS
<1>3. \A d \in Calls : who'[d] = u /\ pc'[d] = "keepTurns"
        => LastN(TurnItems(u)', ConversationLimit) = LastN(OwnTurns(u)', ConversationLimit)
  BY <1>1
<1>4. \A d \in Calls : who'[d] = u /\ pc'[d] \in {"addTurn", "keepTurns"} => mine'[d] = conversation'[u]
  BY <1>1
<1> QED
  BY <1>2, <1>3, <1>4 DEF TurnsExact

LEMMA TurnsExactStep ==
  ASSUME BoundsAssumption, TypeOK, Owned, NEW c \in Calls, HistoryCallStep(c), NEW u, u = who[c],
         TurnsExact(u), \A d \in Calls \ {c} : who[d] = u => pc[d] \notin Steps /\ pc'[d] \notin Steps
  PROVE  TurnsExact(u)'
<1>1. ASSUME NEW here, NEW next, At(c, here, next)
      PROVE  pc[c] = here /\ pc'[c] = next
  BY <1>1, HistoryMoves
<1>2. /\ conversation \in [Users -> Lists \cup {NoList}] /\ heap \in [Lists -> Seq(Calls)]
      /\ mine \in [Calls -> Lists \cup {NoList}] /\ u \in Users
      /\ turns \in Seq(Calls)
      /\ ConversationLimit \in Nat /\ NoList \notin Lists
  BY DEF TypeOK, BoundsAssumption
<1>3. who' = who
  BY HistoryStep DEF HistoryCallStep
<1>4. pc[c] # "keepTurns" => TurnItems(u) = LastN(OwnTurns(u), ConversationLimit)
  <2>1. \A d \in Calls : who[d] = u => d = c \/ pc[d] # "keepTurns"
    BY DEF Steps
  <2> QED
    BY <2>1 DEF TurnsExact
<1>5. /\ pc[c] = "keepTurns" =>
           LastN(TurnItems(u), ConversationLimit) = LastN(OwnTurns(u), ConversationLimit)
      /\ pc[c] \in {"addTurn", "keepTurns"} => mine[c] = conversation[u]
  BY DEF TurnsExact
<1>6. ASSUME turns' = turns PROVE OwnTurns(u)' = OwnTurns(u)
  BY <1>3, <1>6 DEF OwnTurns, OfUser
<1> USE <1>3
<1>7. CASE ~(GetConversation(c) \/ AddTurn(c) \/ KeepTurns(c))
  <2>1. turns' = turns
    BY <1>7 DEF HistoryCallStep, Begin, AppendEntry, Measure, Cut, SetDefault, AppendOwn,
                MeasureOwn, CutOwn, ghosts
  <2>2. pc[c] # "keepTurns" /\ pc'[c] \notin {"addTurn", "keepTurns"}
    BY <1>1, <1>7 DEF HistoryCallStep, Begin, AppendEntry, Measure, Cut, SetDefault, AppendOwn,
                      MeasureOwn, CutOwn
  <2>3. TurnItems(u)' = TurnItems(u)
    BY <1>2, <1>7, TurnsUntouched DEF TurnItems, Items
  <2>4. TurnItems(u)' = LastN(OwnTurns(u)', ConversationLimit)
    BY <1>4, <1>6, <2>1, <2>2, <2>3
  <2> QED
    BY <2>2, <2>4, TurnsExactAlone
<1>8. CASE GetConversation(c)
  <2> DEFINE found == IF conversation[u] = NoList THEN <<c, "turns">> ELSE conversation[u]
  <2>1. /\ conversation' = [conversation EXCEPT ![u] = found]
        /\ mine' = [mine EXCEPT ![c] = found]
        /\ heap' = heap /\ turns' = turns
    BY <1>8 DEF GetConversation, ghosts
  <2>2. pc[c] = "conversation" /\ pc'[c] = "addTurn"
    BY <1>1, <1>8 DEF GetConversation
  <2>3. <<c, "turns">> \in Lists /\ heap[<<c, "turns">>] = <<>>
    BY <2>2 DEF Owned, Made, Lists
  <2>4. found \in Lists /\ heap[found] = TurnItems(u)
    BY <1>2, <2>3 DEF TurnItems, Items
  <2> HIDE DEF found
  <2>5. conversation'[u] = found /\ mine'[c] = found
    BY <1>2, <2>1
  <2>6. TurnItems(u)' = TurnItems(u)
    BY <1>2, <2>1, <2>4, <2>5 DEF TurnItems, Items
  <2>7. OwnTurns(u)' = OwnTurns(u)
    BY <1>6, <2>1
  <2> QED
    BY <1>4, <2>2, <2>5, <2>6, <2>7, TurnsExactAlone
<1>9. CASE AddTurn(c)
  <2>1. /\ conversation' = conversation /\ mine' = mine
        /\ heap' = [heap EXCEPT ![mine[c]] = Append(heap[mine[c]], c)]
        /\ turns' = Append(turns, c)
    BY <1>9 DEF AddTurn
  <2>2. pc[c] = "addTurn" /\ pc'[c] = "keepTurns"
    BY <1>1, <1>9 DEF AddTurn
  <2>3. mine[c] = conversation[u] /\ mine[c] \in Lists
    BY <1>5, <2>2 DEF Owned, TurnLists
  <2>4. TurnItems(u)' = Append(TurnItems(u), c)
    BY <1>2, <2>1, <2>3 DEF TurnItems, Items
  <2> DEFINE T == {d \in Calls : who[d] = u}
  <2>5. OwnTurns(u) = Filter(turns, T) /\ OwnTurns(u)' = Filter(turns', T) /\ c \in T
    BY DEF OwnTurns, OfUser
  <2> HIDE DEF T
  <2>6. Filter(Append(turns, c), T) = IF c \in T THEN Append(Filter(turns, T), c) ELSE Filter(turns, T)
    BY <1>2, FilterAppend
  <2>7. OwnTurns(u)' = Append(OwnTurns(u), c) /\ OwnTurns(u) \in Seq(Calls)
    BY <1>2, <2>1, <2>5, <2>6, FilterPicks
  <2>8. LastN(Append(LastN(OwnTurns(u), ConversationLimit), c), ConversationLimit)
          = LastN(Append(OwnTurns(u), c), ConversationLimit)
    BY <1>2, <2>7, LastNAppend
  <2> QED
    BY <1>4, <2>1, <2>2, <2>3, <2>4, <2>7, <2>8, TurnsExactAlone
<1>10. CASE KeepTurns(c)
  <2>1. /\ conversation' = [conversation EXCEPT ![u] = <<c, "lastTurns">>]
        /\ heap' = [heap EXCEPT ![<<c, "lastTurns">>] = LastN(heap[mine[c]], ConversationLimit)]
        /\ turns' = turns
    BY <1>10 DEF KeepTurns, ghosts
  <2>2. pc[c] = "keepTurns" /\ pc'[c] = "append"
    BY <1>1, <1>10 DEF KeepTurns
  <2>3. mine[c] = conversation[u] /\ mine[c] \in Lists /\ <<c, "lastTurns">> \in Lists
    BY <1>5, <2>2 DEF Owned, TurnLists, Lists
  <2>4. TurnItems(u) = heap[mine[c]]
    BY <1>2, <2>3 DEF TurnItems, Items
  <2>5. /\ conversation'[u] = <<c, "lastTurns">>
        /\ heap'[conversation'[u]] = LastN(heap[mine[c]], ConversationLimit)
    BY <1>2, <2>1, <2>3
  <2>6. TurnItems(u)' = LastN(TurnItems(u), ConversationLimit)
    BY <1>2, <2>3, <2>4, <2>5 DEF TurnItems, Items
  <2>7. OwnTurns(u)' = OwnTurns(u)
    BY <1>6, <2>1
  <2> QED
    BY <1>5, <2>2, <2>6, <2>7, TurnsExactAlone
<1> QED
  BY <1>7, <1>8, <1>9, <1>10 DEF HistoryCallStep

LEMMA ExactStep ==
  ASSUME BoundsAssumption, TypeOK, Owned, Exact, NEW c \in Calls, HistoryCallStep(c)
  PROVE  Exact'
<1> SUFFICES ASSUME NEW u \in Users \ mixed' PROVE Lone(u)' /\ OwnExact(u)' /\ TurnsExact(u)'
  BY DEF Exact
<1>1. u \notin mixed /\ Lone(u)'
  BY LoneStep
<1>2. OwnExact(u) /\ TurnsExact(u)
  BY <1>1 DEF Exact
<1>3. CASE u # who[c]
  BY <1>1, <1>2, <1>3, OthersApart
<1>4. CASE u = who[c]
  <2>1. \A d \in Calls \ {c} : who[d] = u => pc[d] \notin Steps /\ pc'[d] \notin Steps
    BY <1>4, Alone
  <2> QED
    BY <1>1, <1>2, <1>4, <2>1, OwnExactStep, TurnsExactStep
<1> QED
  BY <1>3, <1>4

-----------------------------------------------------------------------------
HistoryInv == TypeOK /\ Owned /\ Watched /\ Exact /\ Once

LEMMA HistoryInvInit ==
  ASSUME BoundsAssumption, Init PROVE HistoryInv
<1>1. /\ \A c \in Calls : pc[c] = "new"
      /\ \A u \in Users : own[u] = NoList /\ conversation[u] = NoList
      /\ \A l \in Lists : heap[l] = <<>>
  BY DEF Init
<1>2. <<>> \in Seq(Calls) /\ Len(<<>>) = 0
  BY EmptySeq
<1>3. TypeOK
  BY <1>2 DEF Init, TypeOK
<1>4. Owned
  BY <1>1 DEF Owned
<1>5. Watched
  BY <1>1, <1>2 DEF Init, Watched, BoundsAssumption
<1>6. Exact
  <2> SUFFICES ASSUME NEW u \in Users PROVE Lone(u) /\ OwnExact(u) /\ TurnsExact(u)
    BY DEF Exact
  <2>1. OwnEntries(u) = <<>> /\ OwnTurns(u) = <<>>
    BY FilterEmpty DEF Init, OwnEntries, OwnTurns, OfUser
  <2>2. OwnItems(u) = <<>> /\ TurnItems(u) = <<>>
    BY <1>1 DEF OwnItems, TurnItems, Items
  <2>3. \A n \in Nat : LastN(<<>>, n) = <<>>
    BY <1>2 DEF LastN
  <2> QED
    BY <1>1, <2>1, <2>2, <2>3 DEF Lone, Active, Steps, OwnExact, TurnsExact, Recording, Measuring,
                                  BoundsAssumption
<1>7. Once
  BY <1>2 DEF Init, Once
<1> QED
  BY <1>3, <1>4, <1>5, <1>6, <1>7 DEF HistoryInv

LEMMA HistoryInvStep ==
  ASSUME BoundsAssumption, HistoryInv, [Next]_vars PROVE HistoryInv'
<1>1. CASE Next
  <2>1. PICK c \in Calls : HistoryCallStep(c)
    BY <1>1 DEF Next, HistoryCallStep
  <2> QED
    BY <2>1, HistoryTypes, OwnedStep, WatchedStep, ExactStep, OnceStep DEF HistoryInv
<1>2. CASE UNCHANGED vars
  <2> USE <1>2 DEF vars, stored, ghosts, HistoryInv
  <2>1. TypeOK'
    BY DEF TypeOK
  <2>2. Owned'
    BY DEF Owned, TurnLists, EntryLists, Made
  <2>3. Watched' /\ Once'
    BY DEF Watched, Once
  <2>4. ASSUME NEW u PROVE /\ Lone(u)' = Lone(u) /\ OwnExact(u)' = OwnExact(u)
                           /\ TurnsExact(u)' = TurnsExact(u)
    BY DEF Lone, Active, OwnExact, TurnsExact, OwnItems, TurnItems, OwnEntries, OwnTurns, Items, OfUser
  <2>5. Exact'
    BY <2>4 DEF Exact
  <2> QED
    BY <2>1, <2>2, <2>3, <2>5
<1> QED
  BY <1>1, <1>2

LEMMA HistoryInvHolds ==
  ASSUME BoundsAssumption PROVE Spec => []HistoryInv
<1>1. Init => HistoryInv
  BY HistoryInvInit
<1>2. HistoryInv /\ [Next]_vars => HistoryInv'
  BY HistoryInvStep
<1> QED
  BY <1>1, <1>2, PTL DEF Spec

(* The variables of the histories hold values of their kinds.              *)
THEOREM ListsAreTyped ==
  ASSUME BoundsAssumption PROVE Spec => []TypeOK
<1>1. HistoryInv => TypeOK
  BY DEF HistoryInv
<1>2. Spec => []HistoryInv
  BY HistoryInvHolds
<1> QED
  BY <1>1, <1>2, PTL

(* However the threads interleave, each list is back within its bound once *)
(* the calls that appended to it have measured it, although a call may     *)
(* measure a list that another has replaced (_append_history, answer).     *)
THEOREM ListsAreBounded ==
  ASSUME BoundsAssumption PROVE Spec => []BoundedAtRest
<1>1. HistoryInv => BoundedAtRest
  <2> SUFFICES ASSUME HistoryInv PROVE BoundedAtRest
    OBVIOUS
  <2>1. /\ own \in [Users -> Lists \cup {NoList}] /\ conversation \in [Users -> Lists \cup {NoList}]
        /\ heap \in [Lists -> Seq(Calls)]
    BY DEF HistoryInv, TypeOK
  <2>2. \A l \in Lists : Len(heap[l]) \in Nat
    BY <2>1, LenProperties
  <2>3. ASSUME MaxHistoryEntries > 0, NEW u \in Users,
               \A c \in Calls : who[c] = u => pc[c] \notin {"measureOwn", "cutOwn"}
        PROVE  Len(Items(own, u)) <= MaxHistoryEntries
    <3>1. own[u] # NoList => ~(Len(heap[own[u]]) > MaxHistoryEntries)
      BY <2>3 DEF HistoryInv, Watched
    <3> QED
      BY <2>1, <2>2, <2>3, <3>1, EmptySeq DEF Items, BoundsAssumption
  <2>4. ASSUME ConversationLimit > 0, NEW u \in Users,
               \A c \in Calls : who[c] = u => pc[c] # "keepTurns"
        PROVE  Len(Items(conversation, u)) <= ConversationLimit
    <3>1. conversation[u] # NoList => ~(Len(heap[conversation[u]]) > ConversationLimit)
      BY <2>4 DEF HistoryInv, Watched
    <3> QED
      BY <2>1, <2>2, <2>4, <3>1, EmptySeq DEF Items, BoundsAssumption
  <2> QED
    BY <2>3, <2>4 DEF HistoryInv, Watched, BoundedAtRest
<1> QED
  BY <1>1, HistoryInvHolds, PTL

(* The lists of a user whose own calls did not overlap are exact windows   *)
(* of the entries and turns, whatever the calls of other users do: no call *)
(* refers to another user's list (setdefault, _get_user_conversation_history). *)
THEOREM ListsStayApart ==
  ASSUME BoundsAssumption PROVE Spec => []UsersDoNotInterfere
<1>1. HistoryInv => UsersDoNotInterfere
  <2> SUFFICES ASSUME HistoryInv, NEW u \in Users \ mixed, \A c \in Active : who[c] # u
               PROVE  /\ Items(own, u) = LastN(OfUser(log, u), MaxHistoryEntries)
                      /\ Items(conversation, u) = LastN(OfUser(turns, u), ConversationLimit)
    BY DEF UsersDoNotInterfere
  <2>1. \A c \in Calls : who[c] = u => pc[c] \notin Steps
    BY DEF Active
  <2>2. OwnExact(u) /\ TurnsExact(u)
    BY DEF HistoryInv, Exact
  <2> QED
    BY <2>1, <2>2 DEF OwnExact, TurnsExact, OwnItems, TurnItems, OwnEntries, OwnTurns,
                      Steps, Recording, Measuring
<1> QED
  BY <1>1, HistoryInvHolds, PTL

(* self.history implements the window of the youngest entries that         *)
(* RecentLog specifies: appending an entry records it, once; measuring and *)
(* cutting, however late, are stutters (_append_history).                  *)
THEOREM HistoryIsWindow ==
  ASSUME BoundsAssumption PROVE Spec => ImplementsRecentLog
<1> DEFINE recent == LastN(history, MaxHistoryEntries)
           recorded == {log[i] : i \in 1..Len(log)}
<1>1. Init => R!Init
  <2>1. LastN(<<>>, MaxHistoryEntries) = <<>>
    BY EmptySeq DEF LastN, BoundsAssumption
  <2> QED
    BY <2>1, EmptySeq DEF Init, R!Init
<1>2. HistoryInv /\ [Next]_vars => [R!Next]_<<recent, recorded>>
  <2> SUFFICES ASSUME HistoryInv, [Next]_vars
               PROVE  R!Next \/ (recent' = recent /\ recorded' = recorded)
    OBVIOUS
  <2>1. history \in Seq(Calls) /\ log \in Seq(Calls) /\ MaxHistoryEntries \in Nat
    BY DEF HistoryInv, TypeOK, BoundsAssumption
  <2>2. ASSUME NEW c \in Calls, AppendEntry(c) PROVE R!Next
    <3>1. history' = Append(history, c) /\ log' = Append(log, c)
      BY <2>2 DEF AppendEntry
    <3>2. c \notin recorded
      BY <2>2, OnceStep DEF HistoryInv, HistoryCallStep
    <3>3. recent' = LastN(Append(recent, c), MaxHistoryEntries)
      BY <2>1, <3>1, LastNAppend
    <3>4. R!LastN(Append(recent, c), MaxHistoryEntries) = LastN(Append(recent, c), MaxHistoryEntries)
      BY DEF R!LastN, LastN
    <3>5. recorded' = recorded \cup {c}
      <4>1. Len(log') = Len(log) + 1 /\ log'[Len(log) + 1] = c /\ Len(log) \in Nat
        BY <2>1, <3>1, AppendProperties, LenProperties
      <4>2. \A i \in 1..Len(log) : log'[i] = log[i]
        BY <2>1, <3>1, AppendProperties
      <4> QED
        BY <4>1, <4>2
    <3> QED
      BY <3>2, <3>3, <3>4, <3>5 DEF R!Next, R!Record
  <2>3. ASSUME NEW c \in Calls, Cut(c) PROVE recent' = recent /\ recorded' = recorded
    BY <2>1, <2>3, LastNTwice DEF Cut, ghosts
  <2>4. ASSUME NEW c \in Calls,
               \/ Begin(c) \/ GetConversation(c) \/ AddTurn(c) \/ KeepTurns(c) \/ Measure(c)
               \/ SetDefault(c) \/ AppendOwn(c) \/ MeasureOwn(c) \/ CutOwn(c)
        PROVE  recent' = recent /\ recorded' = recorded
    BY <2>4 DEF Begin, GetConversation, AddTurn, KeepTurns, Measure, SetDefault, AppendOwn,
                MeasureOwn, CutOwn, stored, ghosts
  <2>5. CASE UNCHANGED vars
    BY <2>5 DEF vars, stored, ghosts
  <2> QED
    BY <2>2, <2>3, <2>4, <2>5 DEF Next
<1> QED
  BY <1>1, <1>2, HistoryInvHolds, PTL DEF Spec, ImplementsRecentLog, R!Spec

=============================================================================
