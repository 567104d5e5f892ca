---------------------------- MODULE HistoryStore ----------------------------
(***************************************************************************)
(* The lists TextToSQLService remembers calls in (src/src/services/        *)
(* text2sql_service.py): self.history, self.user_histories and             *)
(* self.conversation_history, written by the event loop and the threads of *)
(* /query/stream without a lock.                                           *)
(*                                                                         *)
(* A call is cut where the interpreter may switch threads: after append,   *)
(* len, setdefault and _get_user_conversation_history have returned.  A    *)
(* slice and the assignment of its result are not separated.               *)
(*                                                                         *)
(* self.history is always read through the attribute.  The lists of a user *)
(* are not: a call keeps a reference (mine) to the list it found, while    *)
(* another call may put a new list in its place.  So a list is an object,  *)
(* named after the call that made it and the place where it did; heap has  *)
(* its items.  An item stands for the entry, or the turn, of a call.       *)
(***************************************************************************)
EXTENDS Slices, FiniteSets

CONSTANTS
  Calls, Users,
  MaxHistoryEntries,  \* max_history_entries, 0 = unbounded
  ConversationLimit,  \* conversation_history_limit
  MaxActive,          \* calls at a time: 1 if only the event loop serves answer()
  NoList              \* the user is no key of the dictionary

Lists == Calls \X {"turns", "lastTurns", "entries", "lastEntries"}

BoundsAssumption ==
  /\ MaxHistoryEntries \in Nat /\ ConversationLimit \in Nat /\ MaxActive \in Nat \ {0}
  /\ NoList \notin Lists

VARIABLES
  pc, who,        \* per call: where it is, and its user
  history,        \* self.history
  own,            \* self.user_histories: the list of each user
  conversation,   \* self.conversation_history: the list of each user
  heap,           \* the items of every list of a user
  mine,           \* per call: the list it holds a reference to
  log, turns,     \* history variables: all entries, and turns, in order
  mixed           \* history variable: users two calls of which overlapped

stored == <<history, own, conversation, heap>>
ghosts == <<log, turns, mixed>>
vars == <<pc, who, stored, mine, ghosts>>

Steps == {"conversation", "addTurn", "keepTurns", "append", "measure", "cut",
          "setdefault", "appendOwn", "measureOwn", "cutOwn"}

Active == {c \in Calls : pc[c] \in Steps}

Init ==
  /\ pc = [c \in Calls |-> "new"]
  /\ who \in [Calls -> Users]
  /\ history = <<>>
  /\ own = [u \in Users |-> NoList]
  /\ conversation = [u \in Users |-> NoList]
  /\ heap = [l \in Lists |-> <<>>]
  /\ mine = [c \in Calls |-> NoList]
  /\ log = <<>>
  /\ turns = <<>>
  /\ mixed = {}

-----------------------------------------------------------------------------
At(c, here, next) == pc[c] = here /\ pc' = [pc EXCEPT ![c] = next]

(* A successful answer joins the conversation first; what was blocked or   *)
(* failed after SQL was generated, and an approved statement, does not.    *)
Begin(c) ==
  /\ Cardinality(Active) < MaxActive
  /\ At(c, "new", "conversation") \/ At(c, "new", "append")
  /\ mixed' = mixed \cup {u \in {who[c]} : \E d \in Active : who[d] = u}
  /\ UNCHANGED <<who, stored, mine, log, turns>>

(* _get_user_conversation_history: a new list for a new user. *)
GetConversation(c) ==
  /\ At(c, "conversation", "addTurn")
  /\ LET u == who[c]
         found == IF conversation[u] = NoList THEN <<c, "turns">> ELSE conversation[u]
     IN  /\ conversation' = [conversation EXCEPT ![u] = found]
         /\ mine' = [mine EXCEPT ![c] = found]
  /\ UNCHANGED <<who, history, own, heap, ghosts>>

AddTurn(c) ==
  /\ At(c, "addTurn", "keepTurns")
  /\ heap' = [heap EXCEPT ![mine[c]] = Append(@, c)]
  /\ turns' = Append(turns, c)
  /\ UNCHANGED <<who, history, own, conversation, mine, log, mixed>>

(* self.conversation_history[user] = user_conversation[-limit:] *)
KeepTurns(c) ==
  /\ At(c, "keepTurns", "append")
  /\ conversation' = [conversation EXCEPT ![who[c]] = <<c, "lastTurns">>]
  /\ heap' = [heap EXCEPT ![<<c, "lastTurns">>] = LastN(heap[mine[c]], ConversationLimit)]
  /\ UNCHANGED <<who, history, own, mine, ghosts>>

AppendEntry(c) ==
  /\ At(c, "append", "measure")
  /\ history' = Append(history, c)
  /\ log' = Append(log, c)
  /\ UNCHANGED <<who, own, conversation, heap, mine, turns, mixed>>

(* Mutant of TooLong: off by one. *)
MuchTooLong(s) == MaxHistoryEntries > 0 /\ Len(s) > MaxHistoryEntries + 1

(* self.max_history_entries > 0 and len(...) > self.max_history_entries *)
TooLong(s) == MaxHistoryEntries > 0 /\ Len(s) > MaxHistoryEntries

Measure(c) ==
  /\ At(c, "measure", IF TooLong(history) THEN "cut" ELSE "setdefault")
  /\ UNCHANGED <<who, stored, mine, ghosts>>

(* Mutant of Cut: self.history[:max], the oldest entries are kept. *)
CutYoungest(c) ==
  /\ At(c, "cut", "setdefault")
  /\ history' = SubSeq(history, 1, MaxHistoryEntries)
  /\ UNCHANGED <<who, own, conversation, heap, mine, ghosts>>

(* self.history = self.history[-max:], of the list as it is by now. *)
Cut(c) ==
  /\ At(c, "cut", "setdefault")
  /\ history' = LastN(history, MaxHistoryEntries)
  /\ UNCHANGED <<who, own, conversation, heap, mine, ghosts>>

(* Mutant of NewList: one list is the default of every user. *)
SharedList(c) == <<CHOOSE d \in Calls : TRUE, "entries">>

NewList(c) == <<c, "entries">>

(* self.user_histories.setdefault(user_id, []) *)
SetDefault(c) ==
  /\ At(c, "setdefault", "appendOwn")
  /\ LET u == who[c]
         found == IF own[u] = NoList THEN NewList(c) ELSE own[u]
     IN  /\ own' = [own EXCEPT ![u] = found]
         /\ mine' = [mine EXCEPT ![c] = found]
  /\ UNCHANGED <<who, history, conversation, heap, ghosts>>

AppendOwn(c) ==
  /\ At(c, "appendOwn", "measureOwn")
  /\ heap' = [heap EXCEPT ![mine[c]] = Append(@, c)]
  /\ UNCHANGED <<who, history, own, conversation, mine, ghosts>>

MeasureOwn(c) ==
  /\ At(c, "measureOwn", IF TooLong(heap[mine[c]]) THEN "cutOwn" ELSE "done")
  /\ UNCHANGED <<who, stored, mine, ghosts>>

(* The user gets a new list, cut from the one this call refers to. *)
CutOwn(c) ==
  /\ At(c, "cutOwn", "done")
  /\ own' = [own EXCEPT ![who[c]] = <<c, "lastEntries">>]
  /\ heap' = [heap EXCEPT ![<<c, "lastEntries">>] = LastN(heap[mine[c]], MaxHistoryEntries)]
  /\ UNCHANGED <<who, history, conversation, mine, ghosts>>

Next ==
  \E c \in Calls :
    \/ Begin(c)
    \/ GetConversation(c) \/ AddTurn(c) \/ KeepTurns(c)
    \/ AppendEntry(c) \/ Measure(c) \/ Cut(c)
    \/ SetDefault(c) \/ AppendOwn(c) \/ MeasureOwn(c) \/ CutOwn(c)

Spec == Init /\ [][Next]_vars

-----------------------------------------------------------------------------
(* Every variable holds values of its kind. *)
TypeOK ==
  /\ pc \in [Calls -> Steps \cup {"new", "done"}]
  /\ who \in [Calls -> Users]
  /\ history \in Seq(Calls)
  /\ own \in [Users -> Lists \cup {NoList}]
  /\ conversation \in [Users -> Lists \cup {NoList}]
  /\ heap \in [Lists -> Seq(Calls)]
  /\ mine \in [Calls -> Lists \cup {NoList}]
  /\ log \in Seq(Calls) /\ turns \in Seq(Calls)
  /\ mixed \in SUBSET Users

(* The items of the list under a user's key; get(user_id, []) of a reader. *)
Items(dict, u) == IF dict[u] = NoList THEN <<>> ELSE heap[dict[u]]

OfUser(s, u) == Filter(s, {c \in Calls : who[c] = u})

(* However the threads interleave, each list is back within its bound once *)
(* the calls that appended to it have measured it, although a call may     *)
(* measure a list that another has replaced.                               *)
BoundedAtRest ==
  /\ MaxHistoryEntries > 0 =>
       /\ (\A c \in Calls : pc[c] \notin {"measure", "cut"})
            => Len(history) <= MaxHistoryEntries
       /\ \A u \in Users :
            (\A c \in Calls : who[c] = u => pc[c] \notin {"measureOwn", "cutOwn"})
              => Len(Items(own, u)) <= MaxHistoryEntries
  /\ ConversationLimit > 0 => \A u \in Users :
       (\A c \in Calls : who[c] = u => pc[c] # "keepTurns")
         => Len(Items(conversation, u)) <= ConversationLimit

(* However the threads interleave, self.history loses no entry and keeps   *)
(* the order: seen through its bound it is a RecentLog.                    *)
R == INSTANCE RecentLog WITH
       Entries <- Calls, Bound <- MaxHistoryEntries,
       recent <- LastN(history, MaxHistoryEntries),
       recorded <- {log[i] : i \in 1..Len(log)}

ImplementsRecentLog == R!Spec

(* The lists of a user whose own calls did not overlap are exact windows   *)
(* of the entries and turns, whatever the calls of other users do.         *)
UsersDoNotInterfere ==
  \A u \in Users \ mixed : (\A c \in Active : who[c] # u) =>
    /\ Items(own, u) = LastN(OfUser(log, u), MaxHistoryEntries)
    /\ Items(conversation, u) = LastN(OfUser(turns, u), ConversationLimit)
=============================================================================
