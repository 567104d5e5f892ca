---------------------------- MODULE SavedQueries ----------------------------
(***************************************************************************)
(* The saved queries of the front end (src/streamlit_app.py): each tab of  *)
(* the browser has a session with a list of its own, read from             *)
(* .saved_queries.json when the session starts; "Save Query" changes the   *)
(* list and writes all of it to the file.                                  *)
(*                                                                         *)
(* The sessions are threads of one process.  write_text opens the file,    *)
(* which empties it, and then writes from the start: a text written over a *)
(* longer one leaves the end of that, which is no JSON.                    *)
(*                                                                         *)
(* A saved question is named by the number of its save.                    *)
(***************************************************************************)
EXTENDS Slices

CONSTANTS
  Tabs, Names,
  MaxSaves,   \* bound
  NotOpen     \* the tab has no session

VARIABLES
  list,     \* per tab: st.session_state["saved_queries"]
  pc,       \* per tab: "idle", "open" or "write" (in persist_saved_queries)
  file,     \* how the file reads, and the items if it is whole
  last,     \* history variable: the number of the last save of each name
  saver,    \* history variable: the tab that wrote last
  saves,
  shared,   \* history variable: two tabs were open at a time
  hurt      \* history variable: the process died while it wrote

vars == <<list, pc, file, last, saver, saves, shared, hurt>>

Item == [name : Names, question : 1..MaxSaves]

BoundsAssumption == MaxSaves \in Nat /\ NotOpen \notin Seq(Item)

Init ==
  /\ list = [t \in Tabs |-> NotOpen]
  /\ pc = [t \in Tabs |-> "idle"]
  /\ file = [kind |-> "whole", items |-> <<>>]   \* no file reads like no items
  /\ last = [n \in Names |-> 0]
  /\ saver = NotOpen
  /\ saves = 0
  /\ shared = FALSE /\ hurt = FALSE

-----------------------------------------------------------------------------
(* load_saved_queries: what cannot be read is taken for no items. *)
Open(t) ==
  /\ list[t] = NotOpen
  /\ list' = [list EXCEPT ![t] = IF file.kind = "whole" THEN file.items ELSE <<>>]
  /\ shared' = (shared \/ \E other \in Tabs \ {t} : list[other] # NotOpen)
  /\ UNCHANGED <<pc, file, last, saver, saves, hurt>>

Close(t) ==
  /\ list[t] # NotOpen /\ pc[t] = "idle"
  /\ list' = [list EXCEPT ![t] = NotOpen]
  /\ UNCHANGED <<pc, file, last, saver, saves, shared, hurt>>

With(items, item) == Append(Filter(items, {i \in Item : i.name # item.name}), item)

Save(t, n) ==
  /\ list[t] # NotOpen /\ pc[t] = "idle"
  /\ saves < MaxSaves
  /\ saves' = saves + 1
  /\ list' = [list EXCEPT ![t] = With(@, [name |-> n, question |-> saves + 1])]
  /\ last' = [last EXCEPT ![n] = saves + 1]
  /\ pc' = [pc EXCEPT ![t] = "open"]
  /\ UNCHANGED <<file, saver, shared, hurt>>

(* Mutant of Truncate: the file is opened to append. *)
TruncateNothing(t) ==
  /\ pc[t] = "open"
  /\ pc' = [pc EXCEPT ![t] = "write"]
  /\ UNCHANGED <<list, file, last, saver, saves, shared, hurt>>

Truncate(t) ==
  /\ pc[t] = "open"
  /\ file' = [kind |-> "empty", items |-> <<>>]
  /\ pc' = [pc EXCEPT ![t] = "write"]
  /\ UNCHANGED <<list, last, saver, saves, shared, hurt>>

Text(t) == list[t]

(* Over the text of a tab that has written since, mine may be the shorter. *)
Write(t) ==
  /\ pc[t] = "write"
  /\ \/ file' = [kind |-> "whole", items |-> Text(t)]
     \/ file.kind # "empty" /\ file' = [kind |-> "torn", items |-> <<>>]
  /\ pc' = [pc EXCEPT ![t] = "idle"]
  /\ saver' = t
  /\ UNCHANGED <<list, last, saves, shared, hurt>>

(* The process dies, and a text that is being written with it. *)
Crash ==
  /\ list' = [t \in Tabs |-> NotOpen]
  /\ pc' = [t \in Tabs |-> "idle"]
  /\ file' \in IF \E t \in Tabs : pc[t] = "write"
               THEN {file, [kind |-> "torn", items |-> <<>>]} ELSE {file}
  /\ saver' = NotOpen
  /\ hurt' = (hurt \/ \E t \in Tabs : pc[t] # "idle")
  /\ UNCHANGED <<last, saves, shared>>

Next ==
  \/ \E t \in Tabs : Open(t) \/ Close(t) \/ Truncate(t) \/ Write(t)
                     \/ \E n \in Names : Save(t, n)
  \/ Crash

Spec == Init /\ [][Next]_vars

-----------------------------------------------------------------------------
(* A name stands for one item in each list, so that "Load saved query"     *)
(* finds the question last saved under it, over any order of loads, saves, *)
(* torn files and restarts.                                                *)
NamesUnique ==
  \A t \in Tabs : list[t] # NotOpen =>
    \A i, j \in 1..Len(list[t]) : list[t][i].name = list[t][j].name => i = j

AtRest == \A t \in Tabs : pc[t] = "idle"

(* A file that is whole while nobody writes is the list of the session     *)
(* that wrote last, all of it.                                             *)
LastSaverWins ==
  (AtRest /\ file.kind = "whole" /\ saver # NotOpen /\ list[saver] # NotOpen)
    => file.items = list[saver]

(* The last save of every name is in the file. *)
Stored ==
  file.kind = "whole" /\ \A n \in Names : last[n] > 0 =>
    \E i \in 1..Len(file.items) : file.items[i] = [name |-> n, question |-> last[n]]

(* As long as one tab is open at a time, and the process does not die      *)
(* while it writes, every save is kept over closed tabs and restarts.      *)
OneTabKeepsAll == (AtRest /\ ~shared /\ ~hurt) => Stored

(* A name stands for one item in every list, the file is the list of its   *)
(* last writer, and one tab at a time loses no save.                       *)
SavesAreKept == NamesUnique /\ LastSaverWins /\ OneTabKeepsAll
=============================================================================
