---------------------------- MODULE BrowserProofs ---------------------------
(***************************************************************************)
(* What a browser is in touch with, as in module MCBrowser, for every      *)
(* instance: the session of the front end, for any number of questions,    *)
(* previews and faults, its saved queries, and the streams of answers.     *)
(***************************************************************************)
EXTENDS MCBrowser, SlicesProofs

-----------------------------------------------------------------------------
(* The approval session.  What a run of the script has still to do.        *)
Tasks ==
  {<<t>> : t \in Requests \cup {"page"}}
  \cup {Write("clarification", c) : c \in {"none", "asks", "ready"}}
  \cup {Write(slot, p) : slot \in {"preview", "result"}, p \in 0..MaxPreviews}
  \cup {Write("pending", v) : v \in Statements \cup {None}}

Slots == [clarification : {"none", "asks", "ready"}, preview : 0..MaxPreviews,
          pending : Statements \cup {None}, result : 0..MaxPreviews]

Made == [question : Questions, ready : BOOLEAN]

SessionKinds ==
  /\ form \in Forms /\ button \in Buttons
  /\ script \in Seq(Tasks)
  /\ state \in Slots
  /\ previews \in Seq(Made) /\ Len(previews) <= MaxPreviews
  /\ executed \in Seq(Statements)
  /\ faults \in 0..MaxFaults

(* A request is followed by nothing but the page, which comes last.  The   *)
(* request that executes what is pending comes at once.                    *)
InOrder(tasks, slots) ==
  \A i \in 1..Len(tasks) :
    /\ tasks[i][1] = "page" => i = Len(tasks)
    /\ tasks[i][1] \in Requests => \A j \in (i + 1)..Len(tasks) : tasks[j][1] = "page"
    /\ tasks[i][1] = "/query/approved" => i = 1 /\ Len(tasks) = 1 /\ slots.pending # None

(* The statement s is that of a preview that was ready.                    *)
Fits(s, made) ==
  s.sql \in 1..Len(made) /\ made[s.sql].ready /\ made[s.sql].question = s.question

(* The number of the preview that tasks[i] executes                        *)
RunOf(tasks, slots, i) == IF i = 1 THEN slots.preview ELSE tasks[1][2]

TasksFit(tasks, slots, question, made) ==
  \A i \in 1..Len(tasks) :
    /\ tasks[i][1] = "run" =>
         /\ i = 1 \/ (i = 2 /\ tasks[1][1] = "preview")
         /\ Fits(Pending(question, RunOf(tasks, slots, i)), made)
    /\ tasks[i][1] = "pending" => tasks[i][2] = None \/ Fits(tasks[i][2], made)

SessionInv ==
  /\ SessionKinds
  /\ InOrder(script, state)
  /\ TasksFit(script, state, form.question, previews)
  /\ state.pending = None \/ Fits(state.pending, previews)
  /\ \A i \in 1..Len(executed) : Fits(executed[i], previews)

LEMMA TaskKinds ==
  ASSUME NEW t \in Tasks
  PROVE  /\ t[1] \in Requests \cup {"page", "clarification", "preview", "result", "pending"}
         /\ t[1] = "clarification" => t[2] \in {"none", "asks", "ready"}
         /\ t[1] \in {"preview", "result"} => t[2] \in 0..MaxPreviews
         /\ t[1] = "pending" => t[2] \in Statements \cup {None}
<1>1. CASE t \in {<<r>> : r \in Requests \cup {"page"}}
  BY <1>1 DEF Requests
<1>2. CASE t \in {Write("clarification", c) : c \in {"none", "asks", "ready"}}
  BY <1>2 DEF Write, Requests
<1>3. CASE t \in {Write(slot, p) : slot \in {"preview", "result"}, p \in 0..MaxPreviews}
  BY <1>3 DEF Write, Requests
<1>4. CASE t \in {Write("pending", v) : v \in Statements \cup {None}}
  BY <1>4 DEF Write, Requests
<1> QED
  BY <1>1, <1>2, <1>3, <1>4 DEF Tasks

LEMMA WritesAreTasks ==
  /\ \A r \in Requests \cup {"page"} : <<r>> \in Tasks
  /\ \A c \in {"none", "asks", "ready"} : Write("clarification", c) \in Tasks
  /\ \A p \in 0..MaxPreviews : Write("preview", p) \in Tasks /\ Write("result", p) \in Tasks
  /\ \A v \in Statements \cup {None} : Write("pending", v) \in Tasks
  BY DEF Tasks

(* The script after its first task went through tasks.                     *)
LEMMA ContinueSteps ==
  ASSUME script \in Seq(Tasks), script # <<>>, NEW tasks \in Seq(Tasks), Continue(tasks)
  PROVE  /\ script' \in Seq(Tasks)
         /\ Len(script) > 0 /\ Head(script) = script[1] /\ script[1] \in Tasks
         /\ Len(script') = Len(tasks) + Len(script) - 1
         /\ \A i \in 1..Len(script') :
              script'[i] = IF i <= Len(tasks) THEN tasks[i] ELSE script[i - Len(tasks) + 1]
<1>1. /\ Tail(script) \in Seq(Tasks) /\ Len(Tail(script)) = Len(script) - 1
      /\ \A i \in 1..Len(Tail(script)) : Tail(script)[i] = script[i + 1]
  BY HeadTailProperties
<1>2. Len(script) > 0 /\ Head(script) = script[1] /\ script[1] \in Tasks /\ Len(script) \in Nat
  OBVIOUS
<1>3. /\ tasks \o Tail(script) \in Seq(Tasks)
      /\ Len(tasks \o Tail(script)) = Len(tasks) + Len(Tail(script))
      /\ \A i \in 1..(Len(tasks) + Len(Tail(script))) :
           (tasks \o Tail(script))[i] = IF i <= Len(tasks) THEN tasks[i] ELSE Tail(script)[i - Len(tasks)]
  BY <1>1, ConcatProperties
<1>4. script' = tasks \o Tail(script) /\ Len(tasks) \in Nat
  BY DEF Continue
<1>5. Len(script') = Len(tasks) + Len(script) - 1
  BY <1>1, <1>2, <1>3, <1>4
<1>6. ASSUME NEW i \in 1..Len(script')
      PROVE  script'[i] = IF i <= Len(tasks) THEN tasks[i] ELSE script[i - Len(tasks) + 1]
  <2>1. script'[i] = IF i <= Len(tasks) THEN tasks[i] ELSE Tail(script)[i - Len(tasks)]
    BY <1>1, <1>2, <1>3, <1>4, <1>5
  <2>2. i > Len(tasks) => i - Len(tasks) \in 1..Len(Tail(script))
    BY <1>1, <1>2, <1>4, <1>5
  <2> QED
    BY <1>1, <1>4, <2>1, <2>2
<1> QED
  BY <1>2, <1>3, <1>4, <1>5, <1>6

(* After a request or the page: tasks, and maybe the page.                 *)
LEMMA ContinueAtEnd ==
  ASSUME script \in Seq(Tasks), script # <<>>, NEW tasks \in Seq(Tasks), Continue(tasks),
         InOrder(script, state), script[1][1] \in Requests \cup {"page"}
  PROVE  /\ Len(script') = Len(tasks) \/ (Len(script') = Len(tasks) + 1 /\ script'[Len(script')][1] = "page")
         /\ \A i \in 1..Len(tasks) : script'[i] = tasks[i]
         /\ \A i \in 1..Len(script) : i > 1 => script[i][1] = "page"
         /\ script[1][1] = "page" => Len(script) = 1
<1>1. Len(script) \in Nat /\ Len(script) > 0 /\ Len(tasks) \in Nat
  OBVIOUS
<1>2. script[1][1] = "page" => Len(script) = 1
  <2>1. 1 \in 1..Len(script)
    BY <1>1
  <2>2. \A i \in 1..Len(script) : script[i][1] = "page" => i = Len(script)
    BY DEF InOrder
  <2> QED
    BY <2>1, <2>2
<1>3. ASSUME NEW i \in 1..Len(script), i > 1 PROVE script[i][1] = "page" /\ i = Len(script)
  <2> DEFINE n == Len(script)
  <2>1. n \in Nat /\ n > 0 /\ i \in 1..n /\ (script[1][1] = "page" => n = 1)
    BY <1>1, <1>2
  <2> HIDE DEF n
  <2>2. 1 \in 1..n /\ i \in (1 + 1)..n /\ n # 1
    BY <1>3, <2>1
  <2>3. 1 \in 1..Len(script) /\ i \in (1 + 1)..Len(script) /\ script[1][1] \in Requests
    BY <2>1, <2>2 DEF n
  <2>4. \A j \in (1 + 1)..Len(script) : script[j][1] = "page"
    BY <2>3 DEF InOrder
  <2> QED
    BY <2>3, <2>4 DEF InOrder
<1>4. Len(script) \in {1, 2}
  <2> DEFINE n == Len(script)
  <2>1. n \in Nat /\ n > 0 /\ \A i \in 1..n : i > 1 => i = n
    BY <1>1, <1>3
  <2> HIDE DEF n
  <2>2. n > 1 => 2 \in 1..n /\ 2 > 1
    BY <2>1
  <2>3. n > 1 => 2 = n
    BY <2>1, <2>2
  <2>4. n \in {1, 2}
    BY <2>1, <2>3
  <2> QED
    BY <2>4 DEF n
<1>5. /\ Len(script') = Len(tasks) + Len(script) - 1
      /\ \A i \in 1..Len(script') :
           script'[i] = IF i <= Len(tasks) THEN tasks[i] ELSE script[i - Len(tasks) + 1]
  BY ContinueSteps
<1>6. Len(script) = 2 => script'[Len(script')] = script[2] /\ script[2][1] = "page"
  BY <1>1, <1>3, <1>5
<1> QED
  BY <1>1, <1>2, <1>3, <1>4, <1>5, <1>6

(* What goes on with tasks is in order, and fits, if tasks do.             *)
LEMMA ContinueKeeps ==
  ASSUME script \in Seq(Tasks), script # <<>>, NEW tasks \in Seq(Tasks), Continue(tasks),
         InOrder(script, state), script[1][1] \in Requests \cup {"page"},
         \A i \in 1..Len(tasks) : /\ tasks[i][1] # "page"
                                  /\ tasks[i][1] \in Requests => i = Len(tasks)
  PROVE  /\ script' \in Seq(Tasks)
         /\ \A slots :
              (\A i \in 1..Len(tasks) :
                 tasks[i][1] = "/query/approved" =>
                   i = 1 /\ Len(tasks) = 1 /\ script[1][1] = "page" /\ slots.pending # None)
              => InOrder(script', slots)
         /\ \A slots, question, made :
              TasksFit(tasks, slots, question, made) => TasksFit(script', slots, question, made)
<1>1. /\ script' \in Seq(Tasks)
      /\ Len(script') = Len(tasks) + Len(script) - 1
  BY ContinueSteps
<1>2. /\ Len(script') = Len(tasks) \/ (Len(script') = Len(tasks) + 1 /\ script'[Len(script')][1] = "page")
      /\ \A i \in 1..Len(tasks) : script'[i] = tasks[i]
      /\ script[1][1] = "page" => Len(script) = 1
  BY ContinueAtEnd
<1> DEFINE m == Len(tasks)
           n == Len(script')
<1>3. m \in Nat /\ n \in Nat /\ (n = m \/ n = m + 1) /\ (script[1][1] = "page" => n = m)
  <2>1. m \in Nat /\ n \in Nat
    BY <1>1
  <2>2. n = m + Len(script) - 1 /\ (script[1][1] = "page" => Len(script) = 1) /\ (n = m \/ n = m + 1)
    BY <1>1, <1>2
  <2>3. ASSUME script[1][1] = "page" PROVE n = m
    <3>1. Len(script) = 1
      BY <2>2, <2>3
    <3>2. n = m + 1 - 1
      BY <2>2, <3>1
    <3> HIDE DEF m, n
    <3> QED
      BY <2>1, <3>2
  <2> HIDE DEF m, n
  <2> QED
    BY <2>1, <2>2, <2>3
<1>4. \A i \in 1..n : (i \in 1..m /\ script'[i] = tasks[i]) \/ (i = n /\ i = m + 1 /\ script'[i][1] = "page")
  <2>1. /\ n = m \/ (n = m + 1 /\ script'[n][1] = "page")
        /\ \A i \in 1..m : script'[i] = tasks[i]
    BY <1>2
  <2> HIDE DEF m, n
  <2> QED
    BY <1>3, <2>1
<1>5. \A i \in 1..m : tasks[i][1] # "page" /\ (tasks[i][1] \in Requests => i = m)
  OBVIOUS
<1>6. {"run", "/query/approved"} \subseteq Requests /\ "page" \notin Requests /\ "pending" # "page"
  BY DEF Requests
<1> HIDE DEF m, n
<1>7. ASSUME NEW slots,
             \A i \in 1..m : tasks[i][1] = "/query/approved" =>
               i = 1 /\ m = 1 /\ script[1][1] = "page" /\ slots.pending # None
      PROVE  InOrder(script', slots)
  <2> SUFFICES ASSUME NEW i \in 1..n
               PROVE  /\ script'[i][1] = "page" => i = n
                      /\ script'[i][1] \in Requests => \A j \in (i + 1)..n : script'[j][1] = "page"
                      /\ script'[i][1] = "/query/approved" => i = 1 /\ n = 1 /\ slots.pending # None
    BY DEF InOrder, n
  <2>1. script'[i][1] = "page" => i = n
    BY <1>3, <1>4, <1>5
  <2>2. ASSUME script'[i][1] \in Requests, NEW j \in (i + 1)..n PROVE script'[j][1] = "page"
    <3>1. i \in 1..m /\ i = m
      BY <1>4, <1>5, <1>6, <2>2
    <3> QED
      BY <1>3, <1>4, <3>1
  <2>3. script'[i][1] = "/query/approved" => i = 1 /\ n = 1 /\ slots.pending # None
    BY <1>3, <1>4, <1>6, <1>7
  <2> QED
    BY <2>1, <2>2, <2>3
<1>8. ASSUME NEW slots, NEW question, NEW made, TasksFit(tasks, slots, question, made)
      PROVE  TasksFit(script', slots, question, made)
  <2> SUFFICES ASSUME NEW i \in 1..n, script'[i][1] \in {"run", "pending"}
               PROVE  /\ script'[i][1] = "run" =>
                           /\ i = 1 \/ (i = 2 /\ script'[1][1] = "preview")
                           /\ Fits(Pending(question, RunOf(script', slots, i)), made)
                      /\ script'[i][1] = "pending" => script'[i][2] = None \/ Fits(script'[i][2], made)
    BY DEF TasksFit, n
  <2>1. i \in 1..m /\ script'[i] = tasks[i]
    BY <1>4
  <2>2. 1 \in 1..m /\ script'[1] = tasks[1]
    <3>1. 1 \in 1..m /\ 1 \in 1..n
      BY <1>3, <2>1
    <3> QED
      BY <1>3, <1>4, <3>1
  <2>3. RunOf(script', slots, i) = RunOf(tasks, slots, i)
    BY <2>2 DEF RunOf
  <2> QED
    BY <1>8, <2>1, <2>2, <2>3 DEF TasksFit, m
<1> QED
  BY <1>1, <1>7, <1>8 DEF m

(* A preview that is made later spoils nothing.                            *)
LEMMA FitsGrow ==
  ASSUME NEW made \in Seq(Made), NEW p \in Made
  PROVE  /\ Append(made, p) \in Seq(Made) /\ Len(Append(made, p)) = Len(made) + 1
         /\ Append(made, p)[Len(made) + 1] = p
         /\ \A s : Fits(s, made) => Fits(s, Append(made, p))
<1>1. /\ Append(made, p) \in Seq(Made) /\ Len(Append(made, p)) = Len(made) + 1
      /\ \A i \in 1..Len(made) : Append(made, p)[i] = made[i]
      /\ Append(made, p)[Len(made) + 1] = p
  BY AppendProperties
<1>2. ASSUME NEW s, Fits(s, made) PROVE Fits(s, Append(made, p))
  <2>1. s.sql \in 1..Len(made) /\ Len(made) \in Nat
    BY <1>2 DEF Fits
  <2>2. Append(made, p)[s.sql] = made[s.sql] /\ s.sql \in 1..Len(Append(made, p))
    BY <1>1, <2>1
  <2> QED
    BY <1>2, <2>2 DEF Fits
<1> QED
  BY <1>1, <1>2

LEMMA ExecutedGrow ==
  ASSUME executed \in Seq(Statements), NEW s \in Statements, executed' = Append(executed, s),
         NEW made, Fits(s, made), \A i \in 1..Len(executed) : Fits(executed[i], made)
  PROVE  executed' \in Seq(Statements) /\ \A i \in 1..Len(executed') : Fits(executed'[i], made)
<1>1. /\ executed' \in Seq(Statements) /\ Len(executed') = Len(executed) + 1
      /\ \A i \in 1..Len(executed) : executed'[i] = executed[i]
      /\ executed'[Len(executed) + 1] = s
  BY AppendProperties
<1>2. Len(executed) \in Nat
  OBVIOUS
<1>3. ASSUME NEW i \in 1..Len(executed') PROVE Fits(executed'[i], made)
  <2>1. i \in 1..Len(executed) \/ i = Len(executed) + 1
    BY <1>1, <1>2
  <2> QED
    BY <1>1, <2>1
<1> QED
  BY <1>1, <1>3

LEMMA InteractKeeps ==
  ASSUME SessionInv, NEW f \in Forms, NEW b \in Buttons, Interact(f, b)
  PROVE  SessionInv'
<1>1. /\ form' = f /\ button' = b /\ UNCHANGED <<state, previews, executed>>
      /\ script' = IF b = "submit" THEN <<<<"/query/clarify">>, <<"page">>>> ELSE <<<<"page">>>>
  BY DEF Interact
<1>2. faults' \in 0..MaxFaults
  BY BoundsAssumption DEF Interact, SessionInv, SessionKinds
<1>3. script' \in Seq(Tasks)
  <2>1. <<"/query/clarify">> \in Tasks /\ <<"page">> \in Tasks
    BY WritesAreTasks DEF Requests
  <2> QED
    BY <1>1, <2>1
<1>4. InOrder(script', state) /\ TasksFit(script', state, f.question, previews)
  BY <1>1 DEF InOrder, TasksFit, Requests
<1> QED
  BY <1>1, <1>2, <1>3, <1>4 DEF SessionInv, SessionKinds

(* The request at the head of the script.                                  *)
LEMMA HeadIs ==
  ASSUME SessionInv
  PROVE  /\ \A r : At(r) => script # <<>> /\ script[1][1] = r /\ 1 \in 1..Len(script)
         /\ Busy => script # <<>> /\ script[1][1] \in Requests
<1>1. script # <<>> => Head(script) = script[1] /\ 1 \in 1..Len(script)
  BY DEF SessionInv, SessionKinds
<1> QED
  BY <1>1 DEF At, Busy

LEMMA RequestFailsKeeps ==
  ASSUME SessionInv, RequestFails PROVE SessionInv'
<1> DEFINE tasks == <<>>
<1>1. /\ script # <<>> /\ script[1][1] \in Requests /\ Continue(tasks)
      /\ UNCHANGED <<form, button, state, previews, executed, faults>>
  BY HeadIs DEF RequestFails
<1>2. /\ tasks \in Seq(Tasks) /\ TasksFit(tasks, state, form.question, previews)
      /\ \A i \in 1..Len(tasks) : FALSE
  BY DEF TasksFit
<1> HIDE DEF tasks
<1>3. /\ script' \in Seq(Tasks) /\ InOrder(script', state)
      /\ TasksFit(script', state, form.question, previews)
  BY <1>1, <1>2, ContinueKeeps DEF SessionInv, SessionKinds
<1> QED
  BY <1>1, <1>3 DEF SessionInv, SessionKinds

LEMMA PageKeeps ==
  ASSUME SessionInv, Page PROVE SessionInv'
<1> DEFINE tasks == IF button = "approve" /\ state.pending # None THEN <<<<"/query/approved">>>> ELSE <<>>
<1>1. /\ script # <<>> /\ script[1][1] = "page" /\ Continue(tasks)
      /\ UNCHANGED <<form, button, state, previews, executed, faults>>
  BY HeadIs DEF Page
<1>2. tasks \in Seq(Tasks) /\ TasksFit(tasks, state, form.question, previews)
  BY WritesAreTasks DEF TasksFit, Requests
<1>3. \A i \in 1..Len(tasks) : /\ tasks[i][1] # "page" /\ i = Len(tasks) /\ i = 1
                               /\ state.pending # None
  OBVIOUS
<1> HIDE DEF tasks
<1>4. /\ script' \in Seq(Tasks) /\ InOrder(script', state)
      /\ TasksFit(script', state, form.question, previews)
  BY <1>1, <1>2, <1>3, ContinueKeeps DEF SessionInv, SessionKinds
<1> QED
  BY <1>1, <1>4 DEF SessionInv, SessionKinds

LEMMA ClarifyKeeps ==
  ASSUME SessionInv, Clarify PROVE SessionInv'
<1>1. /\ script # <<>> /\ script[1][1] \in Requests
      /\ UNCHANGED <<form, state, previews, executed, faults>>
  BY HeadIs DEF Clarify, Requests
<1>2. button' \in Buttons
  BY DEF Clarify, SessionInv, SessionKinds, Buttons
<1>3. CASE script' = <<Write("clarification", "asks"), Write("preview", 0),
                       Write("result", 0), Write("pending", None), <<"page">>>>
  <2>1. script' \in Seq(Tasks)
    <3>1. 0 \in 0..MaxPreviews
      BY BoundsAssumption
    <3>2. /\ Write("clarification", "asks") \in Tasks /\ Write("preview", 0) \in Tasks
          /\ Write("result", 0) \in Tasks /\ Write("pending", None) \in Tasks /\ <<"page">> \in Tasks
      BY <3>1, WritesAreTasks
    <3> QED
      BY <1>3, <3>2
  <2>2. Len(script') = 5 /\ \A i \in 1..5 : script'[i][1] \notin Requests /\ (script'[i][1] = "page" => i = 5)
    BY <1>3 DEF Write, Requests
  <2>3. \A i \in 1..5 : script'[i][1] = "pending" => script'[i][2] = None
    BY <1>3 DEF Write
  <2>4. InOrder(script', state) /\ TasksFit(script', state, form.question, previews)
    BY <2>2, <2>3 DEF InOrder, TasksFit, Requests
  <2> QED
    BY <1>1, <1>2, <2>1, <2>4 DEF SessionInv, SessionKinds
<1>4. CASE Continue(<<Write("clarification", "ready"), <<"/query/preview">>>>)
  <2> DEFINE tasks == <<Write("clarification", "ready"), <<"/query/preview">>>>
  <2>1. tasks \in Seq(Tasks)
    BY WritesAreTasks DEF Requests
  <2>2. /\ Len(tasks) = 2 /\ tasks[1][1] = "clarification" /\ tasks[2][1] = "/query/preview"
    BY DEF Write
  <2> HIDE DEF tasks
  <2>3. \A i \in 1..Len(tasks) : /\ tasks[i][1] \notin {"page", "/query/approved", "run", "pending"}
                                 /\ tasks[i][1] \in Requests => i = Len(tasks)
    BY <2>2 DEF Requests
  <2>4. TasksFit(tasks, state, form.question, previews)
    BY <2>3 DEF TasksFit
  <2>5. /\ script' \in Seq(Tasks) /\ InOrder(script', state)
        /\ TasksFit(script', state, form.question, previews)
    BY <1>1, <1>4, <2>1, <2>3, <2>4, ContinueKeeps DEF SessionInv, SessionKinds, tasks
  <2> QED
    BY <1>1, <1>2, <2>5 DEF SessionInv, SessionKinds
<1> QED
  BY <1>3, <1>4 DEF Clarify

(* After a response that stores nothing to execute: the run goes on with   *)
(* tasks that are writes which fit.                                        *)
LEMMA WritesKeep ==
  ASSUME SessionInv, script # <<>>, script[1][1] \in Requests, NEW tasks \in Seq(Tasks), Continue(tasks),
         \A i \in 1..Len(tasks) : /\ tasks[i][1] \in {"preview", "result", "pending"}
                                  /\ tasks[i][1] = "pending" => tasks[i][2] = None
  PROVE  /\ script' \in Seq(Tasks) /\ InOrder(script', state)
         /\ TasksFit(script', state, form.question, previews)
<1>1. \A i \in 1..Len(tasks) : tasks[i][1] \notin Requests \cup {"page"}
  BY DEF Requests
<1>2. TasksFit(tasks, state, form.question, previews)
  BY <1>1 DEF TasksFit, Requests
<1>3. \A i \in 1..Len(tasks) : tasks[i][1] # "/query/approved"
  BY <1>1 DEF Requests
<1> QED
  BY <1>1, <1>2, <1>3, ContinueKeeps DEF SessionInv, SessionKinds

LEMMA AfterExecutionWrites ==
  ASSUME NEW p \in 0..MaxPreviews
  PROVE  /\ AfterExecution(p) \in Seq(Tasks) /\ Len(AfterExecution(p)) = 2
         /\ AfterExecution(p)[1] = Write("result", p) /\ AfterExecution(p)[2] = Write("pending", None)
         /\ \A i \in 1..Len(AfterExecution(p)) :
              /\ AfterExecution(p)[i][1] \in {"preview", "result", "pending"}
              /\ AfterExecution(p)[i][1] = "pending" => AfterExecution(p)[i][2] = None
<1>1. Write("result", p) \in Tasks /\ Write("pending", None) \in Tasks
  BY WritesAreTasks
<1> QED
  BY <1>1 DEF AfterExecution, Write

(* The statement of the preview that is executed without approval fits.    *)
LEMMA RunIsPreviewed ==
  ASSUME SessionInv, At("run")
  PROVE  /\ script # <<>> /\ script[1][1] \in Requests /\ state.preview \in 0..MaxPreviews
         /\ Pending(form.question, state.preview) \in Statements
         /\ Fits(Pending(form.question, state.preview), previews)
<1>1. script # <<>> /\ script[1][1] = "run" /\ 1 \in 1..Len(script)
  BY HeadIs
<1>2. Fits(Pending(form.question, RunOf(script, state, 1)), previews)
  BY <1>1 DEF SessionInv, TasksFit
<1>3. Fits(Pending(form.question, state.preview), previews)
  BY <1>2 DEF RunOf
<1>4. state.preview \in 1..Len(previews) /\ Len(previews) \in Nat /\ Len(previews) <= MaxPreviews
  BY <1>3 DEF Fits, Pending, SessionInv, SessionKinds
<1>5. state.preview \in 1..MaxPreviews /\ form.question \in Questions
  BY <1>4, BoundsAssumption DEF SessionInv, SessionKinds, Forms
<1> QED
  BY <1>1, <1>3, <1>5 DEF Pending, Statements, Requests

LEMMA ApprovedIsPreviewed ==
  ASSUME SessionInv, At("/query/approved")
  PROVE  /\ script # <<>> /\ script[1][1] \in Requests /\ state.pending.sql \in 0..MaxPreviews
         /\ Approved \in Statements /\ Fits(Approved, previews)
         /\ Len(script) = 1
<1>1. script # <<>> /\ script[1][1] = "/query/approved" /\ 1 \in 1..Len(script)
  BY HeadIs
<1>2. state.pending # None /\ Len(script) = 1
  BY <1>1 DEF SessionInv, InOrder
<1>3. state.pending \in Statements /\ Fits(state.pending, previews)
  BY <1>2 DEF SessionInv, SessionKinds, Slots
<1> QED
  BY <1>1, <1>2, <1>3 DEF Approved, Statements, Requests

LEMMA RunKeeps ==
  ASSUME SessionInv, Run PROVE SessionInv'
<1>1. /\ At("run") /\ Continue(AfterExecution(state.preview))
      /\ UNCHANGED <<form, button, state, previews, faults>>
      /\ executed' = executed \/ executed' = Append(executed, Pending(form.question, state.preview))
  BY DEF Run
<1>2. /\ script' \in Seq(Tasks) /\ InOrder(script', state)
      /\ TasksFit(script', state, form.question, previews)
  BY <1>1, RunIsPreviewed, AfterExecutionWrites, WritesKeep
<1>3. executed' \in Seq(Statements) /\ \A i \in 1..Len(executed') : Fits(executed'[i], previews)
  BY <1>1, RunIsPreviewed, ExecutedGrow DEF SessionInv, SessionKinds
<1> QED
  BY <1>1, <1>2, <1>3 DEF SessionInv, SessionKinds

LEMMA ApproveKeeps ==
  ASSUME SessionInv, Approve PROVE SessionInv'
<1>1. /\ At("/query/approved") /\ Continue(AfterExecution(state.pending.sql))
      /\ UNCHANGED <<form, button, state, previews, faults>>
      /\ executed' = Append(executed, Approved)
  BY DEF Approve
<1>2. /\ script' \in Seq(Tasks) /\ InOrder(script', state)
      /\ TasksFit(script', state, form.question, previews)
  BY <1>1, ApprovedIsPreviewed, AfterExecutionWrites, WritesKeep
<1>3. executed' \in Seq(Statements) /\ \A i \in 1..Len(executed') : Fits(executed'[i], previews)
  BY <1>1, ApprovedIsPreviewed, ExecutedGrow DEF SessionInv, SessionKinds
<1> QED
  BY <1>1, <1>2, <1>3 DEF SessionInv, SessionKinds

LEMMA ResponseIsLostKeeps ==
  ASSUME SessionInv, ResponseIsLost PROVE SessionInv'
<1> DEFINE tasks == <<>>
<1>1. /\ Continue(tasks) /\ faults' \in 0..MaxFaults
      /\ UNCHANGED <<form, button, state, previews>>
  BY BoundsAssumption DEF ResponseIsLost, SessionInv, SessionKinds
<1>2. \/ At("/query/approved") /\ executed' = Append(executed, Approved)
      \/ At("run") /\ executed' = Append(executed, Pending(form.question, state.preview))
  BY DEF ResponseIsLost
<1>3. script # <<>> /\ script[1][1] \in Requests
  BY <1>2, RunIsPreviewed, ApprovedIsPreviewed
<1>4. tasks \in Seq(Tasks) /\ \A i \in 1..Len(tasks) : FALSE
  OBVIOUS
<1> HIDE DEF tasks
<1>5. /\ script' \in Seq(Tasks) /\ InOrder(script', state)
      /\ TasksFit(script', state, form.question, previews)
  BY <1>1, <1>3, <1>4, WritesKeep
<1>6. executed' \in Seq(Statements) /\ \A i \in 1..Len(executed') : Fits(executed'[i], previews)
  BY <1>2, RunIsPreviewed, ApprovedIsPreviewed, ExecutedGrow DEF SessionInv, SessionKinds
<1> QED
  BY <1>1, <1>5, <1>6 DEF SessionInv, SessionKinds

(* What a preview p goes on with, in its three cases.                      *)
LEMMA PreviewTasks ==
  ASSUME SessionKinds, NEW p \in 1..MaxPreviews, NEW whole \in BOOLEAN
  PROVE  LET tasks == <<Write("preview", p)>> \o AfterPreview(p, whole)
             s == Pending(form.question, p)
         IN  /\ tasks \in Seq(Tasks) /\ Len(tasks) \in {2, 3} /\ tasks[1] = Write("preview", p)
             /\ \/ Len(tasks) = 3
                   /\ tasks[2] = Write("result", 0) /\ tasks[3] = Write("pending", None)
                \/ whole = TRUE /\ Len(tasks) = 3
                   /\ tasks[2] = Write("pending", s) /\ tasks[3] = Write("result", 0)
                \/ whole = TRUE /\ Len(tasks) = 2 /\ tasks[2] = <<"run">>
<1> DEFINE first == <<Write("preview", p)>>
           rest == AfterPreview(p, whole)
           s == Pending(form.question, p)
           tasks == first \o rest
<1>1. /\ Write("preview", p) \in Tasks /\ Write("result", 0) \in Tasks
      /\ Write("pending", None) \in Tasks /\ Write("pending", s) \in Tasks /\ <<"run">> \in Tasks
  <2>1. p \in 0..MaxPreviews /\ 0 \in 0..MaxPreviews
    BY BoundsAssumption
  <2>2. s \in Statements
    BY DEF Pending, Statements, SessionKinds, Forms
  <2> QED
    BY <2>1, <2>2, WritesAreTasks DEF Requests
<1>2. first \in Seq(Tasks) /\ Len(first) = 1 /\ first[1] = Write("preview", p)
  BY <1>1
<1>3. /\ rest \in Seq(Tasks)
      /\ \/ Len(rest) = 2 /\ rest[1] = Write("result", 0) /\ rest[2] = Write("pending", None)
         \/ whole = TRUE /\ Len(rest) = 2 /\ rest[1] = Write("pending", s) /\ rest[2] = Write("result", 0)
         \/ whole = TRUE /\ Len(rest) = 1 /\ rest[1] = <<"run">>
  BY <1>1 DEF AfterPreview
<1> HIDE DEF first, rest, s
<1>4. /\ tasks \in Seq(Tasks) /\ Len(tasks) = 1 + Len(rest)
      /\ \A i \in 1..(1 + Len(rest)) : tasks[i] = IF i <= 1 THEN first[i] ELSE rest[i - 1]
  BY <1>2, <1>3, ConcatProperties
<1> HIDE DEF tasks
<1>5. Len(tasks) \in {2, 3} /\ tasks[1] = Write("preview", p)
      /\ tasks[2] = rest[1] /\ (Len(rest) = 2 => tasks[3] = rest[2])
  BY SMTT(20), <1>2, <1>3, <1>4
<1>6. /\ tasks \in Seq(Tasks) /\ Len(tasks) \in {2, 3} /\ tasks[1] = Write("preview", p)
      /\ \/ Len(tasks) = 3
            /\ tasks[2] = Write("result", 0) /\ tasks[3] = Write("pending", None)
         \/ whole = TRUE /\ Len(tasks) = 3
            /\ tasks[2] = Write("pending", s) /\ tasks[3] = Write("result", 0)
         \/ whole = TRUE /\ Len(tasks) = 2 /\ tasks[2] = <<"run">>
  BY <1>3, <1>4, <1>5
<1> QED
  BY <1>6 DEF tasks, first, rest, s

LEMMA PreviewKeeps ==
  ASSUME SessionInv, Preview PROVE SessionInv'
<1>1. PICK whole \in BOOLEAN :
        /\ previews' = Append(previews, [question |-> form.question, ready |-> whole])
        /\ Continue(<<Write("preview", Len(previews) + 1)>> \o AfterPreview(Len(previews) + 1, whole))
  BY DEF Preview
<1>2. /\ script # <<>> /\ script[1][1] \in Requests /\ Len(previews) < MaxPreviews
      /\ UNCHANGED <<form, button, state, executed, faults>>
  BY HeadIs DEF Preview, Requests
<1> DEFINE p == Len(previews) + 1
           made == [question |-> form.question, ready |-> whole]
           tasks == <<Write("preview", p)>> \o AfterPreview(p, whole)
           s == Pending(form.question, p)
<1>3. p \in 1..MaxPreviews /\ made \in Made
  BY <1>2, BoundsAssumption DEF SessionInv, SessionKinds, Made, Forms
<1>4. /\ previews' \in Seq(Made) /\ Len(previews') = p /\ previews'[p] = made
      /\ \A v : Fits(v, previews) => Fits(v, previews')
  BY <1>1, <1>3, FitsGrow DEF SessionInv, SessionKinds
<1>5. whole = TRUE => Fits(s, previews')
  BY <1>3, <1>4 DEF Fits, Pending
<1>6. /\ tasks \in Seq(Tasks) /\ Len(tasks) \in {2, 3} /\ tasks[1] = Write("preview", p)
      /\ \/ Len(tasks) = 3
            /\ tasks[2] = Write("result", 0) /\ tasks[3] = Write("pending", None)
         \/ whole = TRUE /\ Len(tasks) = 3
            /\ tasks[2] = Write("pending", s) /\ tasks[3] = Write("result", 0)
         \/ whole = TRUE /\ Len(tasks) = 2 /\ tasks[2] = <<"run">>
  BY <1>3, PreviewTasks DEF SessionInv
<1> HIDE DEF tasks, s
<1>7. /\ tasks[1][1] = "preview" /\ tasks[1][2] = p
      /\ \A i \in 1..Len(tasks) :
           /\ tasks[i][1] \in {"preview", "result", "pending", "run"}
           /\ tasks[i][1] \in Requests => i = Len(tasks)
           /\ tasks[i][1] = "run" => i = 2 /\ whole = TRUE
           /\ tasks[i][1] = "pending" => tasks[i][2] = None \/ (tasks[i][2] = s /\ whole = TRUE)
  <2>1. \A i \in 1..Len(tasks) : i \in {1, 2} \/ (i = 3 /\ Len(tasks) = 3)
    <3> DEFINE n == Len(tasks)
    <3>1. n \in {2, 3}
      BY <1>6
    <3> HIDE DEF n
    <3>2. \A i \in 1..n : i \in {1, 2} \/ (i = 3 /\ n = 3)
      BY <3>1
    <3> QED
      BY <3>2 DEF n
  <2>2. /\ tasks[1][1] = "preview" /\ tasks[1][2] = p
        /\ \/ /\ Len(tasks) = 3 /\ tasks[2][1] = "result"
              /\ tasks[3][1] = "pending" /\ tasks[3][2] = None
           \/ /\ whole = TRUE /\ Len(tasks) = 3 /\ tasks[2][1] = "pending" /\ tasks[2][2] = s
              /\ tasks[3][1] = "result"
           \/ whole = TRUE /\ Len(tasks) = 2 /\ tasks[2][1] = "run"
    BY <1>6 DEF Write
  <2>3. \A i \in 1..Len(tasks) :
          /\ tasks[i][1] \in {"preview", "result", "pending", "run"}
          /\ tasks[i][1] = "run" => i = 2 /\ Len(tasks) = 2 /\ whole = TRUE
          /\ tasks[i][1] = "pending" => tasks[i][2] = None \/ (tasks[i][2] = s /\ whole = TRUE)
    BY <2>1, <2>2
  <2>4. ASSUME NEW i \in 1..Len(tasks), tasks[i][1] \in Requests PROVE i = Len(tasks)
    <3>1. tasks[i][1] \in {"preview", "result", "pending", "run"}
      BY <2>3, <2>4
    <3>2. tasks[i][1] = "run"
      BY <2>4, <3>1 DEF Requests
    <3>3. i = 2 /\ Len(tasks) = 2
      BY <2>3, <2>4, <3>2
    <3> QED
      BY <3>3
  <2> QED
    BY <2>2, <2>3, <2>4
<1>8. TasksFit(tasks, state, form.question, previews')
  <2> SUFFICES ASSUME NEW i \in 1..Len(tasks)
               PROVE  /\ tasks[i][1] = "run" =>
                           /\ i = 1 \/ (i = 2 /\ tasks[1][1] = "preview")
                           /\ Fits(Pending(form.question, RunOf(tasks, state, i)), previews')
                      /\ tasks[i][1] = "pending" => tasks[i][2] = None \/ Fits(tasks[i][2], previews')
    BY DEF TasksFit
  <2>1. tasks[i][1] = "run" => i = 2 /\ whole = TRUE /\ RunOf(tasks, state, i) = p
    BY <1>7 DEF RunOf
  <2> QED
    BY <1>5, <1>7, <2>1 DEF s
<1>9. \A i \in 1..Len(tasks) : tasks[i][1] \notin {"page", "/query/approved"}
  BY <1>7
<1>10. /\ script' \in Seq(Tasks) /\ InOrder(script', state)
       /\ TasksFit(script', state, form.question, previews')
  BY <1>1, <1>2, <1>6, <1>7, <1>8, <1>9, ContinueKeeps DEF SessionInv, SessionKinds, tasks
<1> QED
  BY <1>2, <1>3, <1>4, <1>10 DEF SessionInv, SessionKinds

LEMMA AssignKeeps ==
  ASSUME SessionInv, Assign PROVE SessionInv'
<1> DEFINE t == script[1]
           none == <<>>
<1>1. script \in Seq(Tasks) /\ script # <<>> /\ Head(script) = t /\ t \in Tasks /\ 1 \in 1..Len(script)
  BY DEF Assign, SessionInv, SessionKinds
<1>2. /\ t[1] \in {"clarification", "preview", "pending", "result"}
      /\ state' = [state EXCEPT ![t[1]] = t[2]] /\ Continue(none)
      /\ UNCHANGED <<form, button, previews, executed, faults>>
  BY <1>1 DEF Assign, SessionInv, SessionKinds, Slots
<1>3. none \in Seq(Tasks) /\ Len(none) = 0
  OBVIOUS
<1> HIDE DEF t, none
<1>4. state' \in Slots
  BY <1>1, <1>2, TaskKinds DEF SessionInv, SessionKinds, Slots
<1>5. /\ state'.preview = IF t[1] = "preview" THEN t[2] ELSE state.preview
      /\ state'.pending = IF t[1] = "pending" THEN t[2] ELSE state.pending
  BY <1>2 DEF SessionInv, SessionKinds, Slots
<1>6. /\ script' \in Seq(Tasks) /\ Len(script') = Len(script) - 1
      /\ \A i \in 1..Len(script') : i + 1 \in 1..Len(script) /\ script'[i] = script[i + 1]
  <2>1. /\ script' \in Seq(Tasks) /\ Len(script') = Len(none) + Len(script) - 1
        /\ \A i \in 1..Len(script') :
             script'[i] = IF i <= Len(none) THEN none[i] ELSE script[i - Len(none) + 1]
    BY <1>1, <1>2, <1>3, ContinueSteps
  <2>2. Len(script) \in Nat /\ Len(script') \in Nat
    BY <1>1, <2>1
  <2> QED
    BY <1>3, <2>1, <2>2
<1>7. state'.pending = None \/ Fits(state'.pending, previews)
  BY <1>1, <1>5 DEF SessionInv, TasksFit, t
<1>8. ASSUME NEW i \in 1..Len(script'), script'[i][1] = "run"
      PROVE  i = 1 /\ t[1] = "preview" /\ Fits(Pending(form.question, t[2]), previews)
  <2>1. i + 1 \in 1..Len(script) /\ script[i + 1][1] = "run" /\ i + 1 # 1
    BY <1>6, <1>8
  <2>2. /\ i + 1 = 2 /\ script[1][1] = "preview"
        /\ Fits(Pending(form.question, RunOf(script, state, i + 1)), previews)
    BY <2>1 DEF SessionInv, TasksFit
  <2> QED
    BY <2>1, <2>2 DEF RunOf, t
<1>9. TasksFit(script', state', form.question, previews)
  <2>1. ASSUME NEW i \in 1..Len(script'), script'[i][1] = "pending"
        PROVE  script'[i][2] = None \/ Fits(script'[i][2], previews)
    BY <1>6, <2>1 DEF SessionInv, TasksFit
  <2> QED
    BY <1>5, <1>8, <2>1 DEF TasksFit, RunOf
<1>10. InOrder(script', state')
  <2> SUFFICES ASSUME NEW i \in 1..Len(script')
               PROVE  /\ script'[i][1] = "page" => i = Len(script')
                      /\ script'[i][1] \in Requests =>
                           \A j \in (i + 1)..Len(script') : script'[j][1] = "page"
                      /\ script'[i][1] # "/query/approved"
    BY DEF InOrder
  <2>1. Len(script) \in Nat /\ Len(script') = Len(script) - 1 /\ script'[i] = script[i + 1]
        /\ i + 1 \in 1..Len(script) /\ i + 1 # 1
    BY <1>1, <1>6
  <2>2. /\ script[i + 1][1] = "page" => i + 1 = Len(script)
        /\ script[i + 1][1] \in Requests => \A j \in ((i + 1) + 1)..Len(script) : script[j][1] = "page"
        /\ script[i + 1][1] # "/query/approved"
    BY <2>1 DEF SessionInv, InOrder
  <2>3. ASSUME script'[i][1] \in Requests, NEW j \in (i + 1)..Len(script')
        PROVE  script'[j][1] = "page"
    <3>1. j \in 1..Len(script') /\ j + 1 \in ((i + 1) + 1)..Len(script)
      BY <2>1
    <3> QED
      BY <1>6, <2>1, <2>2, <2>3, <3>1
  <2>4. script'[i][1] = "page" => i = Len(script')
    BY <2>1, <2>2
  <2> QED
    BY <2>1, <2>2, <2>3, <2>4
<1> QED
  BY <1>2, <1>4, <1>6, <1>7, <1>9, <1>10 DEF SessionInv, SessionKinds

LEMMA SessionInvHolds == Spec => []SessionInv
<1>1. Init => SessionInv
  <2> SUFFICES ASSUME Init PROVE SessionInv
    OBVIOUS
  <2>1. /\ form \in [question : Questions, approval : {TRUE}, streaming : {TRUE}]
        /\ button = "none" /\ script = <<>> /\ previews = <<>> /\ executed = <<>> /\ faults = 0
        /\ state = [clarification |-> "none", preview |-> 0, pending |-> None, result |-> 0]
    BY DEF Init
  <2>2. form \in Forms
    BY <2>1 DEF Forms
  <2>3. 0 \in 0..MaxPreviews /\ 0 \in 0..MaxFaults
    BY BoundsAssumption
  <2>4. state \in Slots
    BY <2>1, <2>3 DEF Slots
  <2>5. SessionKinds
    BY <2>1, <2>2, <2>3, <2>4, BoundsAssumption DEF SessionKinds, Buttons
  <2> QED
    BY <2>1, <2>5 DEF SessionInv, InOrder, TasksFit
<1>2. SessionInv /\ [Next]_vars => SessionInv'
  <2> SUFFICES ASSUME SessionInv, [Next]_vars PROVE SessionInv'
    OBVIOUS
  <2>1. CASE UNCHANGED vars
    BY <2>1 DEF vars, SessionInv, SessionKinds, InOrder, TasksFit, Fits, RunOf
  <2>2. CASE Next
    BY <2>2, InteractKeeps, AssignKeeps, RequestFailsKeeps, ResponseIsLostKeeps, PageKeeps,
       ClarifyKeeps, PreviewKeeps, RunKeeps, ApproveKeeps DEF Next
  <2> QED
    BY <2>1, <2>2
<1> QED
  BY <1>1, <1>2, PTL DEF Spec

(* Every variable of the session holds values of its kind (main).          *)
THEOREM SessionTypes == Spec => []TypeOK
<1>1. SessionInv => TypeOK
  <2> SUFFICES ASSUME SessionInv PROVE TypeOK
    OBVIOUS
  <2>1. DOMAIN state = {"clarification", "preview", "pending", "result"}
    BY DEF SessionInv, SessionKinds, Slots
  <2>2. \A i \in 1..Len(script) : script[i] \in Tasks
    BY DEF SessionInv, SessionKinds
  <2>3. \A i \in 1..Len(script) : script[i][1] \in Requests \cup {"page"} \cup DOMAIN state
    BY <2>1, <2>2, TaskKinds
  <2> QED
    BY <2>3 DEF SessionInv, SessionKinds, Slots, Made, TypeOK
<1> QED
  BY <1>1, SessionInvHolds, PTL

(* What is sent for execution, by whatever path of interactions, is the    *)
(* SQL of a preview that was ready, with the question it was made for      *)
(* (preview_question, execute_approved_question, main).                    *)
THEOREM OnlyPreviewsAreExecuted == Spec => []ExecutedWasPreviewed
<1>1. SessionInv => ExecutedWasPreviewed
  BY DEF SessionInv, ExecutedWasPreviewed, Fits
<1> QED
  BY <1>1, SessionInvHolds, PTL

(* p can be executed without a fault: it is about to be put down as        *)
(* pending, or to be run, or it is pending and will stay so.               *)
Live(p, tasks, slots) ==
  \/ \E i \in 1..Len(tasks) : tasks[i][1] = "pending" /\ tasks[i][2] # None /\ tasks[i][2].sql = p
  \/ \E i \in 1..Len(tasks) : tasks[i][1] = "run" /\ p = RunOf(tasks, slots, i)
  \/ /\ slots.pending # None /\ slots.pending.sql = p
     /\ \A i \in 1..Len(tasks) : tasks[i][1] # "pending"

Executions(p, done) == {i \in 1..Len(done) : done[i].sql = p}

(* A statement that is executed is not live any more: only a fault makes   *)
(* it so again.                                                            *)
OnceInv ==
  \A p \in 1..Len(previews) :
    \/ Cardinality(Executions(p, executed)) <= faults
    \/ Cardinality(Executions(p, executed)) <= 1 + faults /\ ~Live(p, script, state)

LEMMA ExecutionsType ==
  ASSUME NEW done \in Seq(Statements), NEW p
  PROVE  IsFiniteSet(Executions(p, done)) /\ Cardinality(Executions(p, done)) \in Nat
<1>1. IsFiniteSet(1..Len(done))
  BY FS_Interval
<1>2. Executions(p, done) \subseteq 1..Len(done)
  BY DEF Executions
<1> QED
  BY <1>1, <1>2, FS_Subset, FS_CardinalityType

LEMMA ExecutionsGrow ==
  ASSUME NEW done \in Seq(Statements), NEW s \in Statements, NEW p
  PROVE  Cardinality(Executions(p, Append(done, s))) =
           IF s.sql = p THEN Cardinality(Executions(p, done)) + 1 ELSE Cardinality(Executions(p, done))
<1> DEFINE all == Append(done, s)
           n == Len(done)
<1>1. /\ Len(all) = n + 1 /\ all[n + 1] = s /\ n \in Nat
      /\ \A i \in 1..n : all[i] = done[i]
  BY AppendProperties
<1> HIDE DEF all
<1>2. Executions(p, all) = IF s.sql = p THEN Executions(p, done) \cup {n + 1} ELSE Executions(p, done)
  BY <1>1 DEF Executions
<1>3. n + 1 \notin Executions(p, done)
  BY <1>1 DEF Executions
<1> QED
  BY <1>2, <1>3, ExecutionsType, FS_AddElement DEF all

LEMMA QuietStep ==
  ASSUME OnceInv, UNCHANGED <<previews, executed, faults>>,
         \A p \in 1..Len(previews) : Live(p, script', state') => Live(p, script, state)
  PROVE  OnceInv'
  BY DEF OnceInv

LEMMA FaultStep ==
  ASSUME SessionInv, OnceInv, UNCHANGED previews, faults' = faults + 1,
         \/ UNCHANGED executed
         \/ \E s \in Statements : Live(s.sql, script, state) /\ executed' = Append(executed, s)
  PROVE  OnceInv'
<1> SUFFICES ASSUME NEW p \in 1..Len(previews)
             PROVE  Cardinality(Executions(p, executed')) <= faults'
  BY DEF OnceInv
<1>1. executed \in Seq(Statements) /\ faults \in Nat
  BY BoundsAssumption DEF SessionInv, SessionKinds
<1>2. Cardinality(Executions(p, executed)) \in Nat
  BY <1>1, ExecutionsType
<1>3. CASE UNCHANGED executed
  BY <1>1, <1>2, <1>3 DEF OnceInv
<1>4. ASSUME NEW s \in Statements, Live(s.sql, script, state), executed' = Append(executed, s)
      PROVE  Cardinality(Executions(p, executed')) <= faults'
  <2>1. Cardinality(Executions(p, executed')) =
          IF s.sql = p THEN Cardinality(Executions(p, executed)) + 1 ELSE Cardinality(Executions(p, executed))
    BY <1>1, <1>4, ExecutionsGrow
  <2>2. s.sql = p => Cardinality(Executions(p, executed)) <= faults
    BY <1>4 DEF OnceInv
  <2> QED
    BY <1>1, <1>2, <2>1, <2>2 DEF OnceInv
<1> QED
  BY <1>3, <1>4

(* What executes what was live, and leaves nothing live.                   *)
LEMMA LastStep ==
  ASSUME SessionInv, OnceInv, UNCHANGED <<previews, faults>>,
         \/ UNCHANGED executed
         \/ \E s \in Statements : Live(s.sql, script, state) /\ executed' = Append(executed, s),
         \A p \in 1..Len(previews) : ~Live(p, script', state')
  PROVE  OnceInv'
<1> SUFFICES ASSUME NEW p \in 1..Len(previews)
             PROVE  Cardinality(Executions(p, executed')) <= 1 + faults
  BY DEF OnceInv
<1>1. executed \in Seq(Statements) /\ faults \in Nat
  BY BoundsAssumption DEF SessionInv, SessionKinds
<1>2. Cardinality(Executions(p, executed)) \in Nat
  BY <1>1, ExecutionsType
<1>3. CASE UNCHANGED executed
  BY <1>1, <1>2, <1>3 DEF OnceInv
<1>4. ASSUME NEW s \in Statements, Live(s.sql, script, state), executed' = Append(executed, s)
      PROVE  Cardinality(Executions(p, executed')) <= 1 + faults
  <2>1. Cardinality(Executions(p, executed')) =
          IF s.sql = p THEN Cardinality(Executions(p, executed)) + 1 ELSE Cardinality(Executions(p, executed))
    BY <1>1, <1>4, ExecutionsGrow
  <2>2. s.sql = p => Cardinality(Executions(p, executed)) <= faults
    BY <1>4 DEF OnceInv
  <2> QED
    BY <1>1, <1>2, <2>1, <2>2 DEF OnceInv
<1> QED
  BY <1>3, <1>4

(* The tasks of the script after a response.                               *)
LEMMA AfterResponse ==
  ASSUME SessionInv, script # <<>>, script[1][1] \in Requests \cup {"page"},
         NEW tasks \in Seq(Tasks), Continue(tasks)
  PROVE  /\ \A i \in 1..Len(tasks) : i \in 1..Len(script') /\ script'[i] = tasks[i]
         /\ \A i \in 1..Len(script') : (i \in 1..Len(tasks) /\ script'[i] = tasks[i]) \/ script'[i][1] = "page"
         /\ \A i \in 1..Len(script) : script[i][1] \in Requests \cup {"page"}
<1> DEFINE m == Len(tasks)
           n == Len(script')
<1>1. /\ n = m \/ (n = m + 1 /\ script'[n][1] = "page")
      /\ \A i \in 1..m : script'[i] = tasks[i]
      /\ \A i \in 1..Len(script) : i > 1 => script[i][1] = "page"
  BY ContinueAtEnd DEF SessionInv, SessionKinds
<1>2. m \in Nat
  OBVIOUS
<1>3. \A i \in 1..Len(script) : i = 1 \/ i > 1
  OBVIOUS
<1>4. \A i \in 1..Len(script) : script[i][1] \in Requests \cup {"page"}
  BY <1>1, <1>3
<1> HIDE DEF m, n
<1>5. /\ \A i \in 1..m : i \in 1..n /\ script'[i] = tasks[i]
      /\ \A i \in 1..n : (i \in 1..m /\ script'[i] = tasks[i]) \/ script'[i][1] = "page"
  BY <1>1, <1>2
<1> QED
  BY <1>4, <1>5 DEF m, n

(* Where nothing is executed or put down as pending, nothing gets live.    *)
LEMMA StaysQuiet ==
  ASSUME SessionInv, script # <<>>, script[1][1] \in Requests \cup {"page"},
         NEW tasks \in Seq(Tasks), Continue(tasks),
         \A i \in 1..Len(tasks) : tasks[i][1] \notin {"run", "pending"},
         UNCHANGED state
  PROVE  \A p : Live(p, script', state') => Live(p, script, state)
<1>1. \A i \in 1..Len(script') : script'[i][1] \notin {"run", "pending"}
  BY AfterResponse
<1>2. \A i \in 1..Len(script) : script[i][1] # "pending"
  BY AfterResponse DEF Requests
<1> QED
  BY <1>1, <1>2 DEF Live

(* Once the approval is about to be cleared, nothing is live.              *)
LEMMA ClearedIsDead ==
  ASSUME NEW tasks, NEW slots,
         \A i \in 1..Len(tasks) :
           tasks[i][1] # "run" /\ (tasks[i][1] = "pending" => tasks[i][2] = None),
         \E i \in 1..Len(tasks) : tasks[i][1] = "pending"
  PROVE  \A p : ~Live(p, tasks, slots)
  BY DEF Live

LEMMA AfterExecutionIsDead ==
  ASSUME SessionInv, script # <<>>, script[1][1] \in Requests \cup {"page"},
         NEW q \in 0..MaxPreviews, Continue(AfterExecution(q))
  PROVE  \A p : ~Live(p, script', state')
<1> DEFINE tasks == AfterExecution(q)
<1>1. /\ tasks \in Seq(Tasks) /\ Len(tasks) = 2
      /\ tasks[1] = Write("result", q) /\ tasks[2] = Write("pending", None)
  BY AfterExecutionWrites
<1> HIDE DEF tasks
<1>2. /\ \A i \in 1..Len(tasks) : i \in 1..Len(script') /\ script'[i] = tasks[i]
      /\ \A i \in 1..Len(script') : (i \in 1..Len(tasks) /\ script'[i] = tasks[i]) \/ script'[i][1] = "page"
  BY <1>1, AfterResponse DEF tasks
<1>3. /\ \A i \in 1..Len(tasks) : i = 1 \/ i = 2
      /\ tasks[1][1] = "result" /\ tasks[2][1] = "pending" /\ tasks[2][2] = None
      /\ 2 \in 1..Len(tasks)
  BY <1>1 DEF Write
<1>4. \E i \in 1..Len(script') : script'[i][1] = "pending"
  BY <1>2, <1>3
<1>5. \A i \in 1..Len(script') :
        script'[i][1] # "run" /\ (script'[i][1] = "pending" => script'[i][2] = None)
  BY <1>2, <1>3
<1> QED
  BY <1>4, <1>5, ClearedIsDead

(* What a request executes was live.                                       *)
LEMMA RequestsAreLive ==
  ASSUME SessionInv
  PROVE  /\ At("run") => Live(Pending(form.question, state.preview).sql, script, state)
         /\ At("/query/approved") => Live(Approved.sql, script, state)
<1>1. ASSUME At("run") PROVE Live(Pending(form.question, state.preview).sql, script, state)
  <2>1. 1 \in 1..Len(script) /\ script[1][1] = "run"
    BY <1>1, HeadIs
  <2>2. Pending(form.question, state.preview).sql = RunOf(script, state, 1)
    BY DEF Pending, RunOf
  <2> QED
    BY <2>1, <2>2 DEF Live
<1>2. ASSUME At("/query/approved") PROVE Live(Approved.sql, script, state)
  <2>1. 1 \in 1..Len(script) /\ script[1][1] = "/query/approved"
    BY <1>2, HeadIs
  <2>2. state.pending # None /\ Len(script) = 1
    BY <2>1 DEF SessionInv, InOrder
  <2>3. \A i \in 1..Len(script) : script[i][1] # "pending"
    BY <2>1, <2>2
  <2> QED
    BY <2>2, <2>3 DEF Live, Approved
<1> QED
  BY <1>1, <1>2

LEMMA InteractOnce ==
  ASSUME SessionInv, OnceInv, NEW f \in Forms, NEW b \in Buttons, Interact(f, b)
  PROVE  OnceInv'
<1>1. UNCHANGED <<state, previews, executed>>
  BY DEF Interact
<1>2. CASE script # <<>>
  <2>1. faults' = faults + 1
    BY <1>2 DEF Interact
  <2> QED
    BY <1>1, <2>1, FaultStep
<1>3. CASE script = <<>>
  <2>1. faults' = faults
    BY <1>3 DEF Interact
  <2>2. \A i \in 1..Len(script') : script'[i][1] \notin {"run", "pending"}
    BY DEF Interact
  <2>3. \A i \in 1..Len(script) : FALSE
    BY <1>3
  <2>4. \A p : Live(p, script', state') => Live(p, script, state)
    BY <1>1, <2>2, <2>3 DEF Live
  <2> QED
    BY <1>1, <2>1, <2>4, QuietStep
<1> QED
  BY <1>2, <1>3

LEMMA QuietOnce ==
  ASSUME SessionInv, OnceInv, RequestFails \/ Page PROVE OnceInv'
<1> DEFINE none == <<>>
           ask == <<<<"/query/approved">>>>
<1>1. /\ script # <<>> /\ script[1][1] \in Requests \cup {"page"}
      /\ Continue(none) \/ Continue(ask)
      /\ UNCHANGED <<state, previews, executed, faults>>
  BY HeadIs DEF RequestFails, Page
<1>2. /\ none \in Seq(Tasks) /\ \A i \in 1..Len(none) : none[i][1] \notin {"run", "pending"}
      /\ ask \in Seq(Tasks) /\ \A i \in 1..Len(ask) : ask[i][1] \notin {"run", "pending"}
  BY WritesAreTasks DEF Requests
<1> HIDE DEF none, ask
<1>3. \A p : Live(p, script', state') => Live(p, script, state)
  BY <1>1, <1>2, StaysQuiet
<1> QED
  BY <1>1, <1>3, QuietStep

LEMMA ClarifyOnce ==
  ASSUME SessionInv, OnceInv, Clarify PROVE OnceInv'
<1>1. /\ script # <<>> /\ script[1][1] \in Requests
      /\ UNCHANGED <<state, previews, executed, faults>>
  BY HeadIs DEF Clarify, Requests
<1>2. CASE script' = <<Write("clarification", "asks"), Write("preview", 0),
                       Write("result", 0), Write("pending", None), <<"page">>>>
  <2>1. /\ Len(script') = 5 /\ 4 \in 1..5
        /\ script'[4][1] = "pending"
        /\ \A i \in 1..5 : script'[i][1] # "run" /\ (script'[i][1] = "pending" => script'[i][2] = None)
    BY <1>2 DEF Write
  <2>2. \A p : ~Live(p, script', state')
    BY <2>1, ClearedIsDead
  <2> QED
    BY <1>1, <2>2, LastStep
<1>3. CASE Continue(<<Write("clarification", "ready"), <<"/query/preview">>>>)
  <2> DEFINE tasks == <<Write("clarification", "ready"), <<"/query/preview">>>>
  <2>1. tasks \in Seq(Tasks) /\ \A i \in 1..Len(tasks) : tasks[i][1] \notin {"run", "pending"}
    BY WritesAreTasks DEF Requests, Write
  <2>2. Continue(tasks)
    BY <1>3
  <2> HIDE DEF tasks
  <2>3. \A p : Live(p, script', state') => Live(p, script, state)
    BY <1>1, <2>1, <2>2, StaysQuiet
  <2> QED
    BY <1>1, <2>3, QuietStep
<1> QED
  BY <1>2, <1>3 DEF Clarify

LEMMA ExecuteOnce ==
  ASSUME SessionInv, OnceInv, Run \/ Approve PROVE OnceInv'
<1>1. CASE Run
  <2>1. /\ At("run") /\ Continue(AfterExecution(state.preview))
        /\ UNCHANGED <<state, previews, faults>>
        /\ executed' = executed \/ executed' = Append(executed, Pending(form.question, state.preview))
    BY <1>1 DEF Run
  <2>2. \A p : ~Live(p, script', state')
    BY <2>1, RunIsPreviewed, AfterExecutionIsDead
  <2> QED
    BY <2>1, <2>2, RunIsPreviewed, RequestsAreLive, LastStep
<1>2. CASE Approve
  <2>1. /\ At("/query/approved") /\ Continue(AfterExecution(state.pending.sql))
        /\ UNCHANGED <<state, previews, faults>>
        /\ executed' = Append(executed, Approved)
    BY <1>2 DEF Approve
  <2>2. \A p : ~Live(p, script', state')
    BY <2>1, ApprovedIsPreviewed, AfterExecutionIsDead
  <2> QED
    BY <2>1, <2>2, ApprovedIsPreviewed, RequestsAreLive, LastStep
<1> QED
  BY <1>1, <1>2

LEMMA ResponseIsLostOnce ==
  ASSUME SessionInv, OnceInv, ResponseIsLost PROVE OnceInv'
<1>1. UNCHANGED previews /\ faults' = faults + 1
  BY DEF ResponseIsLost
<1>2. \/ At("/query/approved") /\ executed' = Append(executed, Approved)
      \/ At("run") /\ executed' = Append(executed, Pending(form.question, state.preview))
  BY DEF ResponseIsLost
<1>3. \E s \in Statements : Live(s.sql, script, state) /\ executed' = Append(executed, s)
  BY <1>2, RunIsPreviewed, ApprovedIsPreviewed, RequestsAreLive
<1> QED
  BY <1>1, <1>3, FaultStep

(* What a run writes was live already.                                     *)
LEMMA AssignOnce ==
  ASSUME SessionInv, OnceInv, Assign PROVE OnceInv'
<1> DEFINE t == script[1]
           none == <<>>
<1>1. script \in Seq(Tasks) /\ script # <<>> /\ Head(script) = t /\ t \in Tasks /\ 1 \in 1..Len(script)
  BY DEF Assign, SessionInv, SessionKinds
<1>2. /\ t[1] \in {"clarification", "preview", "pending", "result"}
      /\ state' = [state EXCEPT ![t[1]] = t[2]] /\ Continue(none)
      /\ UNCHANGED <<previews, executed, faults>>
  BY <1>1 DEF Assign, SessionInv, SessionKinds, Slots
<1>3. none \in Seq(Tasks) /\ Len(none) = 0
  OBVIOUS
<1> HIDE DEF none
<1>4. /\ state'.preview = IF t[1] = "preview" THEN t[2] ELSE state.preview
      /\ state'.pending = IF t[1] = "pending" THEN t[2] ELSE state.pending
  BY <1>2 DEF SessionInv, SessionKinds, Slots
<1>5. /\ \A i \in 1..Len(script') : i + 1 \in 1..Len(script) /\ script'[i] = script[i + 1]
      /\ \A i \in 1..Len(script) : i = 1 \/ (i - 1 \in 1..Len(script') /\ script'[i - 1] = script[i])
  <2>1. /\ script' \in Seq(Tasks) /\ Len(script') = Len(none) + Len(script) - 1
        /\ \A i \in 1..Len(script') :
             script'[i] = IF i <= Len(none) THEN none[i] ELSE script[i - Len(none) + 1]
    BY <1>1, <1>2, <1>3, ContinueSteps
  <2>2. Len(script) \in Nat /\ Len(script') \in Nat /\ Len(script') = Len(script) - 1
    BY <1>1, <1>3, <2>1
  <2>3. \A i \in 1..Len(script') : i + 1 \in 1..Len(script) /\ script'[i] = script[i + 1]
    BY <1>3, <2>1, <2>2
  <2> QED
    BY <2>2, <2>3
<1>6. ASSUME NEW p, Live(p, script', state') PROVE Live(p, script, state)
  <2>1. CASE \E i \in 1..Len(script') :
               script'[i][1] = "pending" /\ script'[i][2] # None /\ script'[i][2].sql = p
    BY <1>5, <2>1 DEF Live
  <2>2. CASE \E i \in 1..Len(script') : script'[i][1] = "run" /\ p = RunOf(script', state', i)
    <3>1. PICK i \in 1..Len(script') : script'[i][1] = "run" /\ p = RunOf(script', state', i)
      BY <2>2
    <3>2. i + 1 \in 1..Len(script) /\ script[i + 1][1] = "run" /\ i + 1 # 1
      BY <1>5, <3>1
    <3>3. i = 1 /\ t[1] = "preview"
      BY <3>2 DEF SessionInv, TasksFit
    <3>4. p = RunOf(script, state, i + 1)
      BY <1>4, <3>1, <3>2, <3>3 DEF RunOf
    <3> QED
      BY <3>2, <3>4 DEF Live
  <2>3. CASE /\ state'.pending # None /\ state'.pending.sql = p
             /\ \A i \in 1..Len(script') : script'[i][1] # "pending"
    <3>1. CASE t[1] = "pending"
      BY <1>1, <1>4, <2>3, <3>1 DEF Live
    <3>2. CASE t[1] # "pending"
      BY <1>4, <1>5, <2>3, <3>2 DEF Live
    <3> QED
      BY <3>1, <3>2
  <2> QED
    BY <1>6, <2>1, <2>2, <2>3 DEF Live
<1> QED
  BY <1>2, <1>6, QuietStep

(* A preview makes its own number live, which was never executed.          *)
LEMMA PreviewOnce ==
  ASSUME SessionInv, OnceInv, Preview PROVE OnceInv'
<1>1. PICK whole \in BOOLEAN :
        /\ previews' = Append(previews, [question |-> form.question, ready |-> whole])
        /\ Continue(<<Write("preview", Len(previews) + 1)>> \o AfterPreview(Len(previews) + 1, whole))
  BY DEF Preview
<1>2. /\ script # <<>> /\ script[1][1] \in Requests /\ Len(previews) < MaxPreviews
      /\ UNCHANGED <<state, executed, faults>>
  BY HeadIs DEF Preview, Requests
<1> DEFINE p == Len(previews) + 1
           made == [question |-> form.question, ready |-> whole]
           tasks == <<Write("preview", p)>> \o AfterPreview(p, whole)
           s == Pending(form.question, p)
<1>3. p \in 1..MaxPreviews /\ made \in Made
  BY <1>2, BoundsAssumption DEF SessionInv, SessionKinds, Made, Forms
<1>4. Len(previews') = p
  BY <1>1, <1>3, FitsGrow DEF SessionInv, SessionKinds
<1>5. /\ tasks \in Seq(Tasks) /\ Len(tasks) \in {2, 3} /\ tasks[1] = Write("preview", p)
      /\ \/ Len(tasks) = 3 /\ tasks[2] = Write("result", 0) /\ tasks[3] = Write("pending", None)
         \/ Len(tasks) = 3 /\ tasks[2] = Write("pending", s) /\ tasks[3] = Write("result", 0)
         \/ Len(tasks) = 2 /\ tasks[2] = <<"run">>
  BY <1>3, PreviewTasks DEF SessionInv
<1> HIDE DEF tasks
<1>6. /\ tasks[1][1] = "preview" /\ tasks[1][2] = p
      /\ \A i \in 1..Len(tasks) :
           /\ tasks[i][1] = "run" => i # 1
           /\ tasks[i][1] = "pending" => tasks[i][2] = None \/ tasks[i][2].sql = p
  <2>1. \A i \in 1..Len(tasks) : i \in {1, 2} \/ (i = 3 /\ Len(tasks) = 3)
    <3> DEFINE n == Len(tasks)
    <3>1. n \in {2, 3}
      BY <1>5
    <3> HIDE DEF n
    <3>2. \A i \in 1..n : i \in {1, 2} \/ (i = 3 /\ n = 3)
      BY <3>1
    <3> QED
      BY <3>2 DEF n
  <2>2. s.sql = p
    BY DEF Pending
  <2> HIDE DEF s
  <2> QED
    BY <1>5, <2>1, <2>2 DEF Write
<1>7. /\ \A i \in 1..Len(tasks) : i \in 1..Len(script') /\ script'[i] = tasks[i]
      /\ \A i \in 1..Len(script') : (i \in 1..Len(tasks) /\ script'[i] = tasks[i]) \/ script'[i][1] = "page"
      /\ \A i \in 1..Len(script) : script[i][1] \in Requests \cup {"page"}
  BY <1>1, <1>2, <1>5, AfterResponse DEF tasks
<1>8. ASSUME NEW q, q # p, Live(q, script', state') PROVE Live(q, script, state)
  <2>1. ~\E i \in 1..Len(script') :
          script'[i][1] = "pending" /\ script'[i][2] # None /\ script'[i][2].sql = q
    BY <1>6, <1>7, <1>8
  <2>2. ~\E i \in 1..Len(script') : script'[i][1] = "run" /\ q = RunOf(script', state', i)
    <3> SUFFICES ASSUME NEW i \in 1..Len(script'), script'[i][1] = "run", q = RunOf(script', state', i)
                 PROVE  FALSE
      OBVIOUS
    <3>1. i \in 1..Len(tasks) /\ i # 1
      BY <1>6, <1>7
    <3>2. 1 \in 1..Len(tasks)
      BY <1>5
    <3>3. script'[1][2] = p
      BY <1>6, <1>7, <3>2
    <3> QED
      BY <1>8, <3>1, <3>3 DEF RunOf
  <2>3. state'.pending # None /\ state'.pending.sql = q
    BY <1>8, <2>1, <2>2 DEF Live
  <2>4. \A i \in 1..Len(script) : script[i][1] # "pending"
    BY <1>7 DEF Requests
  <2> QED
    BY <1>2, <2>3, <2>4 DEF Live
<1>9. Cardinality(Executions(p, executed)) = 0
  <2>1. \A i \in 1..Len(executed) : executed[i].sql # p
    <3> SUFFICES ASSUME NEW i \in 1..Len(executed) PROVE executed[i].sql # p
      OBVIOUS
    <3>1. executed[i].sql \in 1..Len(previews) /\ Len(previews) \in Nat
      BY DEF SessionInv, SessionKinds, Fits
    <3> QED
      BY <3>1
  <2>2. Executions(p, executed) = {}
    BY <2>1 DEF Executions
  <2> QED
    BY <2>2, FS_EmptySet
<1> SUFFICES ASSUME NEW q \in 1..Len(previews')
             PROVE  \/ Cardinality(Executions(q, executed)) <= faults
                    \/ Cardinality(Executions(q, executed)) <= 1 + faults /\ ~Live(q, script', state')
  BY <1>2 DEF OnceInv
<1>10. CASE q = p
  BY <1>9, <1>10, BoundsAssumption DEF SessionInv, SessionKinds
<1>11. CASE q # p
  <2>1. q \in 1..Len(previews)
    BY <1>3, <1>4, <1>11
  <2> QED
    BY <1>8, <1>11, <2>1 DEF OnceInv
<1> QED
  BY <1>10, <1>11

(* A previewed statement is executed once, however often the buttons are   *)
(* pressed, and once more for each run that was interrupted and each       *)
(* response that was lost (preview_question, execute_approved_question,    *)
(* main).                                                                  *)
THEOREM PreviewsAreExecutedOnce == Spec => []ExecutedOnce
<1>1. Init => OnceInv
  BY DEF Init, OnceInv
<1>2. SessionInv /\ OnceInv /\ [Next]_vars => OnceInv'
  <2> SUFFICES ASSUME SessionInv, OnceInv, [Next]_vars PROVE OnceInv'
    OBVIOUS
  <2>1. CASE UNCHANGED vars
    BY <2>1, QuietStep DEF vars
  <2>2. CASE Next
    BY <2>2, InteractOnce, AssignOnce, QuietOnce, ResponseIsLostOnce, ClarifyOnce, PreviewOnce, ExecuteOnce
       DEF Next
  <2> QED
    BY <2>1, <2>2
<1>3. SessionInv /\ OnceInv => ExecutedOnce
  <2> SUFFICES ASSUME SessionInv, OnceInv, NEW p \in 1..Len(previews)
               PROVE  Cardinality({i \in 1..Len(executed) : executed[i].sql = p}) <= 1 + faults
    BY DEF ExecutedOnce
  <2>1. Cardinality(Executions(p, executed)) \in Nat /\ faults \in Nat
    BY ExecutionsType, BoundsAssumption DEF SessionInv, SessionKinds
  <2> QED
    BY <2>1 DEF OnceInv, Executions
<1> QED
  BY <1>1, <1>2, <1>3, SessionInvHolds, PTL DEF Spec

-----------------------------------------------------------------------------
(* The saved queries.  A name stands for one item of a list.               *)
Unique(items) == \A i, j \in 1..Len(items) : items[i].name = items[j].name => i = j

(* The last save of every name is in the list.                             *)
Keeps(items) ==
  \A n \in Names : last[n] > 0 =>
    \E i \in 1..Len(items) : items[i] = [name |-> n, question |-> last[n]]

(* While one tab is open at a time: what it does not write is in the file, *)
(* and nothing that another has written is there when it does.             *)
OneTab ==
  /\ \A t, o \in Tabs : list[t] # NotOpen /\ list[o] # NotOpen => t = o
  /\ \A t \in Tabs : savedPc[t] = "write" => file.kind = "empty"
  /\ ~hurt =>
       /\ Saved!AtRest =>
            /\ file.kind = "whole" /\ Keeps(file.items)
            /\ \A t \in Tabs : list[t] # NotOpen => list[t] = file.items
       /\ \A t \in Tabs : savedPc[t] # "idle" => Keeps(list[t])

SavedKinds ==
  /\ list \in [Tabs -> Seq(Saved!Item) \cup {NotOpen}]
  /\ savedPc \in [Tabs -> {"idle", "open", "write"}]
  /\ file \in [kind : {"whole", "empty", "torn"}, items : Seq(Saved!Item)]
  /\ last \in [Names -> Nat]
  /\ saves \in 0..MaxSaves
  /\ saver \in Tabs \cup {NotOpen}
  /\ shared \in BOOLEAN /\ hurt \in BOOLEAN

SavedInv ==
  /\ SavedKinds
  /\ \A t \in Tabs : savedPc[t] # "idle" => list[t] # NotOpen
  /\ \A t \in Tabs : list[t] # NotOpen => Unique(list[t])
  /\ Unique(file.items)
  /\ Saved!LastSaverWins
  /\ ~shared => OneTab

(* Saving under a name replaces the item of that name, and no other.       *)
LEMMA WithKeeps ==
  ASSUME NEW items \in Seq(Saved!Item), Unique(items), NEW item \in Saved!Item
  PROVE  LET new == Saved!With(items, item)
         IN  /\ new \in Seq(Saved!Item) /\ Unique(new)
             /\ \E i \in 1..Len(new) : new[i] = item
             /\ \A j \in 1..Len(items) : items[j].name # item.name =>
                  \E i \in 1..Len(new) : new[i] = items[j]
<1> DEFINE T == {i \in Saved!Item : i.name # item.name}
           kept == Filter(items, T)
           new == Append(kept, item)
<1>1. Saved!With(items, item) = new
  BY DEF Saved!With, Saved!Filter, Filter
<1>2. kept \in Seq(Saved!Item) /\ \E e : Picks(e, kept, items, T, Len(items))
  BY FilterPicks
<1>3. PICK e : Picks(e, kept, items, T, Len(items))
  BY <1>2
<1>4. /\ new \in Seq(Saved!Item) /\ Len(new) = Len(kept) + 1 /\ new[Len(kept) + 1] = item
      /\ Len(kept) \in Nat /\ Len(items) \in Nat /\ \A i \in 1..Len(kept) : new[i] = kept[i]
  BY <1>2, AppendProperties, LenProperties
<1>5. \A j \in 1..Len(items) : items[j] \in Saved!Item
  BY ElementOfSeq
<1>6. /\ \A i \in 1..Len(kept) : e[i] \in 1..Len(items) /\ kept[i] = items[e[i]] /\ items[e[i]] \in T
      /\ \A i, j \in 1..Len(kept) : i < j => e[i] < e[j]
      /\ \A j \in 1..Len(items) : items[j] \in T => \E i \in 1..Len(kept) : e[i] = j
  BY <1>3 DEF Picks
<1>7. /\ \A i \in 1..Len(kept) : kept[i].name # item.name
      /\ \A j \in 1..Len(items) : items[j].name # item.name => \E i \in 1..Len(kept) : kept[i] = items[j]
  BY ZenonT(30), <1>5, <1>6
<1>8. Unique(kept)
  <2> SUFFICES ASSUME NEW i \in 1..Len(kept), NEW j \in 1..Len(kept), kept[i].name = kept[j].name
               PROVE  i = j
    BY DEF Unique
  <2>1. e[i] = e[j] /\ e[i] \in Nat
    BY <1>6 DEF Unique
  <2>2. ~(i < j) /\ ~(j < i)
    BY <1>6, <2>1
  <2> QED
    BY <1>4, <2>2
<1> HIDE DEF kept, new, T
<1>9. \A i \in 1..Len(new) : i \in 1..Len(kept) \/ i = Len(kept) + 1
  BY <1>4
<1>10. 1..Len(kept) \subseteq 1..Len(new) /\ Len(kept) + 1 \in 1..Len(new)
  BY <1>4
<1>11. Unique(new)
  <2> SUFFICES ASSUME NEW i \in 1..Len(new), NEW j \in 1..Len(new), new[i].name = new[j].name
               PROVE  i = j
    BY DEF Unique
  <2>1. CASE i \in 1..Len(kept) /\ j \in 1..Len(kept)
    BY <1>4, <1>8, <2>1 DEF Unique
  <2>2. CASE i = Len(kept) + 1 \/ j = Len(kept) + 1
    BY <1>4, <1>7, <1>9, <2>2
  <2> QED
    BY <1>9, <2>1, <2>2
<1> QED
  BY <1>1, <1>4, <1>7, <1>10, <1>11

LEMMA SavedOpen ==
  ASSUME SavedInv, NEW t \in Tabs, Saved!Open(t)
  PROVE  SavedInv'
<1> DEFINE items == IF file.kind = "whole" THEN file.items ELSE <<>>
<1>1. /\ list[t] = NotOpen /\ list' = [list EXCEPT ![t] = items]
      /\ shared' = (shared \/ \E other \in Tabs \ {t} : list[other] # NotOpen)
      /\ UNCHANGED <<savedPc, file, last, saver, saves, hurt>>
  BY DEF Saved!Open
<1>2. items \in Seq(Saved!Item) /\ Unique(items) /\ savedPc[t] = "idle"
  BY <1>1 DEF SavedInv, SavedKinds, Unique
<1>3. list'[t] = items /\ \A o \in Tabs \ {t} : list'[o] = list[o]
  BY <1>1 DEF SavedInv, SavedKinds
<1>4. SavedKinds'
  BY <1>1, <1>2 DEF SavedInv, SavedKinds
<1>5. /\ \A o \in Tabs : savedPc'[o] # "idle" => list'[o] # NotOpen
      /\ \A o \in Tabs : list'[o] # NotOpen => Unique(list'[o])
      /\ Unique(file.items)'
  BY <1>1, <1>2, <1>3 DEF SavedInv, Unique
<1>6. Saved!LastSaverWins'
  <2> SUFFICES ASSUME Saved!AtRest', file'.kind = "whole", saver' # NotOpen, list'[saver'] # NotOpen
               PROVE  file'.items = list'[saver']
    BY DEF Saved!LastSaverWins
  <2>1. CASE saver = t
    BY <1>1, <1>3, <2>1
  <2>2. CASE saver # t
    <3>1. list'[saver] = list[saver] /\ Saved!AtRest
      BY <1>1, <1>3, <2>2 DEF SavedInv, SavedKinds, Saved!AtRest
    <3> QED
      BY <1>1, <3>1 DEF SavedInv, Saved!LastSaverWins
  <2> QED
    BY <2>1, <2>2
<1>7. ASSUME ~shared' PROVE OneTab'
  <2>1. OneTab /\ \A o \in Tabs \ {t} : list[o] = NotOpen
    BY <1>1, <1>7 DEF SavedInv, SavedKinds
  <2>2. \A o \in Tabs : savedPc[o] = "idle"
    BY <1>2, <2>1 DEF SavedInv, SavedKinds
  <2>3. /\ \A o, p \in Tabs : list'[o] # NotOpen /\ list'[p] # NotOpen => o = p
        /\ \A o \in Tabs : savedPc'[o] = "write" => file'.kind = "empty"
    BY <1>1, <1>3, <2>1, <2>2
  <2>4. ASSUME ~hurt
        PROVE  /\ file'.kind = "whole" /\ Keeps(file.items)'
               /\ \A o \in Tabs : list'[o] # NotOpen => list'[o] = file'.items
    <3>1. file.kind = "whole" /\ Keeps(file.items)
      BY <2>1, <2>2, <2>4 DEF OneTab, Saved!AtRest
    <3>2. \A o \in Tabs : list'[o] # NotOpen => list'[o] = file.items
      BY <1>3, <2>1, <3>1
    <3> QED
      BY <1>1, <3>1, <3>2 DEF Keeps
  <2> QED
    BY <1>1, <2>2, <2>3, <2>4 DEF OneTab
<1> QED
  BY <1>4, <1>5, <1>6, <1>7 DEF SavedInv

LEMMA SavedClose ==
  ASSUME SavedInv, NEW t \in Tabs, Saved!Close(t)
  PROVE  SavedInv'
<1>1. /\ list[t] # NotOpen /\ savedPc[t] = "idle" /\ list' = [list EXCEPT ![t] = NotOpen]
      /\ UNCHANGED <<savedPc, file, last, saver, saves, shared, hurt>>
  BY DEF Saved!Close
<1>2. list'[t] = NotOpen /\ \A o \in Tabs \ {t} : list'[o] = list[o]
  BY <1>1 DEF SavedInv, SavedKinds
<1>3. SavedKinds'
  BY <1>1 DEF SavedInv, SavedKinds
<1>4. /\ \A o \in Tabs : savedPc'[o] # "idle" => list'[o] # NotOpen
      /\ \A o \in Tabs : list'[o] # NotOpen => Unique(list'[o])
      /\ Unique(file.items)'
  BY <1>1, <1>2 DEF SavedInv, Unique
<1>5. Saved!LastSaverWins' /\ (Saved!AtRest' <=> Saved!AtRest)
  BY <1>1, <1>2 DEF SavedInv, SavedKinds, Saved!LastSaverWins, Saved!AtRest
<1>6. ASSUME ~shared' PROVE OneTab'
  <2>1. OneTab
    BY <1>1, <1>6 DEF SavedInv
  <2>2. /\ \A o \in Tabs : list'[o] # NotOpen => list[o] # NotOpen /\ list'[o] = list[o]
        /\ \A o \in Tabs : savedPc[o] # "idle" => list'[o] = list[o]
    BY <1>1, <1>2
  <2>3. /\ \A o \in Tabs : savedPc[o] # "idle" => (Keeps(list[o])' <=> Keeps(list[o]))
        /\ Keeps(file.items)' <=> Keeps(file.items)
    BY <1>1, <2>2 DEF Keeps
  <2> QED
    BY <1>1, <1>5, <2>1, <2>2, <2>3 DEF OneTab
<1> QED
  BY <1>3, <1>4, <1>5, <1>6 DEF SavedInv

LEMMA SavedSave ==
  ASSUME SavedInv, NEW t \in Tabs, NEW n \in Names, Saved!Save(t, n)
  PROVE  SavedInv'
<1> DEFINE item == [name |-> n, question |-> saves + 1]
           new == Saved!With(list[t], item)
<1>1. /\ list[t] # NotOpen /\ savedPc[t] = "idle" /\ saves < MaxSaves /\ saves' = saves + 1
      /\ list' = [list EXCEPT ![t] = new] /\ last' = [last EXCEPT ![n] = saves + 1]
      /\ savedPc' = [savedPc EXCEPT ![t] = "open"]
      /\ UNCHANGED <<file, saver, shared, hurt>>
  BY DEF Saved!Save
<1>2. MaxSaves \in Nat /\ saves \in Nat /\ NotOpen \notin Seq(Saved!Item)
  BY PartsAssumption DEF Saved!BoundsAssumption, SavedInv, SavedKinds
<1>3. list[t] \in Seq(Saved!Item) /\ Unique(list[t]) /\ item \in Saved!Item
  <2>1. list[t] \in Seq(Saved!Item) /\ Unique(list[t])
    BY <1>1 DEF SavedInv, SavedKinds
  <2>2. saves + 1 \in 1..MaxSaves
    BY <1>1, <1>2
  <2> QED
    BY <2>1, <2>2 DEF Saved!Item
<1>4. /\ new \in Seq(Saved!Item) /\ Unique(new) /\ \E i \in 1..Len(new) : new[i] = item
      /\ \A j \in 1..Len(list[t]) : list[t][j].name # n => \E i \in 1..Len(new) : new[i] = list[t][j]
  <2>1. item.name = n
    OBVIOUS
  <2> HIDE DEF item
  <2> QED
    BY <1>3, <2>1, WithKeeps
<1> HIDE DEF new
<1>5. /\ list'[t] = new /\ \A o \in Tabs \ {t} : list'[o] = list[o]
      /\ savedPc'[t] = "open" /\ \A o \in Tabs \ {t} : savedPc'[o] = savedPc[o]
      /\ last'[n] = saves + 1 /\ \A m \in Names \ {n} : last'[m] = last[m]
  BY <1>1 DEF SavedInv, SavedKinds
<1>6. SavedKinds'
  BY <1>1, <1>2, <1>4 DEF SavedInv, SavedKinds
<1>7. /\ \A o \in Tabs : savedPc'[o] # "idle" => list'[o] # NotOpen
      /\ \A o \in Tabs : list'[o] # NotOpen => Unique(list'[o])
      /\ Unique(file.items)'
  BY <1>1, <1>2, <1>4, <1>5 DEF SavedInv, Unique
<1>8. ~Saved!AtRest'
  BY <1>5 DEF Saved!AtRest
<1>9. ASSUME ~shared' PROVE OneTab'
  <2>1. OneTab /\ \A o \in Tabs \ {t} : list[o] = NotOpen /\ savedPc[o] = "idle"
    BY <1>1, <1>9 DEF SavedInv, SavedKinds, OneTab
  <2>2. /\ \A o, p \in Tabs : list'[o] # NotOpen /\ list'[p] # NotOpen => o = p
        /\ \A o \in Tabs : savedPc'[o] = "write" => file'.kind = "empty"
    BY <1>5, <2>1
  <2>3. ASSUME ~hurt PROVE Keeps(list[t])'
    <3>1. Keeps(list[t])
      <4>1. Saved!AtRest
        BY <1>1, <2>1 DEF Saved!AtRest
      <4> QED
        BY <1>1, <2>1, <2>3, <4>1 DEF OneTab
    <3> SUFFICES ASSUME NEW m \in Names, last'[m] > 0
                 PROVE  \E i \in 1..Len(new) : new[i] = [name |-> m, question |-> last'[m]]
      BY <1>5 DEF Keeps
    <3>2. CASE m = n
      BY <1>4, <1>5, <3>2
    <3>3. CASE m # n
      <4>1. last'[m] = last[m]
        BY <1>5, <3>3
      <4>2. PICK j \in 1..Len(list[t]) : list[t][j] = [name |-> m, question |-> last[m]]
        BY <3>1, <4>1 DEF Keeps
      <4>3. list[t][j].name # n
        BY <3>3, <4>2
      <4> QED
        BY <1>4, <4>1, <4>2, <4>3
    <3> QED
      BY <3>2, <3>3
  <2>4. ASSUME ~hurt PROVE \A o \in Tabs : savedPc'[o] # "idle" => Keeps(list[o])'
    <3>1. \A o \in Tabs : savedPc'[o] # "idle" => o = t
      BY <1>5, <2>1
    <3> QED
      BY <2>3, <2>4, <3>1
  <2> QED
    BY <1>1, <1>8, <2>2, <2>4 DEF OneTab
<1> QED
  BY <1>6, <1>7, <1>8, <1>9 DEF SavedInv, Saved!LastSaverWins

LEMMA SavedTruncate ==
  ASSUME SavedInv, NEW t \in Tabs, Saved!Truncate(t)
  PROVE  SavedInv'
<1>1. /\ savedPc[t] = "open" /\ file' = [kind |-> "empty", items |-> <<>>]
      /\ savedPc' = [savedPc EXCEPT ![t] = "write"]
      /\ UNCHANGED <<list, last, saver, saves, shared, hurt>>
  BY DEF Saved!Truncate
<1>2. /\ savedPc'[t] = "write" /\ \A o \in Tabs \ {t} : savedPc'[o] = savedPc[o]
      /\ file'.kind = "empty" /\ file'.items = <<>>
  BY <1>1 DEF SavedInv, SavedKinds
<1>3. SavedKinds'
  BY <1>1 DEF SavedInv, SavedKinds
<1>4. /\ \A o \in Tabs : savedPc'[o] # "idle" => list'[o] # NotOpen
      /\ \A o \in Tabs : list'[o] # NotOpen => Unique(list'[o])
      /\ Unique(file.items)'
  BY <1>1, <1>2 DEF SavedInv, Unique
<1>5. ~Saved!AtRest'
  BY <1>2 DEF Saved!AtRest
<1>6. ASSUME ~shared' PROVE OneTab'
  <2>1. OneTab
    BY <1>1, <1>6 DEF SavedInv
  <2>2. \A o \in Tabs : savedPc'[o] # "idle" => savedPc[o] # "idle"
    BY <1>1, <1>2
  <2>3. \A o \in Tabs : Keeps(list[o])' <=> Keeps(list[o])
    BY <1>1 DEF Keeps
  <2> QED
    BY <1>1, <1>2, <1>5, <2>1, <2>2, <2>3 DEF OneTab
<1> QED
  BY <1>3, <1>4, <1>5, <1>6 DEF SavedInv, Saved!LastSaverWins

LEMMA SavedWrite ==
  ASSUME SavedInv, NEW t \in Tabs, Saved!Write(t)
  PROVE  SavedInv'
<1>1. /\ savedPc[t] = "write" /\ savedPc' = [savedPc EXCEPT ![t] = "idle"] /\ saver' = t
      /\ \/ file' = [kind |-> "whole", items |-> list[t]]
         \/ file.kind # "empty" /\ file' = [kind |-> "torn", items |-> <<>>]
      /\ UNCHANGED <<list, last, saves, shared, hurt>>
  BY DEF Saved!Write, Saved!Text
<1>2. list[t] # NotOpen /\ list[t] \in Seq(Saved!Item) /\ Unique(list[t])
  BY <1>1 DEF SavedInv, SavedKinds
<1>3. savedPc'[t] = "idle" /\ \A o \in Tabs \ {t} : savedPc'[o] = savedPc[o]
  BY <1>1 DEF SavedInv, SavedKinds
<1>4. SavedKinds'
  <2>1. \A k \in {"whole", "torn"}, items \in Seq(Saved!Item) :
          [kind |-> k, items |-> items] \in [kind : {"whole", "empty", "torn"}, items : Seq(Saved!Item)]
    OBVIOUS
  <2>2. <<>> \in Seq(Saved!Item)
    OBVIOUS
  <2>3. file' \in [kind : {"whole", "empty", "torn"}, items : Seq(Saved!Item)]
    BY <1>1, <1>2, <2>1, <2>2
  <2> QED
    BY <1>1, <2>3 DEF SavedInv, SavedKinds
<1>5. /\ \A o \in Tabs : savedPc'[o] # "idle" => list'[o] # NotOpen
      /\ \A o \in Tabs : list'[o] # NotOpen => Unique(list'[o])
      /\ Unique(file.items)'
  <2>1. file'.items = list[t] \/ file'.items = <<>>
    BY <1>1
  <2>2. Unique(file.items)'
    BY <1>2, <2>1 DEF Unique
  <2> QED
    BY <1>1, <1>3, <2>2 DEF SavedInv, Unique
<1>6. Saved!LastSaverWins'
  BY <1>1 DEF Saved!LastSaverWins
<1>7. ASSUME ~shared' PROVE OneTab'
  <2>1. OneTab /\ \A o \in Tabs \ {t} : list[o] = NotOpen /\ savedPc[o] = "idle"
    BY <1>1, <1>2, <1>7 DEF SavedInv, SavedKinds, OneTab
  <2>2. file'.kind = "whole" /\ file'.items = list[t]
    BY <1>1, <2>1 DEF OneTab
  <2>3. \A o \in Tabs : savedPc'[o] = "idle"
    BY <1>3, <2>1
  <2>4. ASSUME ~hurt PROVE Keeps(file.items)'
    <3>1. Keeps(list[t])
      BY <1>1, <2>1, <2>4 DEF OneTab
    <3> QED
      BY <1>1, <2>2, <3>1 DEF Keeps
  <2>5. \A o \in Tabs : list[o] # NotOpen => list[o] = list[t]
    BY <2>1
  <2> QED
    BY <1>1, <2>1, <2>2, <2>3, <2>4, <2>5 DEF OneTab
<1> QED
  BY <1>4, <1>5, <1>6, <1>7 DEF SavedInv

LEMMA SavedCrash ==
  ASSUME SavedInv, Saved!Crash
  PROVE  SavedInv'
<1>1. /\ list' = [t \in Tabs |-> NotOpen] /\ savedPc' = [t \in Tabs |-> "idle"]
      /\ saver' = NotOpen /\ hurt' = (hurt \/ \E t \in Tabs : savedPc[t] # "idle")
      /\ UNCHANGED <<last, saves, shared>>
      /\ file' = file \/ (file' = [kind |-> "torn", items |-> <<>>] /\ \E t \in Tabs : savedPc[t] = "write")
  BY DEF Saved!Crash
<1>2. \A t \in Tabs : list'[t] = NotOpen /\ savedPc'[t] = "idle"
  BY <1>1
<1>3. SavedKinds'
  <2>1. file' \in [kind : {"whole", "empty", "torn"}, items : Seq(Saved!Item)]
    <3>1. [kind |-> "torn", items |-> <<>>] \in [kind : {"whole", "empty", "torn"}, items : Seq(Saved!Item)]
      OBVIOUS
    <3>2. file \in [kind : {"whole", "empty", "torn"}, items : Seq(Saved!Item)]
      BY DEF SavedInv, SavedKinds
    <3> QED
      BY <1>1, <3>1, <3>2
  <2>2. list' \in [Tabs -> Seq(Saved!Item) \cup {NotOpen}] /\ savedPc' \in [Tabs -> {"idle", "open", "write"}]
    BY <1>1
  <2>3. hurt' \in BOOLEAN
    BY <1>1
  <2> QED
    BY <1>1, <2>1, <2>2, <2>3 DEF SavedInv, SavedKinds
<1>4. /\ \A o \in Tabs : savedPc'[o] # "idle" => list'[o] # NotOpen
      /\ \A o \in Tabs : list'[o] # NotOpen => Unique(list'[o])
      /\ Unique(file.items)'
  BY <1>1, <1>2 DEF SavedInv, Unique
<1>5. Saved!LastSaverWins'
  BY <1>1 DEF Saved!LastSaverWins
<1>6. ASSUME ~shared' PROVE OneTab'
  <2>1. OneTab
    BY <1>1, <1>6 DEF SavedInv
  <2>2. ASSUME ~hurt' PROVE file'.kind = "whole" /\ Keeps(file.items)'
    <3>1. ~hurt /\ Saved!AtRest /\ file' = file
      BY <1>1, <2>2 DEF SavedInv, SavedKinds, Saved!AtRest
    <3> QED
      BY <1>1, <2>1, <3>1 DEF OneTab, Keeps
  <2> QED
    BY <1>2, <2>2 DEF OneTab
<1> QED
  BY <1>3, <1>4, <1>5, <1>6 DEF SavedInv

(* What the front end keeps of saved queries, over every order of loads,   *)
(* saves, torn files and restarts: a name stands for one item, a whole     *)
(* file is its last writer's list, and one tab at a time loses no save     *)
(* (load_saved_queries, persist_saved_queries, main).                      *)
THEOREM SavesStay == BrowserSpec => []SavesAreKept
<1>1. BrowserInit => SavedInv
  <2> SUFFICES ASSUME Saved!Init PROVE SavedInv
    BY DEF BrowserInit
  <2>1. /\ \A t \in Tabs : list[t] = NotOpen /\ savedPc[t] = "idle"
        /\ file.kind = "whole" /\ file.items = <<>> /\ \A n \in Names : last[n] = 0
    BY DEF Saved!Init
  <2>2. SavedKinds
    <3>1. file \in [kind : {"whole", "empty", "torn"}, items : Seq(Saved!Item)]
      BY DEF Saved!Init
    <3>2. /\ list \in [Tabs -> Seq(Saved!Item) \cup {NotOpen}]
          /\ savedPc \in [Tabs -> {"idle", "open", "write"}]
          /\ last \in [Names -> Nat]
      BY DEF Saved!Init
    <3>3. saves \in 0..MaxSaves
      BY PartsAssumption DEF Saved!Init, Saved!BoundsAssumption
    <3> QED
      BY <3>1, <3>2, <3>3 DEF Saved!Init, SavedKinds
  <2>3. Unique(file.items) /\ Keeps(file.items)
    BY <2>1 DEF Unique, Keeps
  <2>4. OneTab /\ Saved!LastSaverWins
    BY <2>1, <2>3 DEF OneTab, Saved!LastSaverWins, Saved!Init
  <2> QED
    BY <2>1, <2>2, <2>3, <2>4 DEF SavedInv
<1>2. SavedInv /\ [BrowserNext]_browserVars => SavedInv'
  <2> SUFFICES ASSUME SavedInv, [BrowserNext]_browserVars PROVE SavedInv'
    OBVIOUS
  <2>1. CASE UNCHANGED savedVars
    <3>1. UNCHANGED <<list, savedPc, file, last, saver, saves, shared, hurt>>
      BY <2>1 DEF savedVars
    <3> QED
      BY <3>1 DEF SavedInv, SavedKinds, Unique, Keeps, OneTab, Saved!LastSaverWins, Saved!AtRest
  <2>2. CASE Saved!Next
    BY <2>2, SavedOpen, SavedClose, SavedSave, SavedTruncate, SavedWrite, SavedCrash DEF Saved!Next
  <2> QED
    BY <2>1, <2>2 DEF BrowserNext, browserVars
<1>3. SavedInv => SavesAreKept
  <2> SUFFICES ASSUME SavedInv PROVE SavesAreKept
    OBVIOUS
  <2>1. Saved!NamesUnique
    BY DEF SavedInv, Unique, Saved!NamesUnique
  <2>2. Saved!OneTabKeepsAll
    BY DEF SavedInv, OneTab, Keeps, Saved!OneTabKeepsAll, Saved!Stored
  <2> QED
    BY <2>1, <2>2 DEF SavedInv, SavesAreKept, Saved!SavesAreKept
<1> QED
  BY <1>1, <1>2, <1>3, PTL DEF BrowserSpec

-----------------------------------------------------------------------------
(* The streams.  The theorems of StreamProofs are about those of           *)
(* MCBrowser: S and Stream instantiate the same module in the same way.    *)
S == INSTANCE StreamProofs

LEMMA SameStreams == Stream!Spec => S!Spec
<1>1. Stream!Init => S!Init
  BY DEF Stream!Init, S!Init
<1> USE DEF Stream!thread, S!thread, Stream!loop, S!loop, Stream!Callback, S!Callback,
            Stream!Stages, S!Stages, Stream!Final, S!Final, Stream!Post, S!Post
<1>2. ASSUME NEW s \in Streams
      PROVE  /\ Stream!Start(s) => S!Start(s)
             /\ Stream!Emit(s) => S!Emit(s)
             /\ Stream!Return(s) => S!Return(s)
             /\ Stream!Fail(s) => S!Fail(s)
             /\ Stream!Finally(s) => S!Finally(s)
             /\ Stream!Put(s) => S!Put(s)
             /\ Stream!Wait(s) => S!Wait(s)
             /\ Stream!Send(s) => S!Send(s)
             /\ Stream!Break(s) => S!Break(s)
             /\ Stream!Leave(s) => S!Leave(s)
  <2>1. Stream!Start(s) => S!Start(s)
    BY DEF Stream!Start, S!Start
  <2>2. Stream!Emit(s) => S!Emit(s)
    BY DEF Stream!Emit, S!Emit, Stream!Steps, S!Steps, Stream!Onward, S!Onward,
           Stream!Retry, S!Retry, Stream!GiveUp, S!GiveUp
  <2>3. Stream!Return(s) => S!Return(s)
    BY DEF Stream!Return, S!Return, Stream!Outcomes, S!Outcomes
  <2>4. /\ Stream!Fail(s) => S!Fail(s)
        /\ Stream!Finally(s) => S!Finally(s)
    BY DEF Stream!Fail, S!Fail, Stream!Finally, S!Finally
  <2>5. /\ Stream!Put(s) => S!Put(s)
        /\ Stream!Wait(s) => S!Wait(s)
    BY DEF Stream!Put, S!Put, Stream!Wait, S!Wait, Stream!Turn, S!Turn
  <2>6. /\ Stream!Send(s) => S!Send(s)
        /\ Stream!Break(s) => S!Break(s)
    BY DEF Stream!Send, S!Send, Stream!Break, S!Break, Stream!Turn, S!Turn,
           Stream!Unsendable, S!Unsendable
  <2>7. Stream!Leave(s) => S!Leave(s)
    BY DEF Stream!Leave, S!Leave, Stream!Callbacks, S!Callbacks, Stream!Events, S!Events,
           Stream!Filter, S!Filter
  <2> QED
    BY <2>1, <2>2, <2>3, <2>4, <2>5, <2>6, <2>7
<1>3. Stream!Next => S!Next
  BY <1>2 DEF Stream!Next, S!Next, Stream!Work, S!Work, Stream!Serve, S!Serve
<1>4. UNCHANGED Stream!vars => UNCHANGED S!vars
  BY DEF Stream!vars, S!vars
<1> QED
  BY <1>1, <1>3, <1>4, PTL DEF Stream!Spec, S!Spec

LEMMA StreamBounds == S!BoundsAssumption
BY PartsAssumption DEF S!BoundsAssumption, Stream!BoundsAssumption

LEMMA BrowserStreams == BrowserSpec => S!Spec
<1>1. BrowserInit => Stream!Init
  BY DEF BrowserInit
<1>2. [BrowserNext]_browserVars => [Stream!Next]_(Stream!vars)
  BY DEF BrowserNext, browserVars, streamVars, Stream!vars, Stream!thread, Stream!loop
<1> QED
  BY <1>1, <1>2, SameStreams, PTL DEF BrowserSpec, Stream!Spec

(* What the threads of two streams hand to one loop does not get lost,     *)
(* doubled, overtaken or mixed up: each client hears its own thread, in    *)
(* order (query_stream_route, call_soon_threadsafe).                       *)
THEOREM ClientsHearInOrder == BrowserSpec => []HeardInOrder
<1>1. S!HeardInOrder => HeardInOrder
  BY DEF S!HeardInOrder, HeardInOrder, Stream!HeardInOrder, S!Puts, Stream!Puts,
         S!Filter, Stream!Filter, S!Events, Stream!Events, S!Stages, Stream!Stages,
         S!Final, Stream!Final
<1> QED
  BY <1>1, BrowserStreams, S!StreamsAreTrue, StreamBounds, PTL

(* The variables of the session and of the streams hold values of their    *)
(* kinds, and no generator has two continuations, or none when it is to    *)
(* run (main of streamlit_app.py, query_stream_route).                     *)
THEOREM BrowserTypes == BrowserSpec => []TypesOK
<1>1. S!TypeOK => Stream!TypeOK
  BY DEF S!TypeOK, Stream!TypeOK, S!Resumes, Stream!Resumes, S!Filter, Stream!Filter,
         S!Callbacks, Stream!Callbacks, S!Events, Stream!Events, S!Stages, Stream!Stages,
         S!Final, Stream!Final
<1>2. BrowserSpec => Spec
  <2>1. BrowserInit => Init
    BY DEF BrowserInit
  <2>2. [BrowserNext]_browserVars => [Next]_vars
    BY DEF BrowserNext, browserVars
  <2> QED
    BY <2>1, <2>2, PTL DEF BrowserSpec, Spec
<1> QED
  BY <1>1, <1>2, SessionTypes, BrowserStreams, S!StreamsAreTrue, StreamBounds, PTL DEF TypesOK
=============================================================================
