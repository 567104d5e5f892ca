--------------------------- MODULE ApprovalSession --------------------------
(***************************************************************************)
(* A browser session of the front end (main in src/streamlit_app.py):      *)
(* clarify, preview, and execution after approval.                         *)
(*                                                                         *)
(* Streamlit runs the script from top to bottom after every interaction,   *)
(* with the values of the widgets at that moment.  What lasts is in        *)
(* st.session_state.  An interaction during a run ends it at the script's  *)
(* next access to the state or the page: between two writes, or between a  *)
(* response and the write that stores it.  script is what the run has      *)
(* still to do: requests, and writes <<slot, value>>.                      *)
(*                                                                         *)
(* A preview is named by its number; its number also stands for its SQL.   *)
(* A question stands for the question and the database it is asked of.     *)
(***************************************************************************)
EXTENDS Naturals, Sequences, FiniteSets

CONSTANTS
  Questions,
  MaxPreviews,  \* bound: previews made
  MaxFaults,    \* bound: interrupted runs, and executions without a response
  None          \* Python's None

ASSUME BoundsAssumption == MaxPreviews \in Nat /\ MaxFaults \in Nat

VARIABLES
  form,      \* of the run: the values of the widgets
  button,    \* of the run: the button that was pressed
  script,    \* of the run: what it has still to do
  state,     \* st.session_state
  previews,  \* the previews the server made
  executed,  \* history variable: the approved requests it executed
  faults     \* history variable

vars == <<form, button, script, state, previews, executed, faults>>

Forms == [question : Questions, approval : BOOLEAN, streaming : BOOLEAN]
Buttons == {"none", "submit", "apply", "approve"}

Init ==
  /\ form \in [question : Questions, approval : {TRUE}, streaming : {TRUE}]
  /\ button = "none"
  /\ script = <<>>
  /\ state = [clarification |-> "none", preview |-> 0, pending |-> None, result |-> 0]
  /\ previews = <<>>
  /\ executed = <<>>
  /\ faults = 0

-----------------------------------------------------------------------------
Requests == {"/query/clarify", "/query/preview", "/query/approved", "run"}

At(task) == script # <<>> /\ Head(script)[1] = task

(* A response is awaited without a look at the page. *)
Busy == \E request \in Requests : At(request)

(* The page is drawn, and one of its buttons pressed or a widget changed.  *)
Interact(f, b) ==
  /\ ~Busy
  /\ IF script = <<>> THEN UNCHANGED faults
     ELSE faults < MaxFaults /\ faults' = faults + 1
  /\ form' = f
  /\ button' = b
  /\ script' = IF b = "submit" THEN <<<<"/query/clarify">>, <<"page">>>> ELSE <<<<"page">>>>
  /\ UNCHANGED <<state, previews, executed>>

(* The run goes on with these tasks. *)
Continue(tasks) == script' = tasks \o Tail(script)

Write(slot, value) == <<slot, value>>

Assign ==
  /\ script # <<>>
  /\ Head(script)[1] \in DOMAIN state
  /\ state' = [state EXCEPT ![Head(script)[1]] = Head(script)[2]]
  /\ Continue(<<>>)
  /\ UNCHANGED <<form, button, previews, executed, faults>>

(* requests.RequestException: an error is shown, the branch is left. *)
RequestFails ==
  /\ Busy
  /\ Continue(<<>>)
  /\ UNCHANGED <<form, button, state, previews, executed, faults>>

(* Questions to ask clear everything else, and st.rerun() starts a run     *)
(* without a button.                                                       *)
Clarify ==
  /\ At("/query/clarify")
  /\ \/ /\ script' = <<Write("clarification", "asks"), Write("preview", 0),
                      Write("result", 0), Write("pending", None), <<"page">>>>
        /\ button' = "none"
     \/ /\ Continue(<<Write("clarification", "ready"), <<"/query/preview">>>>)
        /\ UNCHANGED button
  /\ UNCHANGED <<form, state, previews, executed, faults>>

Pending(q, p) == [question |-> q, sql |-> p]

(* What follows the preview p: nothing if it is blocked or failed, the     *)
(* wait for approval, or the execution.                                    *)
AfterPreview(p, ready) ==
  IF ~ready THEN <<Write("result", 0), Write("pending", None)>>
  ELSE IF form.approval
  THEN <<Write("pending", Pending(form.question, p)), Write("result", 0)>>
  ELSE <<<<"run">>>>

Preview ==
  /\ At("/query/preview")
  /\ Len(previews) < MaxPreviews
  /\ \E ready \in BOOLEAN :
       LET p == Len(previews) + 1
       IN  /\ previews' = Append(previews, [question |-> form.question, ready |-> ready])
           /\ Continue(<<Write("preview", p)>> \o AfterPreview(p, ready))
  /\ UNCHANGED <<form, button, state, executed, faults>>

(* Mutant of AfterExecution: the approval stays. *)
AfterExecutionPending(p) == <<Write("result", p)>>

AfterExecution(p) == <<Write("result", p), Write("pending", None)>>

(* Without approval: /query/stream, which generates a statement of its     *)
(* own, or /query/approved with the statement of the preview.              *)
Run ==
  /\ At("run")
  /\ executed' = IF form.streaming THEN executed
                 ELSE Append(executed, Pending(form.question, state.preview))
  /\ Continue(AfterExecution(state.preview))
  /\ UNCHANGED <<form, button, state, previews, faults>>

(* Mutant of Approved: the question on the page is sent. *)
ApprovedOnPage == Pending(form.question, state.pending.sql)

Approved == state.pending

(* "Approve and Execute" sends what is pending. *)
Approve ==
  /\ At("/query/approved")
  /\ executed' = Append(executed, Approved)
  /\ Continue(AfterExecution(state.pending.sql))
  /\ UNCHANGED <<form, button, state, previews, faults>>

(* The server executes, and the response does not arrive in time. *)
ResponseIsLost ==
  /\ faults < MaxFaults
  /\ faults' = faults + 1
  /\ \/ At("/query/approved") /\ executed' = Append(executed, Approved)
     \/ /\ At("run") /\ ~form.streaming
        /\ executed' = Append(executed, Pending(form.question, state.preview))
  /\ Continue(<<>>)
  /\ UNCHANGED <<form, button, state, previews>>

(* The rest of the page.  A button exists only while there is something to *)
(* press it for.  "Apply Clarifications" changes nothing: it assigns to    *)
(* question_input, whose widget exists by then, and Streamlit raises.      *)
Page ==
  /\ At("page")
  /\ Continue(IF button = "approve" /\ state.pending # None
              THEN <<<<"/query/approved">>>> ELSE <<>>)
  /\ UNCHANGED <<form, button, state, previews, executed, faults>>

Next ==
  \/ \E f \in Forms, b \in Buttons : Interact(f, b)
  \/ Assign \/ RequestFails \/ ResponseIsLost \/ Page
  \/ Clarify \/ Preview \/ Run \/ Approve

Spec == Init /\ [][Next]_vars

-----------------------------------------------------------------------------
(* Every variable holds values of its kind. *)
Statements == [question : Questions, sql : 1..MaxPreviews]

TypeOK ==
  /\ form \in Forms /\ button \in Buttons
  /\ \A i \in 1..Len(script) : script[i][1] \in Requests \cup {"page"} \cup DOMAIN state
  /\ state.clarification \in {"none", "asks", "ready"}
  /\ state.preview \in 0..MaxPreviews /\ state.result \in 0..MaxPreviews
  /\ state.pending \in Statements \cup {None}
  /\ previews \in Seq([question : Questions, ready : BOOLEAN])
  /\ Len(previews) <= MaxPreviews
  /\ executed \in Seq(Statements)
  /\ faults \in 0..MaxFaults

(* What is sent for execution, by whatever path of interactions, is the    *)
(* SQL of a preview that was ready, together with the question it was made *)
(* for.                                                                    *)
ExecutedWasPreviewed ==
  \A i \in 1..Len(executed) :
    LET p == previews[executed[i].sql]
    IN  p.ready /\ p.question = executed[i].question

(* A previewed statement is executed once, however often the buttons are   *)
(* pressed, and once more for each run that was interrupted and each       *)
(* response that was lost.                                                 *)
ExecutedOnce ==
  \A p \in 1..Len(previews) :
    Cardinality({i \in 1..Len(executed) : executed[i].sql = p}) <= 1 + faults

-----------------------------------------------------------------------------
(* README.md, line 213: "preview first, explicit approve before            *)
(* execution".  The statement about to be executed is the one the page     *)
(* shows as the preview.                                                   *)
ShownIsApproved == At("/query/approved") => state.pending.sql = state.preview
=============================================================================
