----------------------------- MODULE DevRunner ------------------------------
(***************************************************************************)
(* main of src/src/dev_runner.py: it starts the API server and the page,   *)
(* waits until one of them has exited or a signal arrives, and takes the   *)
(* other one down.                                                         *)
(***************************************************************************)
CONSTANT None

VARIABLES
  pc,      \* "off", "first", "second", "install", "poll", "sleep", "finally", "codes", "ended"
  child,   \* per process: "none", "running" or its exit code
  told,    \* per process: it was sent SIGTERM
  seen,    \* per process: returncode, None until a poll finds it exited
  status,  \* exit status of the runner, None while it runs
  calm     \* history variable: no signal came before the handlers

processes == <<child, told, seen>>
vars == <<pc, processes, status, calm>>

Processes == {"fastapi", "streamlit"}
Codes == {"ok", "failed", "killed"}
Gone(p) == child[p] \in Codes

NoneAssumption == None \notin Codes

Init ==
  /\ pc = "off"
  /\ child = [p \in Processes |-> "none"]
  /\ told = [p \in Processes |-> FALSE]
  /\ seen = [p \in Processes |-> None]
  /\ status = None
  /\ calm = TRUE

-----------------------------------------------------------------------------
(* python -m src.dev_runner *)
Launch == pc = "off" /\ pc' = "first" /\ UNCHANGED <<processes, status, calm>>

Start(p, here, next) ==
  /\ pc = here
  /\ pc' = next
  /\ child' = [child EXCEPT ![p] = "running"]
  /\ UNCHANGED <<told, seen, status, calm>>

(* A child exits by itself, with any code, or because it was told to. *)
Exit(p) ==
  /\ child[p] = "running"
  /\ \E c \in (IF told[p] THEN {"ok", "killed"} ELSE {"ok", "failed"}) : child' = [child EXCEPT ![p] = c]
  /\ UNCHANGED <<pc, told, seen, status, calm>>

(* signal.signal, twice *)
Install == pc = "install" /\ pc' = "poll" /\ UNCHANGED <<processes, status, calm>>

(* Popen.poll *)
Polled(p) == IF Gone(p) THEN child[p] ELSE None

(* fastapi_proc.poll() is not None or streamlit_proc.poll() is not None:   *)
(* the second is not polled if the first has exited.                       *)
Poll ==
  /\ pc = "poll"
  /\ seen' = [p \in Processes |-> IF p = "fastapi" \/ ~Gone("fastapi") THEN Polled(p) ELSE seen[p]]
  /\ pc' = IF \E p \in Processes : seen'[p] # None THEN "finally" ELSE "sleep"
  /\ UNCHANGED <<child, told, status, calm>>

Sleep == pc = "sleep" /\ pc' = "poll" /\ UNCHANGED <<processes, status, calm>>

(* Mutant of Shutdown: it does nothing once a process has exited. *)
ShutdownTogether ==
  /\ seen' = [p \in Processes |-> Polled(p)]
  /\ told' = [p \in Processes |-> told[p] \/ \A q \in Processes : ~Gone(q)]

(* _terminate_process of both *)
Shutdown ==
  /\ seen' = [p \in Processes |-> Polled(p)]
  /\ told' = [p \in Processes |-> told[p] \/ ~Gone(p)]

(* SIGINT or SIGTERM, handled between two steps of the loop *)
Signal ==
  /\ pc \in {"poll", "sleep", "finally", "codes"}
  /\ Shutdown
  /\ UNCHANGED <<pc, child, status, calm>>

(* Before the handlers are there, a signal or a failing Popen ends the     *)
(* runner and nothing else.                                                *)
Die ==
  /\ pc \in {"first", "second", "install"}
  /\ pc' = "ended"
  /\ status' = "failed"
  /\ calm' = FALSE
  /\ UNCHANGED processes

Finally == pc = "finally" /\ Shutdown /\ pc' = "codes" /\ UNCHANGED <<child, status, calm>>

(* Mutant of ExitCode: only the server's code counts. *)
ExitCodeOfServer == IF seen["fastapi"] = None THEN "ok" ELSE seen["fastapi"]

(* The children are not waited for: a code that was not seen is None. *)
ExitCode ==
  IF seen["fastapi"] \notin {None, "ok"} THEN seen["fastapi"]
  ELSE IF seen["streamlit"] \notin {None, "ok"} THEN seen["streamlit"] ELSE "ok"

End == pc = "codes" /\ pc' = "ended" /\ status' = ExitCode /\ UNCHANGED <<processes, calm>>

Main ==
  \/ Start("fastapi", "first", "second") \/ Start("streamlit", "second", "install")
  \/ Install \/ Poll \/ Sleep \/ Finally \/ End

(* Only the children are left, or nothing. *)
Over == pc = "ended" /\ UNCHANGED vars

Next == Launch \/ Main \/ Signal \/ Die \/ Over \/ \E p \in Processes : Exit(p)

Spec == Init /\ [][Next]_vars

(* The runner goes on, and a child that was told to exit does. *)
Fairness == WF_vars(Main) /\ \A p \in Processes : WF_vars(told[p] /\ Exit(p))

FairSpec == Spec /\ Fairness

-----------------------------------------------------------------------------
(* Once its handlers are there, the runner never leaves a child alone that *)
(* was not told to exit, in whatever order exits and signals come.         *)
NoOrphans == (pc = "ended" /\ calm) => \A p \in Processes : told[p] \/ Gone(p)

(* A child that failed by itself is reported, although the loop does not   *)
(* poll both, and a second one may exit while it is told to.               *)
FailureIsReported ==
  (pc = "ended" /\ calm) =>
    ((\E p \in Processes : child[p] = "failed" /\ ~told[p]) => status \notin {None, "ok"})

(* With its handlers in place the runner never leaves a child alone that   *)
(* was not told to exit, and it reports a child that failed by itself.     *)
RunnerEndsWell == NoOrphans /\ FailureIsReported

(* When one of them exits, the other one and the runner end too. *)
OneDownAllDown ==
  (calm /\ \E p \in Processes : Gone(p)) ~>
    (~calm \/ (pc = "ended" /\ \A p \in Processes : Gone(p)))
=============================================================================
