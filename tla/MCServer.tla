------------------------------ MODULE MCServer ------------------------------
(***************************************************************************)
(* What a request meets in the server process, and the server's start, on  *)
(* small instances: the way of a statement to the database (module         *)
(* PreviewApproval), the execution of one, the stream that reports it, the *)
(* configuration and the runner.  They share no variable, so that the      *)
(* behaviours of each are those in which it alone is used: part says which *)
(* one.                                                                    *)
(***************************************************************************)
EXTENDS MCPreviewApproval

CONSTANTS
  Timeout, MaxRows, MaxSize, MaxWait, MaxTime,
  Streams, MaxRetries, MaxBacklog,
  Fields, Unknown

VARIABLES
  part,
  kind, target, driver, executorPc, conn, limit, found, outcome, named, rows, truncated, now,
  start,
  phase, stage, attempt, odd, posted, ready, queue, gen, sent,
  environ, dotenv, yaml, configPc, left, resolved,
  runnerPc, child, told, seen, status, calm

Exec == INSTANCE Executor WITH pc <- executorPc, size <- found

Stream == INSTANCE StreamRoute

Load == INSTANCE Config WITH pc <- configPc, settings <- resolved

Run == INSTANCE DevRunner WITH pc <- runnerPc

ASSUME PartsAssumption ==
  /\ Exec!BoundsAssumption /\ Stream!BoundsAssumption
  /\ Load!KeysAssumption /\ Run!NoneAssumption

Parts == {"approval", "executor", "stream", "config", "runner"}

(* A part that is not used has some parameters. *)
Any(set) == CHOOSE x \in set : TRUE

ServerInit ==
  /\ part \in Parts
  /\ Init
  /\ part # "approval" => /\ schema = Any(Schemas) /\ filters = Any(FilterSets)
                          /\ settings = Any(Settings) /\ size = Any(Sizes)
  /\ Exec!Init
  /\ Stream!Init
  /\ part # "stream" => \A s \in Streams : ~odd[s]
  /\ Load!Init
  /\ part # "config" => /\ yaml = {}
                        /\ \A f \in Fields : environ[f] = None /\ dotenv[f] = None
  /\ Run!Init

executorVars == <<kind, target, driver, executorPc, conn, limit, found, outcome, named, rows,
                  truncated, now, start>>
streamVars == <<phase, stage, attempt, odd, posted, ready, queue, gen, sent>>
configVars == <<environ, dotenv, yaml, configPc, left, resolved>>
runnerVars == <<runnerPc, child, told, seen, status, calm>>
serverVars == <<part, vars, executorVars, streamVars, configVars, runnerVars>>

ServerNext ==
  /\ UNCHANGED part
  /\ \/ /\ part = "approval" /\ Next
        /\ UNCHANGED <<executorVars, streamVars, configVars, runnerVars>>
     \/ /\ part = "executor" /\ Exec!Next
        /\ UNCHANGED <<vars, streamVars, configVars, runnerVars>>
     \/ /\ part = "stream" /\ Stream!Next
        /\ UNCHANGED <<vars, executorVars, configVars, runnerVars>>
     \/ /\ part = "config" /\ Load!Next
        /\ UNCHANGED <<vars, executorVars, streamVars, runnerVars>>
     \/ /\ part = "runner" /\ Run!Next
        /\ UNCHANGED <<vars, executorVars, streamVars, configVars>>

(* The thread has ended, and the generator does not wait for more. *)
StreamOver ==
  /\ part = "stream"
  /\ \A s \in Streams : phase[s] = "ended" /\ gen[s] \in {"finished", "broken", "closed"}
  /\ ready = <<>>
  /\ UNCHANGED serverVars

(* The fairness of the parts; none of it is in force before its part is    *)
(* used.                                                                   *)
ServerSpec ==
  /\ ServerInit /\ [][ServerNext \/ StreamOver]_serverVars
  /\ Exec!Fairness /\ Stream!Fairness /\ Run!Fairness

-----------------------------------------------------------------------------
(* However a call of the executor ends, it leaves no connection open.      *)
NothingLeftOpen == Exec!NothingLeftOpen

(* What a call of the executor reports is true: the rows are the first     *)
(* MaxRows, truncated says whether there were more, and a timeout is       *)
(* reported to a caller who waited less than Timeout only if the database  *)
(* raised an error whose text names one.                                   *)
OutcomeIsTrue == Exec!OutcomeIsTrue

(* Every call of the executor ends.                                        *)
CallEnds == Exec!CallEnds

(* A stream heard to its end has one result or error that agrees with its  *)
(* last stage.                                                             *)
EndsAsItSays == Stream!EndsAsItSays

(* The stream of a client that stays ends, and its thread always.          *)
StreamsEnd == Stream!StreamsEnd

(* Every field has the value of the last source that gives it, if names    *)
(* are in capitals.                                                        *)
LastCapitalWins == Load!LastCapitalWins

(* With its handlers in place the runner never leaves a child alone that   *)
(* was not told to exit, and it reports a child that failed by itself.     *)
RunnerEndsWell == Run!RunnerEndsWell

(* When one of the children exits, the other one and the runner end too.   *)
OneDownAllDown == Run!OneDownAllDown
=============================================================================
