------------------------------ MODULE MCBrowser -----------------------------
(***************************************************************************)
(* What a browser is in touch with, on small instances: the session of the *)
(* front end (module ApprovalSession), its saved queries, and two streams  *)
(* of answers on one event loop.  They share no variable, so that the      *)
(* behaviours of each are those in which it alone is used: part says which *)
(* one.                                                                    *)
(***************************************************************************)
EXTENDS ApprovalSession

CONSTANTS Tabs, Names, MaxSaves, NotOpen, Streams, MaxRetries, MaxBacklog

VARIABLES
  part,
  list, savedPc, file, last, saver, saves, shared, hurt,
  phase, stage, attempt, odd, posted, ready, queue, gen, sent

Saved == INSTANCE SavedQueries WITH pc <- savedPc

Stream == INSTANCE StreamRoute

ASSUME PartsAssumption == Saved!BoundsAssumption /\ Stream!BoundsAssumption

Parts == {"session", "saved", "streams"}

(* The form of a session that is not used asks some question, and the rows *)
(* of a stream that is not used are no matter.                             *)
BrowserInit ==
  /\ part \in Parts
  /\ Init
  /\ part # "session" => form.question = CHOOSE q \in Questions : TRUE
  /\ Saved!Init
  /\ Stream!Init
  /\ part # "streams" => \A s \in Streams : ~odd[s]

savedVars == <<list, savedPc, file, last, saver, saves, shared, hurt>>
streamVars == <<phase, stage, attempt, odd, posted, ready, queue, gen, sent>>
browserVars == <<part, vars, savedVars, streamVars>>

BrowserNext ==
  /\ UNCHANGED part
  /\ \/ part = "session" /\ Next /\ UNCHANGED <<savedVars, streamVars>>
     \/ part = "saved" /\ Saved!Next /\ UNCHANGED <<vars, streamVars>>
     \/ part = "streams" /\ Stream!Next /\ UNCHANGED <<vars, savedVars>>

BrowserSpec == BrowserInit /\ [][BrowserNext]_browserVars

-----------------------------------------------------------------------------
(* Every variable of the session and of the streams holds values of its    *)
(* kind.                                                                   *)
TypesOK == TypeOK /\ Stream!TypeOK

(* A name stands for one item in the list of every tab, a whole file is    *)
(* the list of the session that wrote last, and one tab at a time loses no *)
(* save, over closed tabs and restarts.                                    *)
SavesAreKept == Saved!SavesAreKept

(* Each of the clients hears what its own thread handed over, in order.    *)
HeardInOrder == Stream!HeardInOrder
=============================================================================
