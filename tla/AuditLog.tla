------------------------------ MODULE AuditLog ------------------------------
(***************************************************************************)
(* The audit file (AuditLogger in src/src/security/audit.py), to which the *)
(* event loop and the stream threads append, each through a file object of *)
(* its own.                                                                *)
(*                                                                         *)
(* A record is one write to the end of the file, unless the system writes  *)
(* less than it was given: then the rest is a second write, which fails    *)
(* when the disk is full.  The file is a sequence of pieces: whole lines,  *)
(* heads without a line end, and tails.                                    *)
(***************************************************************************)
EXTENDS Slices, FiniteSets

CONSTANTS
  Records,
  Limit,     \* of recent()
  MaxShort   \* bound: records that are not written at once

BoundsAssumption == Limit \in Nat \ {0} /\ MaxShort \in Nat

VARIABLES
  file,
  pc,     \* per record: "new", "rest", "returned" or "failed"
  log,    \* history variable: the records written at once, in order
  short   \* history variable: the others

vars == <<file, pc, log, short>>

Init ==
  /\ file = <<>>
  /\ pc = [r \in Records |-> "new"]
  /\ log = <<>>
  /\ short = {}

-----------------------------------------------------------------------------
At(r, here, next) == pc[r] = here /\ pc' = [pc EXCEPT ![r] = next]

Piece(r, part) == [record |-> r, part |-> part]

(* Mutant of Extend: the file is opened with "w". *)
Overwrite(piece) == file' = <<piece>>

Extend(piece) == file' = Append(file, piece)

Write(r) ==
  /\ At(r, "new", "returned")
  /\ Extend(Piece(r, "whole"))
  /\ log' = Append(log, r)
  /\ UNCHANGED short

WriteShort(r) ==
  /\ Cardinality(short) < MaxShort
  /\ At(r, "new", "rest")
  /\ Extend(Piece(r, "head"))
  /\ short' = short \cup {r}
  /\ UNCHANGED log

WriteRest(r) ==
  /\ At(r, "rest", "returned")
  /\ Extend(Piece(r, "tail"))
  /\ UNCHANGED <<log, short>>

(* OSError leaves record(), and answer() with it. *)
Fail(r) ==
  /\ At(r, "new", "failed") \/ At(r, "rest", "failed")
  /\ UNCHANGED <<file, log, short>>

(* The process dies and starts again. *)
Crash ==
  /\ \E r \in Records : pc[r] = "rest"
  /\ pc' = [r \in Records |-> IF pc[r] = "rest" THEN "failed" ELSE pc[r]]
  /\ UNCHANGED <<file, log, short>>

Next ==
  \/ \E r \in Records : Write(r) \/ WriteShort(r) \/ WriteRest(r) \/ Fail(r)
  \/ Crash

Spec == Init /\ [][Next]_vars

-----------------------------------------------------------------------------
(* Line i ends with its piece; it is JSON if it is a record and no more.   *)
EndsLine(i) == file[i].part # "head"

StartsLine(i) == i = 1 \/ EndsLine(i - 1)

IsRecord(i) ==
  \/ file[i].part = "whole" /\ StartsLine(i)
  \/ /\ file[i].part = "tail" /\ i > 1
     /\ file[i - 1] = Piece(file[i].record, "head")
     /\ StartsLine(i - 1)

(* f.readlines(): by the piece each line ends with, an unfinished last     *)
(* line included.                                                          *)
Lines == LET n == Len(file)
         IN  Filter([i \in 1..n |-> i], {i \in 1..n : EndsLine(i) \/ i = n})

(* lines[-limit:] *)
Wanted == LastN(Lines, Limit)

(* recent(): json.loads raises on the first line that is no record. *)
Recent ==
  IF \E i \in 1..Len(Wanted) : ~IsRecord(Wanted[i]) THEN <<"JSONDecodeError">>
  ELSE [i \in 1..Len(Wanted) |-> file[Wanted[Len(Wanted) + 1 - i]].record]

(* The records a reader of the file finds. *)
Readable == {file[i].record : i \in {j \in 1..Len(file) : IsRecord(j)}}

Returned == {r \in Records : pc[r] = "returned"}

(* As long as every record was written at once, recent() returns the       *)
(* youngest of them, youngest first, whoever appended in what order.       *)
RecentIsYoungest ==
  short = {} =>
    LET window == LastN(log, Limit)
    IN  Recent = [i \in 1..Len(window) |-> window[Len(window) + 1 - i]]

(* A record written in two parts, or only in part, spoils at most one      *)
(* record besides itself, however the threads interleave and the process   *)
(* restarts.                                                               *)
DamageIsBounded ==
  Cardinality(Returned \ Readable) <= Cardinality(short) + Cardinality(short \cap Returned)

(* recent() returns the youngest records as long as all were written at    *)
(* once, and a torn record spoils at most one other.                       *)
AuditIsReadable == RecentIsYoungest /\ DamageIsBounded
=============================================================================
