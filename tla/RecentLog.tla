------------------------------ MODULE RecentLog -----------------------------
(***************************************************************************)
(* What the service promises of its history: it is the window of the Bound *)
(* youngest entries (all of them when Bound is 0), in the order in which   *)
(* they were made, each of them made once; nothing else happens to it.     *)
(***************************************************************************)
EXTENDS Slices

CONSTANTS Entries, Bound

VARIABLES recent, recorded

Init == recent = <<>> /\ recorded = {}

Record(e) ==
  /\ e \notin recorded
  /\ recent' = LastN(Append(recent, e), Bound)
  /\ recorded' = recorded \cup {e}

Next == \E e \in Entries : Record(e)

Spec == Init /\ [][Next]_<<recent, recorded>>
=============================================================================
