---------------------------- MODULE SlidingWindow ---------------------------
(***************************************************************************)
(* What _check_rate_limit promises, in one step per call: a call is        *)
(* admitted when its user has fewer than Limit admissions in the window    *)
(* before it, and refused otherwise; the admissions of a user may be       *)
(* forgotten, to bound the number of users tracked.                        *)
(***************************************************************************)
EXTENDS Naturals, FiniteSets

CONSTANTS Calls, Users, Limit, Window

VARIABLES
  now,         \* the clock
  userOf,      \* the user each call is made for
  verdict,     \* per call: "pending", "admitted" or "refused"
  at,          \* per call: the time it was judged by
  forgotten    \* admitted calls whose user was dropped since

vars == <<now, userOf, verdict, at, forgotten>>

(* The admissions of u that count at time t. *)
Counting(u, t) ==
  {c \in Calls \ forgotten : verdict[c] = "admitted" /\ userOf[c] = u /\ t < at[c] + Window}

Init ==
  /\ now \in Nat
  /\ userOf \in [Calls -> Users]
  /\ verdict = [c \in Calls |-> "pending"]
  /\ at = [c \in Calls |-> 0]
  /\ forgotten = {}

Judge(c, t, v) ==
  /\ verdict[c] = "pending"
  /\ t <= now
  /\ verdict' = [verdict EXCEPT ![c] = v]
  /\ at' = [at EXCEPT ![c] = t]
  /\ UNCHANGED <<now, userOf, forgotten>>

Admit(c, t) ==
  /\ Limit > 0 => Cardinality(Counting(userOf[c], t)) < Limit
  /\ Judge(c, t, "admitted")

Refuse(c, t) ==
  /\ Cardinality(Counting(userOf[c], t)) >= Limit
  /\ Judge(c, t, "refused")

Forget(u) ==
  /\ forgotten' = forgotten \cup {c \in Calls : verdict[c] = "admitted" /\ userOf[c] = u}
  /\ UNCHANGED <<now, userOf, verdict, at>>

Tick ==
  /\ now' > now
  /\ UNCHANGED <<userOf, verdict, at, forgotten>>

Next ==
  \/ \E c \in Calls, t \in 0 .. now : Admit(c, t) \/ Refuse(c, t)
  \/ \E u \in Users : Forget(u)
  \/ Tick

Spec == Init /\ [][Next]_vars
=============================================================================
