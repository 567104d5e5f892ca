------------------------------- MODULE Slices -------------------------------
(* Python's list expressions, as the service uses them to bound and to     *)
(* search its memory.                                                      *)
EXTENDS Naturals, Sequences

(* s[-n:] for n >= 0.  Minus zero is zero, so s[-0:] is the whole list. *)
LastN(s, n) == IF n = 0 \/ Len(s) <= n THEN s ELSE SubSeq(s, Len(s) - n + 1, Len(s))

(* [x for x in s if x in T] *)
Filter(s, T) ==
  LET f[n \in 0..Len(s)] ==
        IF n = 0 THEN <<>>
        ELSE IF s[n] \in T THEN Append(f[n - 1], s[n]) ELSE f[n - 1]
  IN  f[Len(s)]
=============================================================================
