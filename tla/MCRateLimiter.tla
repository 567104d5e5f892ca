---------------------------- MODULE MCRateLimiter ---------------------------
(* RateLimiter on a small instance: four calls for up to three users. *)
EXTENDS RateLimiter, TLC

CONSTANTS c1, c2, c3, c4, alice, bob, carol

MCCalls == {c1, c2, c3, c4}
MCUsers == {alice, bob, carol}

For(u1, u2, u3, u4) == (c1 :> u1) @@ (c2 :> u2) @@ (c3 :> u3) @@ (c4 :> u4)

(* One user comes back after another and meets the limit; three users meet *)
(* the bound.  No action tells one call, or one user, from another.        *)
MCRequests == {For(alice, alice, alice, bob), For(alice, alice, bob, carol)}
=============================================================================
