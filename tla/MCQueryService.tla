--------------------------- MODULE MCQueryService ---------------------------
(* QueryService on small instances; the .cfg files choose the sizes.  A    *)
(* character may stand for a word.                                         *)
EXTENDS QueryService, TLC

CONSTANTS alice, bob, x, sales, shop

MCCharacters == {alice, bob, x, sales, shop, Colon}

Alice == <<alice>>
Bob == <<bob>>
Sales == <<sales>>
Shop == <<shop>>

OneUser == {Alice}
TwoUsers == {Alice, Bob}
OneQuestion == {Sales}
OneDatabase == {Shop}

(* Any user may ask any question. *)
Everything == Users \X Questions

(* No action tells one user from another. *)
UserSymmetry == Permutations({alice, bob})

(* "sales::x" asked by "alice" has the key of "sales" asked by "x::alice". *)
XAlice == <<x, Colon, Colon, alice>>
SalesX == <<sales, Colon, Colon, x>>

MistakenUsers == {Alice, XAlice}
MistakenQuestions == {Sales, SalesX}
Mistaken == {<<Alice, Sales>>, <<XAlice, Sales>>, <<Alice, SalesX>>}
=============================================================================
