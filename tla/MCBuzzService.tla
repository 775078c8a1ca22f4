--------------------------- MODULE MCBuzzService ---------------------------
(* Two clients, an owner with two authorizations and another with one.       *)
EXTENDS BuzzService

CONSTANTS c1, c2, ann, bob, ann1, ann2, bob1

MCOwnerOf == [a \in Auth |-> IF a = bob1 THEN bob ELSE ann]
=============================================================================
