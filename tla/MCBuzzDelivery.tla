--------------------------- MODULE MCBuzzDelivery ---------------------------
(* A small hosted community for TLC: messages m1 and m2 of one thread, m3 of *)
(* another, the last one signed one time unit later.                         *)
EXTENDS BuzzDelivery

CONSTANTS m1, m2, m3, thread, direct

MCConversationOf == [e \in Event |-> IF e = m3 THEN direct ELSE thread]
MCCreatedAt == [e \in Event |-> IF e = m1 THEN 1 ELSE 2]
=============================================================================
