----------------------------- MODULE MCBuzzRelay -----------------------------
(* A lane and the service over one connection.  The community has two         *)
(* channels, one more than the bot may follow; at first it has at most one.  *)
EXTENDS BuzzRelay

CONSTANTS lane, e1, e2, s1, s2, x, y

MCInit == Init /\ roster \in {{}, {x}}
MCSpec == MCInit /\ [][Next]_vars /\ Fairness
=============================================================================
