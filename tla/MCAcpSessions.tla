---------------------------- MODULE MCAcpSessions ----------------------------
(* Sessions, prompts and connections are interchangeable: names are used in  *)
(* one order, where SYMMETRY would not be sound for liveness.                *)
EXTENDS AcpSessions

CONSTANTS c1, c2, p1, p2, p3, s1, s2, s3

InOrder ==
    /\ pc[p2] # "unsent" => pc[p1] # "unsent"
    /\ pc[p3] # "unsent" => pc[p2] # "unsent"
    /\ home[s2] # NoConn => home[s1] # NoConn
    /\ home[s1] \in {NoConn, c1}

MCSpec == Init /\ [][Next /\ InOrder']_vars /\ Fairness
=============================================================================
