----------------------------- MODULE MCChatTurns -----------------------------
(* Two turns of one author, one of them privileged with two tool calls.       *)
EXTENDS ChatTurns

CONSTANTS t1, t2, c1, c2
=============================================================================
