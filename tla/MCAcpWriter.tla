----------------------------- MODULE MCAcpWriter -----------------------------
(* Two connections for one slot, a queue of two frames.                      *)
EXTENDS AcpWriter

CONSTANTS c1, c2, w1, w2
==============================================================================
