----------------------------- MODULE MCBusEdits -----------------------------
(* Small instances of BusEdits for TLC: two agents, the second of which    *)
(* makes two calls for the file.                                           *)
EXTENDS BusEdits

CONSTANTS a1, a2, c1, c2, c3

AgentOfCall == [c \in Calls |-> IF c = c1 THEN a1 ELSE a2]
=============================================================================
