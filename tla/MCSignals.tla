----------------------------- MODULE MCSignals -----------------------------
(***************************************************************************)
(* Small instances of Signals: participant a sends, b receives.            *)
(***************************************************************************)
EXTENDS Signals

CONSTANTS a, b, p1, p2, c1, c2, k1, k2

MCOwnerOf == [h \in Workers |-> IF h \in Producers THEN a ELSE b]
MCFirstHolder == [s \in {"send", "recv"} |-> IF s = "send" THEN a ELSE b]
MCFinisher == [h \in Consumers |-> IF h = c1 THEN k1 ELSE k2]

\* bound: the receiving end closes early and when no permit was cancelled
OneDisturbance == gate["recv"] # 0 => ~silent /\ Pos(tail) <= 1
=============================================================================
