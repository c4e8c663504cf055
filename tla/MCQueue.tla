------------------------------ MODULE MCQueue ------------------------------
(***************************************************************************)
(* Small instances of Queue: participant a sends, b receives, c and d      *)
(* repair, and e receives in the place of a dead b.                        *)
(***************************************************************************)
EXTENDS Queue, TLC

CONSTANTS a, b, c, d, e, p1, p2, c1, c2, e1, r1, r2, r3, k1

MCOwnerOf ==
    [h \in Workers \cup Reapers |->
        CASE h \in Producers -> a
          [] h \in {c1, c2} -> b
          [] h = e1 -> e
          [] h \in {r1, r3} -> c
          [] OTHER -> d]

MCFirstHolder == [s \in {"send", "recv"} |-> IF s = "send" THEN a ELSE b]

Interchangeable == Permutations(Producers) \cup Permutations(Consumers \ {e1})

\* bound: not both ends die, as each death triples the states
OneEndDies == a \in alive \/ b \in alive
=============================================================================
