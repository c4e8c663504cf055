------------------------------ MODULE MCMemory ------------------------------
(* Two processes, one of them mortal, and a small heap. *)
EXTENDS Memory, TLC

CONSTANTS p1, p2

Create(info) == [create |-> TRUE, region |-> "r", info |-> info]
Expect(region) == [create |-> FALSE, region |-> region, info |-> "auto"]
MCPlans == (p1 :> {Create("auto"), Create("large")}) @@ (p2 :> {Create("auto"), Expect("r"), Expect("q")})

MCShape == <<>>
Request(size, align) == [size |-> size, align |-> align]
MCRequests == {Request(2, 1), Request(9, 8), Request(24, 1)}
MCRanges == {<<64, 64>>, <<100, 1000>>, <<64, 4096>>, <<512, 100>>}

\* The heap is explored in depth while its creator is alone; while sessions
\* come and go it holds at most one small block, and nobody dies.
Alone == pc[p1] = "in" /\ member[p1] = [slot |-> 1, gen |-> 1] /\ pc[p2] = "out" /\ root[2].gen = 0
HeapBound ==
    \/ blocks = {} \/ Alone
    \/ /\ Cardinality(blocks) = 1 /\ \A b \in blocks : b.size = 2
       /\ lost = {} /\ root[1].gen = 1 /\ \E p \in Processes : pc[p] \in {"in", "out"}

\* The second slot is taken once, and one process dies.
HistoryBound == root[2].gen <= 1 /\ Cardinality(lost) <= 1
Bounds == HeapBound' /\ HistoryBound'

\* A region whose initialiser failed or died is of no further use.
Usable ==
    \A l \in Layouts :
        /\ layout[l].status # "corrupted"
        /\ layout[l].status = "initializing" =>
             \E p \in Processes : pc[p] \in {"init", "publish"} /\ at[p] = l
=============================================================================
