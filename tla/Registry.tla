------------------------------ MODULE Registry ------------------------------
(***************************************************************************)
(* What the directory promises: each entry names one layout at a time, by  *)
(* a generation that is used once.  A layout appears, disappears, or is    *)
(* retained for ever.  Transactions, the heap and crashes are not visible  *)
(* at this level; Directory.tla implements it.                             *)
(***************************************************************************)
EXTENDS Naturals

CONSTANTS Entries, MaxGeneration

VARIABLE cell  \* per entry: whether a layout is there, and the last generation used

Cells == [state : {"vacant", "present", "retained"}, gen : 0 .. MaxGeneration]

RegistryInit == cell = [e \in Entries |-> [state |-> "vacant", gen |-> 0]]

Become(e, state, gen) == cell' = [cell EXCEPT ![e] = [state |-> state, gen |-> gen]]

Appear(e) ==
    /\ cell[e].state = "vacant" /\ cell[e].gen < MaxGeneration
    /\ Become(e, "present", cell[e].gen + 1)

Disappear(e) == cell[e].state = "present" /\ Become(e, "vacant", cell[e].gen)

\* an entry whose storage cannot be proved free keeps its generation, or the
\* one its creator had begun to use
Retain(e) ==
    /\ cell[e].state # "retained"
    /\ \E g \in {cell[e].gen, cell[e].gen + 1} : g <= MaxGeneration /\ Become(e, "retained", g)

RegistryNext == \E e \in Entries : Appear(e) \/ Disappear(e) \/ Retain(e)
RegistrySpec == RegistryInit /\ [][RegistryNext]_cell
=============================================================================
