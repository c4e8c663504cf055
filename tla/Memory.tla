------------------------------- MODULE Memory ------------------------------
(***************************************************************************)
(* The memory of a region: sessions come and go (Admission.tla), the one   *)
(* that initialises the heap lays it out, and any that is attached uses it *)
(* (Talc.tla).  Blocks outlive the session that allocated them.  A death   *)
(* inside a heap mutation is in Directory.tla.                             *)
(***************************************************************************)
EXTENDS Talc, Admission, Storage

CONSTANT HeapUsers  \* processes that allocate and free

memoryVars == <<talcVars, admissionVars>>

MemoryInit == TalcInit /\ AdmissionInit

\* the body of the heap is laid out where Admission initialises a body
Initialise(p) ==
    /\ InitBody(p)
    /\ IF at[p] = "heap" /\ plan[p].info \in Valid THEN ClaimHeap ELSE UNCHANGED talcVars

UseHeap(p) == p \in HeapUsers /\ pc[p] = "in" /\ TalcNext /\ UNCHANGED admissionVars

MemoryNext ==
    \/ \E p \in Processes : Step(p) /\ UNCHANGED talcVars
    \/ \E p \in Processes : Initialise(p) \/ UseHeap(p)
    \/ \E m \in Members : Supervise(m) /\ UNCHANGED talcVars

MemorySpec == MemoryInit /\ [][MemoryNext]_memoryVars

----------------------------------------------------------------------------
(* Properties of the size computations, stated of the region that nobody   *)
(* has asked for yet, which is one state.                                  *)

Fresh == heap = Raw /\ pc = [p \in Processes |-> "out"] /\ layout["root"].status = "uninitialized"

\* For every extent whose automatic geometry is valid, the classes of the heap
\* are monotone and reach the extent without the clamp of bin ("covering every
\* allocation up to `extent`", talc.rs:620).
ClassesCover == Fresh => \A e \in Extents : Auto(e) # NoGeometry => Covers(Auto(e), e)

\* The header, the control words and the payloads of a pool do not overlap, are
\* aligned and lie inside its extent; the bisection of Geometry::create ends with
\* the largest pool that fits; a reservation starts in the least class that holds
\* its size and alignment, is refused as too large only when there is none, and
\* its probes visit every slot of a class (PoolRef::claim).
PoolIsSound ==
    Fresh => \A c \in Pools :
        /\ Disjoint(c.g)
        /\ Largest(c)
        /\ \A size \in BlockSizes, align \in BlockAligns : Serves(c.g, size, align)
=============================================================================
