-------------------------------- MODULE Pool --------------------------------
(***************************************************************************)
(* The block storage of pool.rs: one lifecycle word per block, moved only  *)
(* by compare-exchange.  A handle is one Allocation value in the memory of *)
(* a participant; dropping it releases the block, detaching it leaves the  *)
(* block to whoever holds the token.                                       *)
(*                                                                         *)
(* Each compare-exchange compares the whole word, generation included, and *)
(* the loops around it only retry, so an operation is the one step of its  *)
(* successful exchange, or the load that makes it return.                  *)
(***************************************************************************)
EXTENDS Integers, FiniteSets

CONSTANTS
    Participants,   \* slots of the participant table that map the region
    NoOne,          \* nobody: no owner in a word, no allocation in a handle, `None`
    Blocks,         \* payload slots of all size classes
    Handles,        \* Allocation values
    Home,           \* the participant a handle lives in
    Mortal,         \* participants that may die
    MaxGeneration   \* MAX_GENERATION: a block of this generation retires once free

\* a lifecycle word, and the part of a transferred token that names an allocation
Generations == 0 .. MaxGeneration
State == [generation : Generations, allocated : BOOLEAN, owner : Participants \cup {NoOne}]
Token == [block : Blocks, generation : 1 .. MaxGeneration]

ASSUME PoolAssumption ==
    /\ NoOne \notin Participants
    /\ NoOne \notin Token
    /\ Home \in [Handles -> Participants]
    /\ Mortal \subseteq Participants
    /\ MaxGeneration \in Nat \ {0}

VARIABLES
    state,          \* the lifecycle word of each block
    held,           \* the allocation a handle owns; NoOne: live = false
    alive,          \* participants that still run
    freed           \* history: allocations that ended

poolVars == <<state, held, alive, freed>>

----------------------------------------------------------------------------
Free(g) == [generation |-> g, allocated |-> FALSE, owner |-> NoOne]
Local(g, p) == [generation |-> g, allocated |-> TRUE, owner |-> p]
Detached(g) == [generation |-> g, allocated |-> TRUE, owner |-> NoOne]
Canonical(s) == s.allocated \/ s.owner = NoOne

Live(h) == held[h] # NoOne

PoolInit ==
    /\ state = [b \in Blocks |-> Free(0)]
    /\ held = [h \in Handles |-> NoOne]
    /\ alive = Participants
    /\ freed = {}

Runs(h) == Home[h] \in alive
Exchange(b, s) == state' = [state EXCEPT ![b] = s]

----------------------------------------------------------------------------
(* PoolRef and Allocation.                                                 *)

\* Mutant: the generation of a reused block is not advanced after the first time.
ClaimSameGeneration(h, b) ==
    LET g == IF state[b].generation = 0 THEN 1 ELSE state[b].generation IN
    /\ Runs(h) /\ ~Live(h)
    /\ Canonical(state[b]) /\ ~state[b].allocated
    /\ Exchange(b, Local(g, Home[h]))
    /\ held' = [held EXCEPT ![h] = [block |-> b, generation |-> g]]
    /\ UNCHANGED <<alive, freed>>

\* PoolRef::claim for a layout whose size class leads to block b; a zero-sized
\* layout touches no word
Claim(h, b) ==
    LET g == state[b].generation + 1 IN
    /\ Runs(h) /\ ~Live(h)
    /\ Canonical(state[b]) /\ ~state[b].allocated
    /\ state[b].generation < MaxGeneration
    /\ Exchange(b, Local(g, Home[h]))
    /\ held' = [held EXCEPT ![h] = [block |-> b, generation |-> g]]
    /\ UNCHANGED <<alive, freed>>

\* PoolRef::release; the exchange may fail only against the debug assertion
Release(h) ==
    LET t == held[h] IN
    /\ Runs(h) /\ Live(h)
    /\ IF state[t.block] = Local(t.generation, Home[h])
       THEN Exchange(t.block, Free(t.generation)) /\ freed' = freed \cup {t}
       ELSE UNCHANGED <<state, freed>>
    /\ held' = [held EXCEPT ![h] = NoOne]
    /\ UNCHANGED alive

\* Allocation::detach; Owned is answered when the exchange fails
Detach(h) ==
    LET t == held[h] IN
    /\ Runs(h) /\ Live(h)
    /\ state[t.block] = Local(t.generation, Home[h])
    /\ Exchange(t.block, Detached(t.generation))
    /\ held' = [held EXCEPT ![h] = NoOne]
    /\ UNCHANGED <<alive, freed>>

\* PoolRef::takeover, for adopt, admit and discard; Owned is answered otherwise
Takeover(h, t) ==
    /\ Runs(h) /\ ~Live(h)
    /\ state[t.block] = Detached(t.generation)
    /\ Exchange(t.block, Local(t.generation, Home[h]))
    /\ held' = [held EXCEPT ![h] = t]
    /\ UNCHANGED <<alive, freed>>

----------------------------------------------------------------------------
(* Reclamation by others.                                                  *)

\* release_token answers false: evidence that does not fit the token
Refuses(t, owner) ==
    LET s == state[t.block] IN
    \/ ~Canonical(s)
    \/ s.generation < t.generation
    \/ /\ s.generation = t.generation /\ s.allocated
       /\ s.owner # NoOne /\ s.owner # owner

\* release_token answers true: the allocation is over, now or already
ReleaseToken(t, owner) ==
    LET s == state[t.block] IN
    /\ ~Refuses(t, owner)
    /\ IF s.generation = t.generation /\ s.allocated
       THEN Exchange(t.block, Free(t.generation)) /\ freed' = freed \cup {t}
       ELSE UNCHANGED <<state, freed>>
    /\ UNCHANGED <<held, alive>>

\* Mutant: only ALLOCATED is cleared.
RecoverBlockKeepsOwner(b, dead) ==
    /\ IF state[b].allocated /\ state[b].owner = dead
       THEN /\ Exchange(b, [state[b] EXCEPT !.allocated = FALSE])
            /\ freed' = freed \cup {[block |-> b, generation |-> state[b].generation]}
       ELSE UNCHANGED <<state, freed>>
    /\ UNCHANGED <<held, alive>>

\* Mutant: whoever owns the block.
RecoverBlockAny(b, dead) ==
    /\ IF state[b].allocated
       THEN /\ Exchange(b, Free(state[b].generation))
            /\ freed' = freed \cup {[block |-> b, generation |-> state[b].generation]}
       ELSE UNCHANGED <<state, freed>>
    /\ UNCHANGED <<held, alive>>

\* Storage::recover at block b
RecoverBlock(b, dead) ==
    /\ IF state[b].allocated /\ state[b].owner = dead
       THEN /\ Exchange(b, Free(state[b].generation))
            /\ freed' = freed \cup {[block |-> b, generation |-> state[b].generation]}
       ELSE UNCHANGED <<state, freed>>
    /\ UNCHANGED <<held, alive>>

PoolDie(p) ==
    /\ p \in Mortal \cap alive
    /\ alive' = alive \ {p}
    /\ UNCHANGED <<state, held, freed>>

----------------------------------------------------------------------------
(* The pool on its own: tokens are presented by anybody at any time, and   *)
(* recovery runs for any participant that is dead.                         *)

PoolNext ==
    \/ \E h \in Handles : \/ \E b \in Blocks : Claim(h, b)
                          \/ Release(h)
                          \/ Detach(h)
                          \/ \E t \in Token : Takeover(h, t)
    \/ \E t \in Token, owner \in (Participants \ alive) \cup {NoOne} : ReleaseToken(t, owner)
    \/ \E b \in Blocks, dead \in Participants \ alive : RecoverBlock(b, dead)
    \/ \E p \in Participants : PoolDie(p)

PoolSpec == PoolInit /\ [][PoolNext]_poolVars

----------------------------------------------------------------------------
(* Properties.                                                             *)

\* The words are canonical and the handles name allocations.
PoolTypeOK ==
    /\ state \in [Blocks -> State]
    /\ \A b \in Blocks : Canonical(state[b]) /\ (state[b].allocated => state[b].generation > 0)
    /\ held \in [Handles -> Token \cup {NoOne}]
    /\ alive \subseteq Participants
    /\ freed \subseteq Token

\* A running handle owns its block alone: the word names its participant and its
\* generation, and no other running handle has the block ("a slot CAS grants the
\* only mutable payload authority", pool.rs).
OwnedByOne ==
    \A h \in Handles : Runs(h) /\ Live(h) =>
        /\ state[held[h].block] = Local(held[h].generation, Home[h])
        /\ \A k \in Handles \ {h} : Runs(k) /\ Live(k) => held[k].block # held[h].block

\* An allocation that ended does not come back: no handle, and no word, carries a
\* generation that was released, reclaimed from a token or recovered ("identifiers
\* are accepted only for their current generations, which retire instead of
\* wrapping", docs/architecture.md).
EndedStaysEnded ==
    \A t \in freed :
        /\ state[t.block].generation >= t.generation
        /\ state[t.block].generation = t.generation => ~state[t.block].allocated
        /\ \A h \in Handles : Runs(h) /\ Live(h) => held[h] # t

\* The block of a running handle is released by that handle only: no token that
\* somebody else presents and no recovery ends the allocation ("Pool recovery
\* scans lifecycle words for the exact dead owner and reclaims only matching
\* generations", docs/architecture.md).
OnlyTheHandleEndsIt ==
    [][\A h \in Handles : Runs(h) /\ Live(h) /\ held[h] \in freed' => held'[h] = NoOne]_poolVars
=============================================================================
