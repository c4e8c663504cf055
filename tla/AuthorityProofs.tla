-------------------------- MODULE AuthorityProofs --------------------------
(***************************************************************************)
(* Proofs that every allocation that moves through the channel has one     *)
(* authority, whoever dies and whoever recovers (Transfer.tla), for any    *)
(* number of participants, handles, blocks, slots and reapers.             *)
(*                                                                         *)
(* Evidence says what the word of a carried token is, by what the slot,    *)
(* the handle at it and the reaper that repairs it are doing.              *)
(***************************************************************************)
EXTENDS TransferProofs

\* the allocation t is detached; it is over
Adrift(t) == state[t.block] = Detached(t.generation)
Ended(t) == state[t.block].generation = t.generation => ~state[t.block].allocated

\* release_token would accept t
FitsWord(t, source) ==
    /\ state[t.block].generation >= t.generation
    /\ state[t.block].generation = t.generation /\ state[t.block].allocated =>
         state[t.block].owner \in {NoOne, source}

\* a handle has resolved the token of its claim and is about to recycle slot i
TakenAt(i) == \E h \in Handles : Runs(h) /\ pc[h] = "taken" /\ at[h] = i

TokenFits(i) ==
    ring[i].token # NoOne =>
        /\ FitsWord(ring[i].token, ring[i].source)
        /\ ring[i].stage = "ready" => Adrift(ring[i].token)
        /\ ring[i].stage = "claimed" /\ ring[i].source \in alive =>
             Adrift(ring[i].token) \/ TakenAt(i)

HandleFits(h) ==
    Runs(h) => /\ pc[h] \in {"claimed", "detached"} => Adrift(ring[at[h]].token)
               /\ pc[h] = "taken" => ~Adrift(ring[at[h]].token)

RepairFits(r) ==
    r \in alive /\ fix[r] # NotFixing /\ fix[r].resolved /\ ring[fix[r].slot].token # NoOne =>
        Ended(ring[fix[r].slot].token)

\* a token is carried once, and whoever holds it is at its slot
CarriedOnce ==
    \A i, j \in Slots : ring[i].token # NoOne /\ ring[i].token = ring[j].token => i = j
HeldAt(h) ==
    Runs(h) /\ Live(h) =>
        \A i \in Slots : held[h] = ring[i].token => at[h] = i /\ pc[h] \in {"staged", "taken"}

\* somebody answers for the allocation of block b
Named(b) == [block |-> b, generation |-> state[b].generation]
Answered(b) ==
    state[b].allocated =>
        \/ \E h \in Handles : Runs(h) /\ Home[h] = state[b].owner /\ held[h] = Named(b)
        \/ state[b].owner \in Participants \ (alive \cup reaped)
        \/ state[b].owner = NoOne /\ \E i \in Slots : ring[i].token = Named(b)

Evidence ==
    /\ \A i \in Slots : TokenFits(i)
    /\ \A h \in Handles : HandleFits(h) /\ HeldAt(h)
    /\ \A r \in Reapers : RepairFits(r)
    /\ CarriedOnce
    /\ \A b \in Blocks : Answered(b)

\* what the proofs carry from state to state
Base == Shape /\ PoolInv /\ Evidence

----------------------------------------------------------------------------
\* The types that the proofs below use.
LEMMA BaseTypes ==
    ASSUME Base
    PROVE  /\ ring \in [Slots -> SlotWords] /\ state \in [Blocks -> State]
           /\ held \in [Handles -> Token \cup {NoOne}] /\ NoOne \notin Token
           /\ pc \in [Handles -> Steps] /\ at \in [Handles -> Slots \cup {NoSlot}]
           /\ NoOne \notin Participants /\ alive \subseteq Participants
           /\ reaped \subseteq Participants \ alive
  BY Zenon, PoolAssumption DEF Base, Shape, TransferTypeOK, SlotWords, PoolInv, PoolTypeOK, Steps

\* A token names a generation of the lifecycle field.
LEMMA TokenGenerations == \A t \in Token : t.generation \in Generations
  BY PoolAssumption DEF Token, Generations

\* A carried token names a block and a generation.
LEMMA TokenTypes ==
    ASSUME Base, NEW i \in Slots, ring[i].token # NoOne
    PROVE  /\ ring[i].token \in Token /\ ring[i].token.block \in Blocks
           /\ ring[i].token.generation \in Nat
           /\ state[ring[i].token.block] \in State
           /\ state[ring[i].token.block].generation \in Nat
           /\ ring[i].token = [block |-> ring[i].token.block,
                               generation |-> ring[i].token.generation]
  <1>1. ring[i].token \in Token
    BY Zenon, BaseTypes DEF SlotWords
  <1>2. ring[i].token.block \in Blocks /\ ring[i].token.generation \in Nat
    BY <1>1 DEF Token
  <1>3. ring[i].token = [block |-> ring[i].token.block, generation |-> ring[i].token.generation]
    BY Zenon, <1>1 DEF Token
  <1> QED
    BY <1>1, <1>2, <1>3, BaseTypes DEF State, Generations

\* The token at a handle that has staged or claimed one.
LEMMA BusyToken ==
    ASSUME Base, NEW h \in Handles, Runs(h),
           pc[h] \in {"staged", "detached", "claimed", "taken"}
    PROVE  /\ at[h] \in Slots /\ ring[at[h]].token # NoOne /\ ring[at[h]].source = Home[h]
           /\ Home[h] \in alive /\ Busy(h)
           /\ ring[at[h]].stage = IF pc[h] \in {"staged", "detached"} THEN "staged" ELSE "claimed"
  <1>1. Busy(h)
    BY Zenon DEF Busy
  <1>2. /\ at[h] \in Slots /\ ring[at[h]].source = Home[h] /\ Agrees(pc[h], ring[at[h]].stage)
    BY Zenon, <1>1 DEF Base, Shape, HandlesFit
  <1>3. ring[at[h]].stage = IF pc[h] \in {"staged", "detached"} THEN "staged" ELSE "claimed"
    BY Zenon, <1>2 DEF Agrees
  <1>4. ring[at[h]].token # NoOne
    BY Zenon, <1>2, <1>3 DEF Base, Shape, SlotsFit
  <1> QED
    BY Zenon, <1>1, <1>2, <1>3, <1>4 DEF Runs

\* An allocated block is named by a token.
LEMMA NamedToken ==
    ASSUME Base, NEW b \in Blocks, state[b].allocated
    PROVE  /\ Named(b) \in Token /\ Named(b) # NoOne /\ Named(b).block = b
           /\ Named(b).generation = state[b].generation
  <1>1. state[b].generation \in 1 .. MaxGeneration
    BY BaseTypes, PoolAssumption DEF Base, PoolInv, PoolTypeOK, State, Generations
  <1>2. Named(b) \in Token
    BY Zenon, <1>1 DEF Named, Token
  <1> QED
    BY Zenon, <1>2, BaseTypes DEF Named

\* Words are equal to detached words only in their generation, allocated and without
\* an owner.
LEMMA AdriftFields ==
    ASSUME NEW t, Adrift(t)
    PROVE  /\ state[t.block].generation = t.generation /\ state[t.block].allocated
           /\ state[t.block].owner = NoOne
  BY WordFields DEF Adrift

\* A word of block b is exchanged for w.  Slots that carry another generation of b
\* keep their evidence.
LEMMA OtherTokens ==
    ASSUME Base, NEW b \in Blocks, NEW w \in State, Exchange(b, w),
           w.generation >= state[b].generation,
           w.generation > state[b].generation => ~state[b].allocated,
           ring' = ring, alive' = alive, NEW i \in Slots, TakenAt(i) => TakenAt(i)',
           ring[i].token # NoOne,
           ring[i].token.block # b \/ ring[i].token.generation # w.generation
    PROVE  TokenFits(i)' /\ (Ended(ring[i].token) => Ended(ring[i].token)')
  <1>1. PICK t : t = ring[i].token
    BY Zenon
  <1>0. w.generation \in Nat
    BY DEF State, Generations
  <1>2. /\ t \in Token /\ t.block \in Blocks /\ t.generation \in Nat
        /\ state[t.block].generation \in Nat /\ w.generation \in Nat
    BY Zenon, <1>0, <1>1, TokenTypes
  <1>3. TokenFits(i)
    BY Zenon DEF Base, Evidence
  <1>4. CASE t.block # b
    <2>1. state'[t.block] = state[t.block]
      BY Zenon, <1>2, <1>4, BaseTypes DEF Exchange
    <2> QED
      BY Zenon, <1>1, <1>3, <2>1 DEF TokenFits, FitsWord, Adrift, Ended
  <1>5. CASE t.block = b
    <2>1. state'[t.block] = w
      BY Zenon, <1>2, <1>5, BaseTypes DEF Exchange
    <2>2. t.generation # w.generation /\ state[b].generation >= t.generation
      BY Zenon, <1>1, <1>3, <1>5 DEF TokenFits, FitsWord
    <2>3. w.generation > t.generation
      BY <1>2, <1>5, <2>2
    <2>4. ~Adrift(t)
      BY Zenon, <1>2, <1>5, <2>2, <2>3, AdriftFields
    <2> QED
      BY <1>1, <1>2, <1>3, <2>1, <2>3, <2>4 DEF TokenFits, FitsWord, Ended
  <1> QED
    BY Zenon, <1>4, <1>5

Tok(b, g) == [block |-> b, generation |-> g]

\* Tokens are equal when their fields are.
LEMMA TokenEq ==
    ASSUME Base, NEW i \in Slots, ring[i].token # NoOne, NEW b, NEW g
    PROVE  ring[i].token = Tok(b, g) <=> ring[i].token.block = b /\ ring[i].token.generation = g
  <1>1. Tok(b, g).block = b /\ Tok(b, g).generation = g
    BY Zenon DEF Tok
  <1>2. ASSUME ring[i].token.block = b, ring[i].token.generation = g
        PROVE  ring[i].token = Tok(b, g)
    BY Zenon, <1>2, TokenTypes DEF Tok
  <1> QED
    BY Zenon, <1>1, <1>2

\* The exchange of a word keeps the evidence if the slot, the handles and the reaper
\* that have to do with the allocation concerned keep theirs.
LEMMA ExchangeKeeps ==
    ASSUME Base, NEW b \in Blocks, NEW w \in State, Exchange(b, w),
           w.generation >= state[b].generation,
           w.generation > state[b].generation <=> ~state[b].allocated,
           ring' = ring, alive' = alive, reaped' = reaped,
           \A i \in Slots : TakenAt(i) => TakenAt(i)',
           \A i \in Slots : ring[i].token = Tok(b, w.generation) => TokenFits(i)',
           \A k \in Handles :
             \/ HandleFits(k)'
             \/ /\ pc'[k] = pc[k] /\ at'[k] = at[k]
                /\ Busy(k) => ring[at[k]].token # Tok(b, w.generation),
           \A k \in Handles :
             \/ HeldAt(k)'
             \/ pc'[k] = pc[k] /\ at'[k] = at[k] /\ held'[k] = held[k],
           \A k \in Handles : held'[k] = held[k] \/ held[k] = NoOne \/ held[k].block = b,
           \A r \in Reapers : fix'[r] = fix[r] \/ RepairFits(r)',
           Answered(b)'
    PROVE  Evidence'
  <1>0. w.generation \in Nat /\ state[b].generation \in Nat
    BY BaseTypes DEF State, Generations
  <1>1. ASSUME NEW i \in Slots, ring[i].token # NoOne, ring[i].token # Tok(b, w.generation)
        PROVE  TokenFits(i)' /\ (Ended(ring[i].token) => Ended(ring[i].token)')
    BY <1>0, <1>1, TokenEq, OtherTokens
  <1>2. \A i \in Slots : TokenFits(i)'
    BY Zenon, <1>1 DEF TokenFits
  <1>3. ASSUME NEW k \in Handles PROVE HandleFits(k)'
    <2>1. SUFFICES ASSUME Runs(k)', pc'[k] \in {"claimed", "detached", "taken"},
                          pc'[k] = pc[k], at'[k] = at[k],
                          Busy(k) => ring[at[k]].token # Tok(b, w.generation)
                   PROVE  HandleFits(k)'
      BY Zenon DEF HandleFits
    <2>2. PICK i : i = at[k]
      BY Zenon
    <2>3. Busy(k) /\ Runs(k) /\ i \in Slots /\ ring[i].token # Tok(b, w.generation)
      BY Zenon, <2>1, <2>2, BusySlot DEF Busy, Runs, Base
    <2>4. ring[i].token # NoOne
      BY Zenon, <2>1, <2>2, <2>3, BusyToken
    <2>5. PICK t : t = ring[i].token
      BY Zenon
    <2>10. t.block \in Blocks
      BY Zenon, <2>3, <2>4, <2>5, TokenTypes
    <2>11. ring[i].token.block # b \/ ring[i].token.generation # w.generation
      BY <2>3, <2>4, TokenEq
    <2>6. t.block \in Blocks /\ (t.block # b \/ t.generation # w.generation)
      BY Zenon, <2>5, <2>10, <2>11
    <2>7. HandleFits(k)
      BY Zenon DEF Base, Evidence
    <2>8. CASE t.block # b
      <3>1. state'[t.block] = state[t.block]
        BY Zenon, <2>6, <2>8, BaseTypes DEF Exchange
      <3> QED
        BY Zenon, <2>1, <2>2, <2>3, <2>5, <2>7, <3>1 DEF HandleFits, Adrift
    <2>9. CASE t.block = b
      <3>1. state'[t.block] = w
        BY Zenon, <2>6, <2>9, BaseTypes DEF Exchange
      <3>2. ~(state'[t.block] = Detached(t.generation))
        BY <2>6, <2>9, <3>1, WordFields
      <3>3. ~Adrift(t)
        BY <1>0, <2>6, <2>9, AdriftFields
      <3> QED
        BY Zenon, <2>1, <2>2, <2>3, <2>5, <2>7, <3>2, <3>3 DEF HandleFits, Adrift
    <2> QED
      BY Zenon, <2>8, <2>9
  <1>4. \A k \in Handles : HeldAt(k)'
    BY DEF Base, Evidence, HeldAt, Live, Runs
  <1>5. ASSUME NEW r \in Reapers PROVE RepairFits(r)'
    <2>1. SUFFICES ASSUME fix'[r] = fix[r], r \in alive, fix[r] # NotFixing, fix[r].resolved,
                          ring[fix[r].slot].token # NoOne
                   PROVE  Ended(ring[fix[r].slot].token)'
      BY Zenon DEF RepairFits
    <2>2. PICK i : i = fix[r].slot
      BY Zenon
    <2>3. i \in Slots /\ ring[i].token # NoOne /\ Ended(ring[i].token) /\ TokenFits(i)
      BY Zenon, <2>1, <2>2, FixedSlot DEF Base, Evidence, RepairFits
    <2>4. ring[i].token # Tok(b, w.generation)
      <3> SUFFICES ASSUME ring[i].token = Tok(b, w.generation) PROVE FALSE
        BY Zenon
      <3>1. ring[i].token.block = b /\ ring[i].token.generation = w.generation
        BY <2>3, TokenEq
      <3>2. state[b].generation >= w.generation
        BY Zenon, <2>3, <3>1 DEF TokenFits, FitsWord
      <3>3. state[b].generation = w.generation /\ state[b].allocated
        BY <1>0, <3>2
      <3> QED
        BY Zenon, <2>3, <3>1, <3>3 DEF Ended
    <2>5. ring'[fix'[r].slot] = ring[i] /\ ring' = ring
      BY Zenon, <2>1, <2>2
    <2>6. Ended(ring[i].token)'
      BY Zenon, <1>1, <2>3, <2>4
    <2> QED
      BY Zenon, <2>5, <2>6 DEF Ended
  <1>6. CarriedOnce'
    BY Zenon DEF CarriedOnce, Base, Evidence
  <1>7. ASSUME NEW c \in Blocks PROVE Answered(c)'
    <2>1. CASE c = b
      BY Zenon, <2>1
    <2>2. CASE c # b
      <3> SUFFICES ASSUME state'[c].allocated PROVE Answered(c)'
        BY Zenon DEF Answered
      <3>4. state'[c] = state[c] /\ Named(c)' = Named(c)
        BY Zenon, <2>2, BaseTypes DEF Exchange, Named
      <3>1. state'[c] = state[c] /\ Named(c)' = Named(c) /\ Named(c).block = c /\ Named(c) # NoOne
        BY Zenon, <3>4, NamedToken
      <3>2. \A k \in Handles : held[k] = Named(c) => held'[k] = held[k]
        BY Zenon, <2>2, <3>1
      <3>3. Answered(c)
        BY Zenon DEF Base, Evidence
      <3> QED
        BY Zenon, <3>1, <3>2, <3>3 DEF Answered, Runs
    <2> QED
      BY Zenon, <2>1, <2>2
  <1> QED
    BY Zenon, <1>2, <1>3, <1>4, <1>5, <1>6, <1>7 DEF Evidence

----------------------------------------------------------------------------
(* The steps of a handle that exchange a word.                             *)

\* PoolRef::claim: nothing carries the generation that begins.
LEMMA ClaimKeeps ==
    ASSUME Base, NEW h \in Handles, NEW b \in Blocks, Claim(h, b),
           UNCHANGED <<ringVars, handleVars, reapVars>>
    PROVE  Evidence'
  <1>1. PICK g : g = state[b].generation + 1
    BY Zenon
  <1>2. PICK w : w = Local(g, Home[h])
    BY Zenon
  <1>3. /\ Runs(h) /\ held[h] = NoOne /\ ~state[b].allocated /\ Exchange(b, w)
        /\ held' = [held EXCEPT ![h] = Tok(b, g)] /\ state[b].generation < MaxGeneration
        /\ alive' = alive /\ ring' = ring /\ pc' = pc /\ at' = at /\ fix' = fix /\ reaped' = reaped
    BY Zenon, <1>1, <1>2 DEF Claim, Live, Tok, ringVars, handleVars, reapVars
  <1>4. /\ state[b].generation \in Nat /\ g \in Generations /\ g > state[b].generation
        /\ Home[h] \in Participants
    BY <1>1, <1>3, BaseTypes, PoolAssumption DEF State, Generations
  <1>5. w \in State /\ w.generation = g /\ w.owner = Home[h]
    BY Zenon, <1>2, <1>4, WordTypes, WordFields
  <1>6. \A i \in Slots : ring[i].token # Tok(b, g)
    <2> SUFFICES ASSUME NEW i \in Slots, ring[i].token = Tok(b, g) PROVE FALSE
      BY Zenon
    <2>1. Tok(b, g) \in Token /\ Tok(b, g).block = b /\ Tok(b, g).generation = g
      BY <1>1, <1>4 DEF Tok, Token, Generations
    <2>2. ring[i].token # NoOne /\ TokenFits(i)
      BY Zenon, <2>1, BaseTypes DEF Base, Evidence
    <2>3. state[b].generation >= g
      BY Zenon, <2>1, <2>2 DEF TokenFits, FitsWord
    <2> QED
      BY <1>4, <2>3 DEF Generations
  <1>7. \A i \in Slots : TakenAt(i) => TakenAt(i)'
    BY Zenon, <1>3 DEF TakenAt, Runs
  <1>8. ASSUME NEW k \in Handles
        PROVE  /\ pc'[k] = pc[k] /\ at'[k] = at[k]
               /\ Busy(k) => ring[at[k]].token # Tok(b, w.generation)
    BY Zenon, <1>3, <1>5, <1>6, BusySlot DEF Base
  <1>9. held'[h] = Tok(b, g) /\ \A k \in Handles \ {h} : held'[k] = held[k]
    BY Zenon, <1>3, BaseTypes
  <1>10. HeldAt(h)'
    BY Zenon, <1>3, <1>6, <1>9 DEF HeldAt
  <1>11. Answered(b)'
    <2>1. state'[b] = w
      BY Zenon, <1>3, BaseTypes DEF Exchange
    <2>2. Named(b)' = Tok(b, g)
      BY Zenon, <1>5, <2>1 DEF Named, Tok
    <2> QED
      BY Zenon, <1>3, <1>5, <1>9, <2>1, <2>2 DEF Answered, Runs
  <1>12. \A k \in Handles : \/ HeldAt(k)'
                            \/ pc'[k] = pc[k] /\ at'[k] = at[k] /\ held'[k] = held[k]
    BY Zenon, <1>8, <1>9, <1>10
  <1>13. \A k \in Handles : held'[k] = held[k] \/ held[k] = NoOne \/ held[k].block = b
    BY Zenon, <1>3, <1>9
  <1>14. /\ w.generation >= state[b].generation
         /\ w.generation > state[b].generation <=> ~state[b].allocated
    BY <1>3, <1>4, <1>5 DEF Generations
  <1>15. /\ \A i \in Slots : ring[i].token = Tok(b, w.generation) => TokenFits(i)'
         /\ \A r \in Reapers : fix'[r] = fix[r] \/ RepairFits(r)'
    BY Zenon, <1>3, <1>5, <1>6
  <1> QED
    BY Zenon, <1>3, <1>5, <1>7, <1>8, <1>11, <1>12, <1>13, <1>14, <1>15, ExchangeKeeps

\* The word of what a running handle holds.
LEMMA HeldWord ==
    ASSUME Base, NEW h \in Handles, Runs(h), Live(h)
    PROVE  /\ held[h] \in Token /\ held[h].block \in Blocks /\ held[h].generation \in Generations
           /\ state[held[h].block] = Local(held[h].generation, Home[h])
           /\ held[h] = Tok(held[h].block, held[h].generation)
  <1>1. held[h] \in Token
    BY Zenon, BaseTypes DEF Live
  <1>2. held[h] = Tok(held[h].block, held[h].generation)
    BY Zenon, <1>1 DEF Token, Tok
  <1>3. held[h].block \in Blocks /\ held[h].generation \in Generations
    BY <1>1, PoolAssumption DEF Token, Generations
  <1> QED
    BY Zenon, <1>1, <1>2, <1>3 DEF Base, PoolInv, OwnedByOne

\* PoolRef::release outside a transfer: nothing carries the allocation.
LEMMA ReleaseKeeps ==
    ASSUME Base, NEW h \in Handles, Release(h), pc[h] \in {"idle", "reserved"},
           UNCHANGED <<ringVars, handleVars, reapVars>>
    PROVE  Evidence'
  <1>1. PICK t : t = held[h]
    BY Zenon
  <1>2. PICK b : b = t.block
    BY Zenon
  <1>3. PICK w : w = Free(t.generation)
    BY Zenon
  <1>4. Runs(h) /\ Live(h)
    BY Zenon DEF Release
  <1>5. /\ t \in Token /\ b \in Blocks /\ t.generation \in Generations
        /\ state[b] = Local(t.generation, Home[h]) /\ t = Tok(b, t.generation)
    BY Zenon, <1>1, <1>2, <1>4, HeldWord
  <1>6. /\ Exchange(b, w) /\ held' = [held EXCEPT ![h] = NoOne]
        /\ alive' = alive /\ ring' = ring /\ pc' = pc /\ at' = at /\ fix' = fix /\ reaped' = reaped
    BY Zenon, <1>1, <1>2, <1>3, <1>5 DEF Release, ringVars, handleVars, reapVars
  <1>7. /\ w \in State /\ w.generation = t.generation /\ ~w.allocated
        /\ state[b].generation = t.generation /\ state[b].allocated /\ t.generation \in Nat
    BY <1>3, <1>5, WordTypes, WordFields DEF Generations
  <1>8. \A i \in Slots : ring[i].token # t
    BY Zenon, <1>1, <1>4 DEF Base, Evidence, HeldAt
  <1>9. \A i \in Slots : ring[i].token # Tok(b, w.generation)
    BY Zenon, <1>5, <1>7, <1>8
  <1>10. \A i \in Slots : TakenAt(i) => TakenAt(i)'
    BY Zenon, <1>6 DEF TakenAt, Runs
  <1>11. ASSUME NEW k \in Handles
         PROVE  /\ pc'[k] = pc[k] /\ at'[k] = at[k]
                /\ Busy(k) => ring[at[k]].token # Tok(b, w.generation)
    BY Zenon, <1>6, <1>9, BusySlot DEF Base
  <1>12. held'[h] = NoOne /\ \A k \in Handles \ {h} : held'[k] = held[k]
    BY Zenon, <1>6, BaseTypes
  <1>13. \A k \in Handles : \/ HeldAt(k)'
                            \/ pc'[k] = pc[k] /\ at'[k] = at[k] /\ held'[k] = held[k]
    BY Zenon, <1>11, <1>12 DEF HeldAt, Live
  <1>14. \A k \in Handles : held'[k] = held[k] \/ held[k] = NoOne \/ held[k].block = b
    BY Zenon, <1>1, <1>2, <1>12
  <1>15. Answered(b)'
    BY Zenon, <1>5, <1>6, <1>7, BaseTypes DEF Answered, Exchange
  <1>16. /\ w.generation >= state[b].generation
         /\ w.generation > state[b].generation <=> ~state[b].allocated
    BY <1>7
  <1>17. /\ \A i \in Slots : ring[i].token = Tok(b, w.generation) => TokenFits(i)'
         /\ \A r \in Reapers : fix'[r] = fix[r] \/ RepairFits(r)'
    BY Zenon, <1>6, <1>9
  <1> QED
    BY Zenon, <1>5, <1>6, <1>7, <1>10, <1>11, <1>13, <1>14, <1>15, <1>16, <1>17, ExchangeKeeps

\* Generations are ordered.
LEMMA SameGeneration == \A g \in Nat : g >= g /\ ~(g > g)
  OBVIOUS

\* A handle h exchanges the word of the token at its own slot, and goes on there.
LEMMA OwnSlotKeeps ==
    ASSUME Base, NEW h \in Handles, Runs(h), pc[h] \in {"staged", "claimed"},
           NEW t, t = ring[at[h]].token, NEW w \in State, Exchange(t.block, w),
           w.generation = t.generation,
           state[t.block].generation = t.generation, state[t.block].allocated,
           UNCHANGED <<ringVars, at, reapVars, alive>>,
           NEW there \in {"detached", "taken"}, pc' = [pc EXCEPT ![h] = there],
           there = "taken" <=> w # Detached(t.generation),
           \A k \in Handles \ {h} : held'[k] = held[k],
           \/ /\ held[h] \in {NoOne, t} /\ held'[h] \in {NoOne, t}
              /\ held'[h] = t => there = "taken"
           \/ held'[h] = held[h] /\ pc[h] = "claimed",
           pc[h] = "staged" => there = "detached", pc[h] = "claimed" => there = "taken",
           w.allocated => w.owner \in {NoOne, Home[h]},
           w.allocated => \/ w.owner = NoOne
                          \/ held'[h] = t /\ w.owner = Home[h]
    PROVE  Evidence'
  <1>1. PICK b : b = t.block
    BY Zenon
  <1>2. PICK j : j = at[h]
    BY Zenon
  <1>3. /\ j \in Slots /\ ring[j].token = t /\ t # NoOne /\ ring[j].source = Home[h] /\ Busy(h)
        /\ ring[j].stage = IF pc[h] = "staged" THEN "staged" ELSE "claimed"
    BY Zenon, <1>2, BusyToken
  <1>4. t \in Token /\ b \in Blocks /\ t.generation \in Nat /\ t = Tok(b, w.generation)
    BY Zenon, <1>1, <1>3, TokenTypes DEF Tok
  <1>5. /\ ring' = ring /\ at' = at /\ fix' = fix /\ reaped' = reaped /\ alive' = alive
        /\ pc'[h] = there /\ \A k \in Handles \ {h} : pc'[k] = pc[k]
    BY Zenon, BaseTypes DEF ringVars, reapVars
  <1>6. state'[b] = w
    BY Zenon, <1>1, <1>4, BaseTypes DEF Exchange
  <1>7. \A i \in Slots : ring[i].token = t => i = j
    BY Zenon, <1>3 DEF Base, Evidence, CarriedOnce
  <1>8. \A i \in Slots : TakenAt(i) => TakenAt(i)'
    BY Zenon, <1>5 DEF TakenAt, Runs
  <1>9. TokenFits(j)'
    <2>1. FitsWord(t, ring[j].source)'
      <3>1. w.generation >= t.generation
        BY Zenon, <1>4, SameGeneration
      <3>2. w.allocated => w.owner \in {NoOne, ring[j].source}
        BY Zenon, <1>3
      <3>3. state'[t.block] = w /\ ring'[j].source = ring[j].source
        BY Zenon, <1>1, <1>5, <1>6
      <3> QED
        BY Zenon, <3>1, <3>2, <3>3 DEF FitsWord
    <2>2. ring[j].stage = "claimed" => TakenAt(j)'
      BY Zenon, <1>2, <1>3, <1>5 DEF TakenAt, Runs
    <2> QED
      BY Zenon, <1>3, <1>5, <2>1, <2>2 DEF TokenFits
  <1>10. HandleFits(h)'
    BY Zenon, <1>1, <1>2, <1>3, <1>5, <1>6 DEF HandleFits, Adrift
  <1>11. \A k \in Handles \ {h} : Busy(k) => ring[at[k]].token # t
    BY Zenon, <1>2, <1>3, <1>7, BusySlot DEF Base, Shape, HandlesFit
  <1>12. \A k \in Handles : \/ HandleFits(k)'
                            \/ /\ pc'[k] = pc[k] /\ at'[k] = at[k]
                               /\ Busy(k) => ring[at[k]].token # Tok(b, w.generation)
    BY Zenon, <1>4, <1>5, <1>10, <1>11
  <1>13. HeldAt(h)'
    <2> SUFFICES ASSUME Live(h)', NEW i \in Slots, held'[h] = ring'[i].token
                 PROVE  at'[h] = i /\ pc'[h] \in {"staged", "taken"}
      BY Zenon DEF HeldAt
    <2>1. held'[h] = t /\ there = "taken"
      BY <1>5 DEF Live, Base, Evidence, HeldAt
    <2>2. i = j
      BY Zenon, <1>5, <1>7, <2>1
    <2> QED
      BY Zenon, <1>2, <1>5, <2>1, <2>2
  <1>14. \A k \in Handles : \/ HeldAt(k)'
                            \/ pc'[k] = pc[k] /\ at'[k] = at[k] /\ held'[k] = held[k]
    BY Zenon, <1>5, <1>13
  <1>15. \A k \in Handles : held'[k] = held[k] \/ held[k] = NoOne \/ held[k].block = b
    BY Zenon, <1>1
  <1>16. Answered(b)'
    <2>1. Named(b)' = t
      BY Zenon, <1>4, <1>6 DEF Named, Tok
    <2> QED
      BY Zenon, <1>3, <1>5, <1>6, <2>1 DEF Answered, Runs
  <1>17. /\ w.generation >= state[b].generation
         /\ w.generation > state[b].generation <=> ~state[b].allocated
    BY Zenon, <1>1, <1>4, SameGeneration
  <1>18. /\ \A i \in Slots : ring[i].token = Tok(b, w.generation) => TokenFits(i)'
         /\ \A r \in Reapers : fix'[r] = fix[r] \/ RepairFits(r)'
    BY Zenon, <1>4, <1>5, <1>7, <1>9
  <1>19. Exchange(b, w)
    BY Zenon, <1>1
  <1> QED
    BY Zenon, <1>4, <1>5, <1>8, <1>12, <1>14, <1>15, <1>16, <1>17, <1>18, <1>19, ExchangeKeeps

\* TransferStaged::publish detaches the allocation whose token the slot carries.
LEMMA DetachKeeps ==
    ASSUME Base, NEW h \in Handles, TxDetach(h)
    PROVE  Evidence'
  <1>1. PICK t : t = ring[at[h]].token
    BY Zenon
  <1>2. Runs(h) /\ pc[h] = "staged" /\ Live(h)
    BY Zenon DEF TxDetach, Goto, Detach
  <1>3. held[h] = t
    BY Zenon, <1>1, <1>2 DEF Base, Shape, HandlesFit, Busy
  <1>4. /\ t \in Token /\ t.block \in Blocks /\ t.generation \in Generations
        /\ state[t.block] = Local(t.generation, Home[h])
    BY Zenon, <1>2, <1>3, HeldWord
  <1>5. PICK w : w = Detached(t.generation)
    BY Zenon
  <1>6. /\ w \in State /\ w.generation = t.generation /\ w.owner = NoOne
        /\ state[t.block].generation = t.generation /\ state[t.block].allocated
    BY <1>4, <1>5, WordTypes, WordFields
  <1>7. /\ Exchange(t.block, w) /\ pc' = [pc EXCEPT ![h] = "detached"]
        /\ held' = [held EXCEPT ![h] = NoOne] /\ alive' = alive
        /\ UNCHANGED <<ringVars, at, reapVars>>
    BY Zenon, <1>3, <1>5 DEF TxDetach, Goto, Detach
  <1>8. held'[h] = NoOne /\ \A k \in Handles \ {h} : held'[k] = held[k]
    BY Zenon, <1>7, BaseTypes
  <1>9. t # NoOne
    BY Zenon, <1>4, BaseTypes
  <1> QED
    BY Zenon, <1>1, <1>2, <1>3, <1>5, <1>6, <1>7, <1>8, <1>9, OwnSlotKeeps

\* The token of a handle that has claimed it.
LEMMA ClaimedToken ==
    ASSUME Base, NEW h \in Handles, Runs(h), pc[h] = "claimed", NEW t, t = ring[at[h]].token
    PROVE  /\ t \in Token /\ t.block \in Blocks /\ t.generation \in Generations /\ t # NoOne
           /\ state[t.block] = Detached(t.generation)
           /\ state[t.block].generation = t.generation /\ state[t.block].allocated
           /\ state[t.block].owner = NoOne
  <1>1. at[h] \in Slots /\ t # NoOne
    BY Zenon, BusyToken
  <1>2. t \in Token /\ t.block \in Blocks
    BY Zenon, <1>1, TokenTypes
  <1>3. t.generation \in Generations
    BY <1>2, PoolAssumption DEF Token, Generations
  <1>4. Adrift(t)
    BY Zenon DEF Base, Evidence, HandleFits
  <1> QED
    BY Zenon, <1>1, <1>2, <1>3, <1>4, AdriftFields DEF Adrift

\* Received::adopt takes the detached allocation over.
LEMMA TakeoverKeeps ==
    ASSUME Base, NEW h \in Handles, RxTakeover(h)
    PROVE  Evidence'
  <1>1. PICK t : t = ring[at[h]].token
    BY Zenon
  <1>2. Runs(h) /\ pc[h] = "claimed" /\ held[h] = NoOne
    BY Zenon DEF RxTakeover, Goto, Takeover, Live
  <1>3. /\ t \in Token /\ t.block \in Blocks /\ t.generation \in Generations
        /\ state[t.block].generation = t.generation /\ state[t.block].allocated
    BY Zenon, <1>1, <1>2, ClaimedToken
  <1>4. PICK w : w = Local(t.generation, Home[h])
    BY Zenon
  <1>5. Home[h] \in Participants /\ Home[h] # NoOne
    BY Zenon, PoolAssumption
  <1>6. w \in State /\ w.generation = t.generation /\ w.owner = Home[h]
    BY <1>3, <1>4, <1>5, WordTypes, WordFields
  <1>7. w # Detached(t.generation)
    BY <1>5, <1>6, WordFields
  <1>8. /\ Exchange(t.block, w) /\ pc' = [pc EXCEPT ![h] = "taken"]
        /\ held' = [held EXCEPT ![h] = t] /\ alive' = alive
        /\ UNCHANGED <<ringVars, at, reapVars>>
    BY Zenon, <1>1, <1>4 DEF RxTakeover, Goto, Takeover
  <1>9. held'[h] = t /\ \A k \in Handles \ {h} : held'[k] = held[k]
    BY Zenon, <1>8, BaseTypes
  <1> QED
    BY Zenon, <1>1, <1>2, <1>3, <1>6, <1>7, <1>8, <1>9, OwnSlotKeeps

\* The drain of close_with ends the detached allocation.
LEMMA DrainKeeps ==
    ASSUME Base, NEW h \in Handles, DrainRelease(h)
    PROVE  Evidence'
  <1>1. PICK t : t = ring[at[h]].token
    BY Zenon
  <1>2. Runs(h) /\ pc[h] = "claimed"
    BY Zenon DEF DrainRelease, Goto
  <1>3. /\ t \in Token /\ t.block \in Blocks /\ t.generation \in Generations
        /\ state[t.block].generation = t.generation /\ state[t.block].allocated
        /\ state[t.block].owner = NoOne
    BY Zenon, <1>1, <1>2, ClaimedToken
  <1>4. PICK w : w = Free(t.generation)
    BY Zenon
  <1>5. w \in State /\ w.generation = t.generation /\ ~w.allocated
    BY Zenon, <1>3, <1>4, WordTypes, WordFields
  <1>6. w # Detached(t.generation)
    BY Zenon, <1>5, WordFields
  <1>7. /\ Exchange(t.block, w) /\ pc' = [pc EXCEPT ![h] = "taken"]
        /\ held' = held /\ alive' = alive
        /\ UNCHANGED <<ringVars, at, reapVars>>
    BY Zenon, <1>1, <1>3, <1>4 DEF DrainRelease, Goto, ReleaseToken
  <1> QED
    BY Zenon, <1>1, <1>2, <1>3, <1>5, <1>6, <1>7, OwnSlotKeeps

----------------------------------------------------------------------------
(* The steps of a handle that store into a slot.                           *)

\* s may replace the content of slot i in a step of h: its token has its evidence and
\* no other carrier, and no detached allocation loses its carrier
Carry(h, i, s) ==
    /\ s.token # NoOne =>
         /\ FitsWord(s.token, s.source)
         /\ s.stage \in {"ready", "claimed"} => Adrift(s.token)
         /\ \A j \in Slots \ {i} : ring[j].token # s.token
         /\ \/ s.token = ring[i].token
            \/ \A k \in Handles \ {h} : Runs(k) => held[k] # s.token
    /\ ring[i].token \in {NoOne, s.token} \/ ~Adrift(ring[i].token)

\* h does not leave a slot with a resolved token behind, unless that is slot i
Quits(h, i) == pc[h] = "taken" => at[h] = i \/ (pc'[h] = "taken" /\ at'[h] = at[h])

Stores(h, i, s) ==
    /\ Set(i, s) /\ UNCHANGED <<poolVars, reapVars>>
    /\ \A k \in Handles \ {h} : pc'[k] = pc[k] /\ at'[k] = at[k]

\* An allocated block without an owner is adrift.
LEMMA NamedAdrift ==
    ASSUME Base, NEW b \in Blocks, state[b].allocated, state[b].owner = NoOne
    PROVE  Adrift(Named(b))
  <1>1. state[b] \in State
    BY Zenon, BaseTypes
  <1>2. state[b] = [generation |-> state[b].generation, allocated |-> TRUE, owner |-> NoOne]
    BY Zenon, <1>1 DEF State
  <1> QED
    BY Zenon, <1>2 DEF Adrift, Named, Detached

\* Such a step keeps the evidence.
LEMMA RingKeeps ==
    ASSUME Base, NEW h \in Handles, NEW i, NEW s \in SlotWords, Stores(h, i, s), Unshared(h, i),
           Carry(h, i, s), Quits(h, i), HandleFits(h)', HeldAt(h)'
    PROVE  Evidence'
  <1>1. /\ i \in Slots /\ ring'[i] = s /\ \A j \in Slots \ {i} : ring'[j] = ring[j]
    BY Zenon, SetOne DEF Unshared, Stores, Base, Shape
  <1>2. /\ state' = state /\ held' = held /\ alive' = alive /\ fix' = fix /\ reaped' = reaped
        /\ \A k \in Handles \ {h} : pc'[k] = pc[k] /\ at'[k] = at[k]
    BY Zenon DEF Stores, poolVars, reapVars
  <1>3. ASSUME NEW j \in Slots PROVE TokenFits(j)'
    <2>1. CASE j = i
      BY Zenon, <1>1, <1>2, <2>1 DEF TokenFits, Carry, FitsWord, Adrift
    <2>2. CASE j # i
      <3>1. TakenAt(j) => TakenAt(j)'
        BY Zenon, <1>2, <2>2 DEF TakenAt, Runs, Quits
      <3>2. TokenFits(j)
        BY Zenon DEF Base, Evidence
      <3>3. ring'[j] = ring[j]
        BY Zenon, <1>1, <2>2
      <3> QED
        BY Zenon, <1>2, <3>1, <3>2, <3>3 DEF TokenFits, FitsWord, Adrift
    <2> QED
      BY Zenon, <2>1, <2>2
  <1>4. ASSUME NEW k \in Handles PROVE HandleFits(k)' /\ HeldAt(k)'
    <2> SUFFICES ASSUME k # h PROVE HandleFits(k)' /\ HeldAt(k)'
      BY Zenon
    <2>1. HandleFits(k) /\ HeldAt(k) /\ pc'[k] = pc[k] /\ at'[k] = at[k]
      BY Zenon, <1>2 DEF Base, Evidence
    <2>2. Busy(k) => ring'[at[k]] = ring[at[k]]
      BY Zenon, <1>1, BusySlot DEF Unshared, Base
    <2>3. HandleFits(k)'
      BY Zenon, <1>2, <2>1, <2>2 DEF HandleFits, Adrift, Runs, Busy
    <2>4. HeldAt(k)'
      <3> SUFFICES ASSUME Runs(k), Live(k), NEW j \in Slots, held[k] = ring'[j].token
                   PROVE  at[k] = j /\ pc[k] \in {"staged", "taken"}
        BY Zenon, <1>2, <2>1 DEF HeldAt, Runs, Live
      <3>1. held[k] = ring[j].token
        BY Zenon, <1>1 DEF Carry, Live
      <3> QED
        BY Zenon, <2>1, <3>1 DEF HeldAt
    <2> QED
      BY Zenon, <2>3, <2>4
  <1>5. ASSUME NEW r \in Reapers PROVE RepairFits(r)'
    <2> SUFFICES ASSUME r \in alive, fix[r] # NotFixing, RepairFits(r) PROVE RepairFits(r)'
      BY Zenon, <1>2 DEF RepairFits, Base, Evidence
    <2>1. fix[r].slot \in Slots /\ fix[r].slot # i
      BY Zenon, FixedSlot DEF Base, Unshared
    <2>2. ring'[fix[r].slot] = ring[fix[r].slot]
      BY Zenon, <1>1, <2>1
    <2> QED
      BY Zenon, <1>2, <2>2 DEF RepairFits, Ended
  <1>6. CarriedOnce'
    BY <1>1 DEF Base, Evidence, CarriedOnce, Carry
  <1>7. ASSUME NEW b \in Blocks PROVE Answered(b)'
    <2> SUFFICES ASSUME state[b].allocated PROVE Answered(b)'
      BY Zenon, <1>2 DEF Answered
    <2>1. Named(b)' = Named(b) /\ Named(b) # NoOne
      BY Zenon, <1>2, NamedToken DEF Named
    <2>2. Answered(b)
      BY Zenon DEF Base, Evidence
    <2>3. ASSUME state[b].owner = NoOne, NEW j \in Slots, ring[j].token = Named(b)
          PROVE  ring'[j].token = Named(b)
      <3>1. Adrift(ring[j].token)
        BY Zenon, <2>3, NamedAdrift
      <3> QED
        BY Zenon, <1>1, <2>1, <2>3, <3>1 DEF Carry
    <2> QED
      BY Zenon, <1>2, <2>1, <2>2, <2>3 DEF Answered, Runs
  <1> QED
    BY Zenon, <1>3, <1>4, <1>5, <1>6, <1>7 DEF Evidence

\* Nobody is busy at a slot that is free, ready or skipped.
LEMMA UnusedSlot ==
    ASSUME Base, NEW h \in Handles, NEW i \in Slots, ring[i].stage \in {"free", "ready", "skipped"}
    PROVE  Unshared(h, i) /\ (Busy(h) => at[h] # i)
  <1>1. ring[i].source = NoOne /\ NoOne \notin Participants
    BY Zenon, PoolAssumption DEF Base, Shape, SlotsFit, Owned
  <1>2. ring[i].reaper = NoOne
    BY Zenon, <1>1 DEF Base, Shape, SlotsFit
  <1>3. \A k \in Handles : Busy(k) => ring[at[k]].source = Home[k] /\ Home[k] \in Participants
    BY Zenon, PoolAssumption DEF Base, Shape, HandlesFit
  <1> QED
    BY Zenon, <1>1, <1>2, <1>3 DEF Unshared

\* The slot of a busy handle is its own.
LEMMA OwnSlot ==
    ASSUME Base, NEW h \in Handles, Busy(h)
    PROVE  at[h] \in Slots /\ Unshared(h, at[h])
  BY Zenon, BusySlot DEF Base, Shape, HandlesFit, Unshared

\* A slot that a handle leaves empty, and that the handle leaves.
LEMMA EmptyKeeps ==
    ASSUME Base, NEW h \in Handles, Runs(h), NEW i \in Slots, NEW stage \in {"free", "skipped"},
           Stores(h, i, Slot(stage, NoOne, NoOne)), Unshared(h, i),
           ring[i].token = NoOne \/ ~Adrift(ring[i].token),
           \/ pc'[h] = "idle" /\ at[h] = i
           \/ pc'[h] = pc[h] /\ at'[h] = at[h] /\ (Busy(h) => at[h] # i)
    PROVE  Evidence'
  <1>1. PICK s : s = Slot(stage, NoOne, NoOne)
    BY Zenon
  <1>2. s \in SlotWords /\ s.token = NoOne
    BY <1>1, SlotTypes, SlotFields DEF Stages
  <1>3. Stores(h, i, s)
    BY Zenon, <1>1
  <1>4. Carry(h, i, s)
    BY Zenon, <1>2 DEF Carry
  <1>5. Quits(h, i)
    BY Zenon DEF Quits
  <1>6. /\ ring'[i] = s /\ \A j \in Slots \ {i} : ring'[j] = ring[j]
        /\ state' = state /\ held' = held /\ alive' = alive
    BY Zenon, <1>2, <1>3, SetOne DEF Stores, Base, Shape, poolVars
  <1>7. HandleFits(h) /\ HeldAt(h) /\ CarriedOnce
    BY Zenon DEF Base, Evidence
  <1>8. HandleFits(h)'
    <2>1. CASE pc'[h] = "idle"
      BY Zenon, <2>1 DEF HandleFits
    <2>2. CASE pc'[h] = pc[h] /\ at'[h] = at[h] /\ (Busy(h) => at[h] # i)
      <3> SUFFICES ASSUME Busy(h) PROVE HandleFits(h)'
        BY Zenon, <1>6, <2>2 DEF HandleFits, Busy, Runs
      <3>1. ring'[at[h]] = ring[at[h]]
        BY Zenon, <1>6, <2>2, OwnSlot
      <3> QED
        BY Zenon, <1>6, <1>7, <2>2, <3>1 DEF HandleFits, Runs, Adrift
    <2> QED
      BY Zenon, <2>1, <2>2
  <1>9. HeldAt(h)'
    <2> SUFFICES ASSUME Live(h), NEW j \in Slots, held[h] = ring'[j].token
                 PROVE  at'[h] = j /\ pc'[h] \in {"staged", "taken"}
      BY Zenon, <1>6 DEF HeldAt, Runs, Live
    <2>1. j # i /\ ring[j].token = held[h]
      BY Zenon, <1>2, <1>6 DEF Live
    <2>2. at[h] = j /\ pc[h] \in {"staged", "taken"}
      BY Zenon, <1>7, <2>1 DEF HeldAt
    <2> QED
      BY Zenon, <2>1, <2>2
  <1> QED
    BY Zenon, <1>2, <1>3, <1>4, <1>5, <1>8, <1>9, RingKeeps

\* A handle that puts s into slot i and goes to another step.
LEMMA FillKeeps ==
    ASSUME Base, NEW h \in Handles, Runs(h), NEW i, NEW s \in SlotWords, NEW there, NEW where,
           Stores(h, i, s), pc'[h] = there, at'[h] = where, Unshared(h, i), Carry(h, i, s),
           pc[h] # "taken", there # "taken",
           there \in {"claimed", "detached"} => where = i /\ Adrift(s.token),
           \/ there = "staged" /\ where = i /\ s.token = held[h]
           \/ there # "staged" /\ pc[h] # "staged" /\ s.token \in {NoOne, ring[i].token}
    PROVE  Evidence'
  <1>1. i \in Slots /\ Quits(h, i)
    BY Zenon DEF Unshared, Quits
  <1>2. /\ ring'[i] = s /\ \A j \in Slots \ {i} : ring'[j] = ring[j]
        /\ state' = state /\ held' = held /\ alive' = alive
    BY Zenon, <1>1, SetOne DEF Stores, Base, Shape, poolVars
  <1>3. HandleFits(h)'
    BY Zenon, <1>2 DEF HandleFits, Adrift
  <1>4. HeldAt(h)'
    <2> SUFFICES ASSUME Live(h), NEW j \in Slots, held[h] = ring'[j].token
                 PROVE  at'[h] = j /\ pc'[h] \in {"staged", "taken"}
      BY Zenon, <1>2 DEF HeldAt, Runs, Live
    <2>1. HeldAt(h)
      BY Zenon DEF Base, Evidence
    <2>2. CASE there = "staged" /\ where = i /\ s.token = held[h]
      <3>1. j = i
        BY Zenon, <1>2, <2>2 DEF Carry, Live
      <3> QED
        BY Zenon, <2>2, <3>1
    <2>3. CASE there # "staged" /\ pc[h] # "staged" /\ s.token \in {NoOne, ring[i].token}
      <3>1. ring[j].token = held[h]
        BY Zenon, <1>2, <2>3 DEF Live
      <3> QED
        BY Zenon, <2>1, <2>3, <3>1 DEF HeldAt
    <2> QED
      BY Zenon, <2>2, <2>3
  <1> QED
    BY Zenon, <1>1, <1>3, <1>4, RingKeeps

\* Steps of handles keep the evidence.
LEMMA HandleKeeps == ASSUME Base, NEW h \in Handles, HandleStep(h) PROVE Evidence'
  <1>0. /\ pc \in [Handles -> Steps] /\ at \in [Handles -> Slots \cup {NoSlot}]
        /\ head \in Slots /\ ring \in [Slots -> SlotWords]
        /\ Home[h] \in Participants /\ Home[h] # NoOne
    BY BaseTypes, PoolAssumption DEF Base, Shape, TransferTypeOK
  <1>1. ASSUME NEW there, NEW where, NEW i, NEW s, pc' = [pc EXCEPT ![h] = there],
               at' = [at EXCEPT ![h] = where], Set(i, s), UNCHANGED <<poolVars, reapVars>>
        PROVE  Stores(h, i, s) /\ pc'[h] = there /\ at'[h] = where
    BY Zenon, <1>0, <1>1 DEF Stores
  <1>2. CASE PoolStep(h)
    BY Zenon, <1>2, ClaimKeeps, ReleaseKeeps DEF PoolStep
  <1>3. CASE TxReserve(h)
    <2>1. PICK i : i = (head + count) % Capacity
      BY Zenon
    <2>2. PICK s : s = Slot("reserved", Home[h], NoOne)
      BY Zenon
    <2>3. i \in Slots
      BY <1>0, <2>1, TransferAssumption DEF Slots, Base, Shape, TransferTypeOK
    <2>4. ring[i].stage = "free" /\ Runs(h) /\ pc[h] = "idle"
      BY Zenon, <1>3, <2>1 DEF TxReserve, Goto
    <2>5. Stores(h, i, s) /\ pc'[h] = "reserved" /\ at'[h] = i
      BY Zenon, <1>1, <1>3, <2>1, <2>2 DEF TxReserve, Goto
    <2>6. s \in SlotWords /\ s.token = NoOne /\ ring[i].token = NoOne
      BY <1>0, <2>2, <2>3, <2>4, SlotTypes, SlotFields DEF Stages, Base, Shape, SlotsFit
    <2>7. Carry(h, i, s) /\ Unshared(h, i)
      BY Zenon, <2>3, <2>4, <2>6, UnusedSlot DEF Carry
    <2> QED
      BY Zenon, <2>4, <2>5, <2>6, <2>7, FillKeeps
  <1>4. CASE TxStage(h)
    <2>1. PICK s : s = Slot("staged", Home[h], held[h])
      BY Zenon
    <2>2. Busy(h) /\ Runs(h) /\ pc[h] = "reserved" /\ Live(h)
      BY Zenon, <1>4 DEF TxStage, Goto, Busy
    <2>3. Stores(h, at[h], s) /\ pc'[h] = "staged" /\ at'[h] = at[h]
      BY Zenon, <1>0, <1>4, <2>1 DEF TxStage, Goto, Stores
    <2>4. s \in SlotWords /\ s.token = held[h] /\ s.source = Home[h] /\ s.stage = "staged"
      BY <1>0, <2>1, BaseTypes, SlotTypes, SlotFields DEF Stages
    <2>5. at[h] \in Slots /\ Unshared(h, at[h]) /\ ring[at[h]].token = NoOne
      BY Zenon, <2>2, OwnSlot DEF Base, Shape, SlotsFit, HandlesFit, Agrees
    <2>6. Carry(h, at[h], s)
      <3>1. FitsWord(held[h], Home[h])
        <4>1. /\ state[held[h].block] = Local(held[h].generation, Home[h])
              /\ held[h].generation \in Nat
          BY <2>2, HeldWord DEF Generations
        <4>2. held[h].generation >= held[h].generation
          BY Zenon, <4>1, SameGeneration
        <4> QED
          BY <4>1, <4>2, WordFields DEF FitsWord
      <3>2. \A j \in Slots : ring[j].token # held[h]
        BY Zenon, <2>2 DEF Base, Evidence, HeldAt
      <3>3. \A k \in Handles \ {h} : Runs(k) => held[k] # held[h]
        BY Zenon, <2>2 DEF Base, PoolInv, OwnedByOne, Live
      <3> QED
        BY Zenon, <2>4, <2>5, <3>1, <3>2, <3>3 DEF Carry
    <2> QED
      BY Zenon, <2>2, <2>3, <2>4, <2>5, <2>6, FillKeeps
  <1>5. CASE TxDetach(h)
    BY Zenon, <1>5, DetachKeeps
  <1>6. CASE TxPublish(h)
    <2>1. PICK s : s = Slot("ready", NoOne, ring[at[h]].token)
      BY Zenon
    <2>2. Busy(h) /\ Runs(h) /\ pc[h] = "detached"
      BY Zenon, <1>6 DEF TxPublish, Goto, Busy
    <2>3. Stores(h, at[h], s) /\ pc'[h] = "idle" /\ at'[h] = NoSlot
      BY Zenon, <1>1, <1>6, <2>1 DEF TxPublish, Goto, Leave
    <2>4. at[h] \in Slots /\ Unshared(h, at[h]) /\ ring[at[h]].token # NoOne
      BY Zenon, <2>2, OwnSlot, BusyToken
    <2>5. s \in SlotWords /\ s.token = ring[at[h]].token /\ s.source = NoOne
      <3>1. ring[at[h]].token \in Token
        BY Zenon, <2>4, TokenTypes
      <3>2. "ready" \in Stages
        BY Zenon DEF Stages
      <3>3. NoOne \in Participants \cup {NoOne} /\ ring[at[h]].token \in Token \cup {NoOne}
        BY Zenon, <1>0, <3>1
      <3>4. s \in SlotWords
        BY Zenon, <2>1, <3>2, <3>3, SlotTypes
      <3> QED
        BY <2>1, <3>4, SlotFields
    <2>6. Adrift(s.token)
      BY Zenon, <2>2, <2>5 DEF Base, Evidence, HandleFits
    <2>7. Carry(h, at[h], s)
      <3>1. FitsWord(s.token, s.source)
        <4>1. s.token.generation \in Nat
          BY Zenon, <2>4, <2>5, TokenTypes
        <4>2. s.token.generation >= s.token.generation
          BY Zenon, <4>1, SameGeneration
        <4> QED
          BY Zenon, <2>6, <4>2, AdriftFields DEF FitsWord
      <3> QED
        BY Zenon, <2>4, <2>5, <2>6, <3>1 DEF Carry, Base, Evidence, CarriedOnce
    <2> QED
      BY Zenon, <2>2, <2>3, <2>4, <2>5, <2>7, FillKeeps
  <1>7. CASE TxSkip(h)
    <2>1. Busy(h) /\ Runs(h) /\ pc[h] \in {"reserved", "staged"}
      BY Zenon, <1>7 DEF TxSkip, Goto, Busy
    <2>2. Stores(h, at[h], Slot("skipped", NoOne, NoOne)) /\ pc'[h] = "idle" /\ at'[h] = NoSlot
      BY Zenon, <1>1, <1>7 DEF TxSkip, Goto, Leave
    <2>3. ring[at[h]].token = NoOne \/ ~Adrift(ring[at[h]].token)
      <3>1. CASE pc[h] = "reserved"
        BY Zenon, <2>1, <3>1 DEF Base, Shape, SlotsFit, HandlesFit, Agrees
      <3>2. CASE pc[h] = "staged"
        <4>1. held[h] = ring[at[h]].token /\ Live(h)
          BY Zenon, <2>1, <3>2, BusyToken DEF Base, Shape, HandlesFit, Live
        <4> QED
          BY <1>0, <2>1, <4>1, HeldWord, AdriftFields, WordFields
      <3> QED
        BY Zenon, <2>1, <3>1, <3>2
    <2> QED
      BY Zenon, <2>1, <2>2, <2>3, OwnSlot, EmptyKeeps
  <1>8. CASE RxClaim(h)
    <2>1. PICK s : s = Slot("claimed", Home[h], ring[head].token)
      BY Zenon
    <2>2. ring[head].stage = "ready" /\ Runs(h) /\ pc[h] = "idle"
      BY Zenon, <1>8 DEF RxClaim, Goto
    <2>3. Stores(h, head, s) /\ pc'[h] = "claimed" /\ at'[h] = head
      BY Zenon, <1>1, <1>8, <2>1 DEF RxClaim, Goto
    <2>4. ring[head].token # NoOne
      BY Zenon, <1>0, <2>2 DEF Base, Shape, SlotsFit
    <2>5. s \in SlotWords /\ s.token = ring[head].token /\ s.source = Home[h]
      <3>1. ring[head].token \in Token
        BY Zenon, <1>0, <2>4, TokenTypes
      <3>2. "claimed" \in Stages
        BY Zenon DEF Stages
      <3>3. Home[h] \in Participants \cup {NoOne} /\ ring[head].token \in Token \cup {NoOne}
        BY Zenon, <1>0, <3>1
      <3>4. s \in SlotWords
        BY Zenon, <2>1, <3>2, <3>3, SlotTypes
      <3> QED
        BY <2>1, <3>4, SlotFields
    <2>6. Adrift(s.token)
      BY Zenon, <1>0, <2>2, <2>4, <2>5 DEF Base, Evidence, TokenFits
    <2>7. Carry(h, head, s)
      <3>1. FitsWord(s.token, s.source)
        <4>1. s.token.generation \in Nat
          BY Zenon, <1>0, <2>4, <2>5, TokenTypes
        <4>2. s.token.generation >= s.token.generation
          BY Zenon, <4>1, SameGeneration
        <4> QED
          BY Zenon, <2>6, <4>2, AdriftFields DEF FitsWord
      <3> QED
        BY Zenon, <1>0, <2>4, <2>5, <2>6, <3>1 DEF Carry, Base, Evidence, CarriedOnce
    <2>8. Unshared(h, head)
      BY Zenon, <1>0, <2>2, UnusedSlot
    <2> QED
      BY Zenon, <2>2, <2>3, <2>5, <2>6, <2>7, <2>8, FillKeeps
  <1>9. CASE RxSkipped(h)
    <2>1. /\ Runs(h) /\ ring[head].stage = "skipped" /\ pc' = pc /\ at' = at
          /\ Stores(h, head, Slot("free", NoOne, NoOne))
      BY Zenon, <1>9 DEF RxSkipped, handleVars, Stores
    <2>2. /\ ring[head].token = NoOne /\ Unshared(h, head) /\ (Busy(h) => at[h] # head)
      BY Zenon, <1>0, <2>1, UnusedSlot DEF Base, Shape, SlotsFit
    <2> QED
      BY Zenon, <1>0, <2>1, <2>2, EmptyKeeps
  <1>10. CASE RxTakeover(h)
    BY Zenon, <1>10, TakeoverKeeps
  <1>11. CASE DrainRelease(h)
    BY Zenon, <1>11, DrainKeeps
  <1>12. CASE RxRecycle(h)
    <2>1. Busy(h) /\ Runs(h) /\ pc[h] = "taken"
      BY Zenon, <1>12 DEF RxRecycle, Goto, Busy
    <2>2. Stores(h, at[h], Slot("free", NoOne, NoOne)) /\ pc'[h] = "idle" /\ at'[h] = NoSlot
      BY Zenon, <1>1, <1>12 DEF RxRecycle, Goto, Leave
    <2>3. ~Adrift(ring[at[h]].token)
      BY Zenon, <2>1 DEF Base, Evidence, HandleFits
    <2> QED
      BY Zenon, <2>1, <2>2, <2>3, OwnSlot, EmptyKeeps
  <1>13. CASE RxForget(h)
    <2>1. PICK s : s = ring[at[h]]
      BY Zenon
    <2>2. Busy(h) /\ Runs(h) /\ pc[h] = "claimed"
      BY Zenon, <1>13 DEF RxForget, Goto, Busy
    <2>3. /\ at[h] \in Slots /\ Unshared(h, at[h]) /\ ring[at[h]].token # NoOne
          /\ s \in SlotWords
      BY Zenon, <1>0, <2>1, <2>2, OwnSlot, BusyToken
    <2>4. Set(at[h], s)
      BY Zenon, <1>0, <1>13, <2>1, <2>3 DEF RxForget, ringVars, Set
    <2>5. Stores(h, at[h], s) /\ pc'[h] = "idle" /\ at'[h] = NoSlot
      BY Zenon, <1>1, <1>13, <2>4 DEF RxForget, Goto, Leave
    <2>6. Adrift(s.token) /\ FitsWord(s.token, s.source)
      BY Zenon, <2>1, <2>2, <2>3 DEF Base, Evidence, HandleFits, TokenFits
    <2>7. Carry(h, at[h], s)
      BY Zenon, <2>1, <2>3, <2>6 DEF Carry, Base, Evidence, CarriedOnce
    <2> QED
      BY Zenon, <2>1, <2>2, <2>3, <2>5, <2>7, FillKeeps
  <1> QED
    BY Zenon, <1>2, <1>3, <1>4, <1>5, <1>6, <1>7, <1>8, <1>9, <1>10, <1>11, <1>12, <1>13 DEF HandleStep

----------------------------------------------------------------------------
(* Deaths and recovery.                                                    *)

\* A death takes witnesses away; its participant answers then, until it is reaped.
LEMMA DieKeeps == ASSUME Base, NEW p \in Participants, Die(p) PROVE Evidence'
  <1>1. /\ p \in alive /\ alive' = alive \ {p} /\ state' = state /\ held' = held /\ ring' = ring
        /\ pc' = pc /\ at' = at /\ fix' = fix /\ reaped' = reaped
    BY Zenon DEF Die, PoolDie, ringVars, handleVars, reapVars
  <1>2. ASSUME NEW i \in Slots PROVE TokenFits(i)'
    <2>1. TokenFits(i)
      BY Zenon DEF Base, Evidence
    <2>2. ASSUME TakenAt(i), ring[i].source \in alive' PROVE TakenAt(i)'
      <3>1. PICK h \in Handles : Runs(h) /\ pc[h] = "taken" /\ at[h] = i
        BY Zenon, <2>2 DEF TakenAt
      <3>2. Runs(h)'
        BY Zenon, <2>2, <3>1, BusyToken DEF Runs
      <3> QED
        BY Zenon, <1>1, <3>1, <3>2 DEF TakenAt
    <2> QED
      BY Zenon, <1>1, <2>1, <2>2 DEF TokenFits, FitsWord, Adrift
  <1>3. \A h \in Handles : HandleFits(h)' /\ HeldAt(h)'
    BY Zenon, <1>1 DEF Base, Evidence, HandleFits, HeldAt, Runs, Live, Adrift
  <1>4. \A r \in Reapers : RepairFits(r)'
    BY Zenon, <1>1 DEF Base, Evidence, RepairFits, Ended
  <1>5. CarriedOnce'
    BY Zenon, <1>1 DEF Base, Evidence, CarriedOnce
  <1>6. ASSUME NEW b \in Blocks PROVE Answered(b)'
    <2>1. Answered(b) /\ Named(b)' = Named(b)
      BY Zenon, <1>1 DEF Base, Evidence, Named
    <2> QED
      BY Zenon, <1>1, <2>1, BaseTypes DEF Answered, Runs
  <1> QED
    BY Zenon, <1>2, <1>3, <1>4, <1>5, <1>6 DEF Evidence

\* the slots change in nothing but their marks
Marks == \A i \in Slots : /\ ring'[i].token = ring[i].token
                          /\ ring'[i].stage = ring[i].stage /\ ring'[i].source = ring[i].source

\* A step of recovery that leaves the words and the tokens.
LEMMA MarksKeep ==
    ASSUME Base, Marks, UNCHANGED <<state, held, alive, pc, at>>, ReapedIsForgotten',
           \A r \in Reapers : fix'[r] \in {fix[r], NotFixing} \/ RepairFits(r)'
    PROVE  Evidence'
  <1>1. ASSUME NEW i \in Slots PROVE TokenFits(i)'
    <2>1. TokenFits(i) /\ TakenAt(i)' = TakenAt(i)
      BY Zenon DEF Base, Evidence, TakenAt, Runs
    <2> QED
      BY Zenon, <2>1 DEF TokenFits, FitsWord, Adrift, Marks
  <1>2. ASSUME NEW h \in Handles PROVE HandleFits(h)' /\ HeldAt(h)'
    <2>1. HandleFits(h) /\ HeldAt(h)
      BY Zenon DEF Base, Evidence
    <2>2. HeldAt(h)'
      BY Zenon, <2>1 DEF HeldAt, Runs, Live, Marks
    <2>3. Busy(h) => ring'[at[h]].token = ring[at[h]].token
      BY Zenon, BusySlot DEF Marks, Base
    <2> QED
      BY Zenon, <2>1, <2>2, <2>3 DEF HandleFits, Runs, Adrift, Busy
  <1>3. ASSUME NEW r \in Reapers PROVE RepairFits(r)'
    <2> SUFFICES ASSUME r \in alive, fix'[r] = fix[r], fix[r] # NotFixing PROVE RepairFits(r)'
      BY Zenon DEF RepairFits
    <2>1. RepairFits(r) /\ fix[r].slot \in Slots
      BY Zenon, FixedSlot DEF Base, Evidence
    <2>2. ring'[fix'[r].slot].token = ring[fix[r].slot].token
      BY Zenon, <2>1 DEF Marks
    <2> QED
      BY Zenon, <2>1, <2>2 DEF RepairFits, Ended
  <1>4. CarriedOnce'
    BY Zenon DEF Base, Evidence, CarriedOnce, Marks
  <1>5. ASSUME NEW b \in Blocks PROVE Answered(b)'
    <2>1. Answered(b) /\ Named(b)' = Named(b)
      BY Zenon DEF Base, Evidence, Named
    <2>2. state[b].owner \notin reaped'
      BY Zenon DEF ReapedIsForgotten
    <2> QED
      BY Zenon, <2>1, <2>2 DEF Answered, Runs, Marks
  <1> QED
    BY Zenon, <1>1, <1>2, <1>3, <1>4, <1>5 DEF Evidence

\* Storage::recover ends an allocation of a dead participant: it is not adrift.
LEMMA RecoverKeeps ==
    ASSUME Base, NEW b \in Blocks, NEW dead \in Participants \ alive, RecoverBlock(b, dead),
           state[b].allocated, state[b].owner = dead,
           UNCHANGED <<ringVars, handleVars, fix, reaped>>
    PROVE  Evidence'
  <1>1. PICK w : w = Free(state[b].generation)
    BY Zenon
  <1>2. /\ Exchange(b, w) /\ ring' = ring /\ alive' = alive /\ held' = held
        /\ pc' = pc /\ at' = at /\ fix' = fix /\ reaped' = reaped
    BY Zenon, <1>1 DEF RecoverBlock, ringVars, handleVars
  <1>3. /\ state[b].generation \in Generations /\ state[b].generation \in Nat
        /\ dead # NoOne
    BY BaseTypes DEF State, Generations
  <1>4. /\ w \in State /\ w.generation = state[b].generation /\ ~w.allocated /\ state'[b] = w
    BY Zenon, <1>1, <1>2, <1>3, WordTypes, WordFields, BaseTypes DEF Exchange
  <1>5. \A i \in Slots : TakenAt(i) => TakenAt(i)'
    BY Zenon, <1>2 DEF TakenAt, Runs
  <1>6. ASSUME NEW t, t = Tok(b, w.generation)
        PROVE  ~Adrift(t) /\ ~Adrift(t)' /\ t.block = b /\ t.generation = w.generation
    <2>1. t.block = b /\ t.generation = w.generation
      BY Zenon, <1>6 DEF Tok
    <2> QED
      BY Zenon, <1>3, <1>4, <2>1, AdriftFields, WordFields DEF Adrift
  <1>7. ASSUME NEW i \in Slots, ring[i].token = Tok(b, w.generation) PROVE TokenFits(i)'
    <2>1. PICK t : t = ring[i].token
      BY Zenon
    <2>2. ~Adrift(t) /\ t.block = b /\ t.generation = w.generation /\ TokenFits(i)
      BY Zenon, <1>6, <1>7, <2>1 DEF Base, Evidence
    <2>3. FitsWord(t, ring[i].source)'
      BY <1>3, <1>4, <2>2 DEF FitsWord
    <2> QED
      BY Zenon, <1>2, <1>5, <2>1, <2>2, <2>3 DEF TokenFits
  <1>8. ASSUME NEW k \in Handles
        PROVE  \/ HandleFits(k)'
               \/ /\ pc'[k] = pc[k] /\ at'[k] = at[k]
                  /\ Busy(k) => ring[at[k]].token # Tok(b, w.generation)
    <2> SUFFICES ASSUME Busy(k), ring[at[k]].token = Tok(b, w.generation) PROVE HandleFits(k)'
      BY Zenon, <1>2
    <2>1. PICK t : t = ring[at[k]].token
      BY Zenon
    <2>2. ~Adrift(t) /\ ~Adrift(t)' /\ HandleFits(k)
      BY Zenon, <1>6, <2>1 DEF Base, Evidence
    <2>3. ring'[at'[k]].token = t
      BY Zenon, <1>2, <2>1
    <2> QED
      BY Zenon, <1>2, <2>1, <2>2, <2>3 DEF HandleFits, Adrift, Runs, Busy
  <1>9. \A k \in Handles : pc'[k] = pc[k] /\ at'[k] = at[k] /\ held'[k] = held[k]
    BY Zenon, <1>2
  <1>10. Answered(b)'
    BY Zenon, <1>4 DEF Answered
  <1>11. /\ w.generation >= state[b].generation
         /\ w.generation > state[b].generation <=> ~state[b].allocated
    BY Zenon, <1>3, <1>4, SameGeneration
  <1> QED
    BY Zenon, <1>2, <1>4, <1>5, <1>7, <1>8, <1>9, <1>10, <1>11, ExchangeKeeps

\* release_token for a slot in repair ends the allocation that the slot carries.
LEMMA RepairKeeps ==
    ASSUME Base, NEW r \in Reapers, ReapRelease(r), NEW i, i = fix[r].slot,
           NEW t, t = ring[i].token, ReleaseToken(t, ring[i].source),
           state[t.block].generation = t.generation, state[t.block].allocated
    PROVE  Evidence'
  <1>0. /\ r \in alive /\ fix[r] # NotFixing /\ ~fix[r].resolved
        /\ UNCHANGED <<ringVars, handleVars, reaped>>
    BY Zenon DEF ReapRelease
  <1>17. fix' = [fix EXCEPT ![r].resolved = TRUE]
    BY Zenon DEF ReapRelease, ReleaseToken
  <1>1. PICK w : w = Free(t.generation)
    BY Zenon
  <1>2. PICK b : b = t.block
    BY Zenon
  <1>3. /\ Exchange(b, w) /\ ring' = ring /\ alive' = alive /\ held' = held
        /\ pc' = pc /\ at' = at /\ reaped' = reaped
    BY Zenon, <1>0, <1>1, <1>2 DEF ReleaseToken, ringVars, handleVars
  <1>4. /\ i \in Slots /\ ring[i].source \in Participants /\ ring[i].source \notin alive
        /\ t # NoOne
    BY Zenon, <1>0, FixedSlot DEF Base
  <1>5. /\ t \in Token /\ b \in Blocks /\ t.generation \in Nat /\ t = Tok(b, t.generation)
    BY Zenon, <1>2, <1>4, TokenTypes DEF Tok
  <1>6. t.generation \in Generations
    BY Zenon, <1>5, TokenGenerations
  <1>7. w \in State /\ w.generation = t.generation /\ ~w.allocated /\ state'[b] = w
    BY Zenon, <1>1, <1>3, <1>5, <1>6, WordTypes, WordFields, BaseTypes DEF Exchange
  <1>8. \A j \in Slots : ring[j].token = t => j = i
    BY Zenon, <1>4 DEF Base, Evidence, CarriedOnce
  <1>9. \A j \in Slots : TakenAt(j) => TakenAt(j)'
    BY Zenon, <1>3 DEF TakenAt, Runs
  <1>10. TokenFits(i)'
    <2>1. FitsWord(t, ring[i].source)'
      BY Zenon, <1>2, <1>5, <1>7, SameGeneration DEF FitsWord
    <2>2. ring[i].stage # "ready"
      BY Zenon, <1>4, BaseTypes DEF Base, Shape, SlotsFit, Owned
    <2> QED
      BY Zenon, <1>3, <1>4, <2>1, <2>2 DEF TokenFits
  <1>11. \A k \in Handles : /\ pc'[k] = pc[k] /\ at'[k] = at[k] /\ held'[k] = held[k]
                            /\ Busy(k) => ring[at[k]].token # t
    <2>1. \A k \in Handles : Busy(k) => at[k] \in Slots /\ at[k] # i
      BY Zenon, <1>4, BusySlot DEF Base, Shape, HandlesFit
    <2> QED
      BY Zenon, <1>3, <1>8, <2>1
  <1>12. Answered(b)'
    BY Zenon, <1>7 DEF Answered
  <1>13. /\ w.generation >= state[b].generation
         /\ w.generation > state[b].generation <=> ~state[b].allocated
    BY Zenon, <1>2, <1>5, <1>7, SameGeneration
  <1>14. ASSUME NEW q \in Reapers PROVE fix'[q] = fix[q] \/ RepairFits(q)'
    <2>1. fix \in [Reapers -> [slot : Slots \cup {NoSlot}, resolved : BOOLEAN]]
      BY Zenon DEF Base, Shape, TransferTypeOK
    <2>2. q # r => fix'[q] = fix[q]
      BY Zenon, <1>17, <2>1
    <2>3. fix'[r].slot = i
      BY Zenon, <1>17, <2>1
    <2>4. Ended(t)'
      BY Zenon, <1>2, <1>7 DEF Ended
    <2> QED
      BY Zenon, <1>3, <2>2, <2>3, <2>4 DEF RepairFits, Ended
  <1>15. t = Tok(b, w.generation)
    BY Zenon, <1>5, <1>7
  <1>16. \A j \in Slots : ring[j].token = Tok(b, w.generation) => TokenFits(j)'
    BY Zenon, <1>8, <1>10, <1>15
  <1>18. \A k \in Handles : /\ pc'[k] = pc[k] /\ at'[k] = at[k] /\ held'[k] = held[k]
                            /\ Busy(k) => ring[at[k]].token # Tok(b, w.generation)
    BY Zenon, <1>11, <1>15
  <1>19. \A q \in Reapers : fix'[q] = fix[q] \/ RepairFits(q)'
    BY Zenon, <1>14
  <1> QED
    BY Zenon, <1>3, <1>5, <1>7, <1>9, <1>12, <1>13, <1>16, <1>18, <1>19, ExchangeKeeps

\* The repaired slot is stored: the allocation it carried is over.
LEMMA StoreKeeps == ASSUME Base, NEW r \in Reapers, ReapStore(r) PROVE Evidence'
  <1>1. PICK i : i = fix[r].slot
    BY Zenon
  <1>2. /\ r \in alive /\ fix[r] # NotFixing /\ fix[r].resolved
        /\ fix' = [fix EXCEPT ![r] = NotFixing]
        /\ UNCHANGED <<state, held, alive, pc, at, reaped>>
    BY Zenon DEF ReapStore, poolVars, handleVars
  <1>3. /\ i \in Slots /\ ring[i].source \notin alive /\ ring[i].reaper = r
        /\ ring[i].token # NoOne => ~Adrift(ring[i].token)
    <2>1. i \in Slots /\ ring[i].source \notin alive /\ ring[i].reaper = r
      BY Zenon, <1>1, <1>2, FixedSlot DEF Base
    <2>2. ring[i].token # NoOne => Ended(ring[i].token)
      BY Zenon, <1>1, <1>2 DEF Base, Evidence, RepairFits
    <2> QED
      BY Zenon, <2>1, <2>2, AdriftFields DEF Ended
  <1>4. PICK stage \in {"free", "skipped"} : Set(i, Slot(stage, NoOne, NoOne))
    BY Zenon, <1>1 DEF ReapStore
  <1>5. PICK s : s = Slot(stage, NoOne, NoOne)
    BY Zenon
  <1>6. s \in SlotWords /\ s.token = NoOne
    BY <1>5, SlotTypes, SlotFields DEF Stages
  <1>7. ring'[i].token = NoOne /\ \A j \in Slots \ {i} : ring'[j] = ring[j]
    BY Zenon, <1>3, <1>4, <1>5, <1>6, SetOne DEF Base, Shape
  <1>8. ASSUME NEW j \in Slots PROVE TokenFits(j)'
    <2> SUFFICES ASSUME j # i PROVE TokenFits(j)'
      BY Zenon, <1>7 DEF TokenFits
    <2>1. TokenFits(j) /\ TakenAt(j)' = TakenAt(j) /\ ring'[j] = ring[j]
      BY Zenon, <1>2, <1>7 DEF Base, Evidence, TakenAt, Runs
    <2> QED
      BY Zenon, <1>2, <2>1 DEF TokenFits, FitsWord, Adrift
  <1>9. ASSUME NEW h \in Handles PROVE HandleFits(h)' /\ HeldAt(h)'
    <2>1. HandleFits(h) /\ HeldAt(h)
      BY Zenon DEF Base, Evidence
    <2>2. HeldAt(h)'
      BY Zenon, <1>2, <1>7, <2>1 DEF HeldAt, Runs, Live
    <2>3. Busy(h) => ring'[at[h]] = ring[at[h]]
      BY <1>3, <1>7, BusySlot DEF Base, Shape, HandlesFit
    <2> QED
      BY Zenon, <1>2, <2>1, <2>2, <2>3 DEF HandleFits, Runs, Adrift, Busy
  <1>10. ASSUME NEW q \in Reapers PROVE RepairFits(q)'
    <2>1. fix \in [Reapers -> [slot : Slots \cup {NoSlot}, resolved : BOOLEAN]]
      BY Zenon DEF Base, Shape, TransferTypeOK
    <2>2. fix'[r] = NotFixing /\ (q # r => fix'[q] = fix[q])
      BY Zenon, <1>2, <2>1
    <2> SUFFICES ASSUME q # r, q \in alive, fix[q] # NotFixing PROVE RepairFits(q)'
      BY Zenon, <1>2, <2>2 DEF RepairFits
    <2>3. fix[q].slot \in Slots /\ fix[q].slot # i
      BY Zenon, <1>3, FixedSlot DEF Base
    <2>4. ring'[fix'[q].slot] = ring[fix[q].slot] /\ RepairFits(q)
      BY Zenon, <1>7, <2>2, <2>3 DEF Base, Evidence
    <2> QED
      BY Zenon, <1>2, <2>2, <2>4 DEF RepairFits, Ended
  <1>11. CarriedOnce'
    BY Zenon, <1>7 DEF Base, Evidence, CarriedOnce
  <1>12. ASSUME NEW b \in Blocks PROVE Answered(b)'
    <2> SUFFICES ASSUME state[b].allocated PROVE Answered(b)'
      BY Zenon, <1>2 DEF Answered
    <2>1. Named(b)' = Named(b) /\ Named(b) # NoOne /\ Answered(b)
      BY Zenon, <1>2, NamedToken DEF Named, Base, Evidence
    <2>2. ASSUME state[b].owner = NoOne, NEW j \in Slots, ring[j].token = Named(b)
          PROVE  ring'[j].token = Named(b)
      BY Zenon, <1>3, <1>7, <2>1, <2>2, NamedAdrift
    <2> QED
      BY Zenon, <1>2, <2>1, <2>2 DEF Answered, Runs
  <1> QED
    BY Zenon, <1>8, <1>9, <1>10, <1>11, <1>12 DEF Evidence

\* Steps of recovery keep the evidence.
LEMMA ReapKeeps ==
    ASSUME Base, ReapedIsForgotten', NEW r \in Reapers,
           ReapWork(r) \/ \E dead \in Participants : ReapStart(r, dead)
    PROVE  Evidence'
  <1>0. /\ fix \in [Reapers -> [slot : Slots \cup {NoSlot}, resolved : BOOLEAN]]
        /\ ring \in [Slots -> SlotWords]
    BY Zenon, BaseTypes DEF Base, Shape, TransferTypeOK
  \* nothing but the places of reapers changes
  <1>1. ASSUME UNCHANGED <<state, held, alive, pc, at, ring>>,
               \A q \in Reapers : fix'[q] \in {fix[q], NotFixing} \/ RepairFits(q)'
        PROVE  Evidence'
    <2>1. Marks
      BY Zenon, <1>1 DEF Marks
    <2> QED
      BY Zenon, <1>1, <2>1, MarksKeep
  <1>2. ASSUME GiveUp(r) \/ fix' = fix
        PROVE  \A q \in Reapers : fix'[q] \in {fix[q], NotFixing} \/ RepairFits(q)'
    BY Zenon, <1>0, <1>2 DEF GiveUp
  <1>3. ASSUME NEW dead \in Participants, ReapStart(r, dead) PROVE Evidence'
    BY Zenon, <1>1, <1>2, <1>3 DEF ReapStart, poolVars, ringVars, handleVars
  <1>4. ASSUME NEW b \in Blocks, ReapBlock(r, b) PROVE Evidence'
    <2>1. PICK dead : dead = Victim(r)
      BY Zenon
    <2>2. /\ Meets(r, BlockItem(b)) /\ RecoverBlock(b, dead)
          /\ UNCHANGED <<ringVars, handleVars, fix, reaped>>
      BY Zenon, <1>4, <2>1 DEF ReapBlock
    <2>3. dead \in Participants \ alive
      BY Zenon, <2>1, <2>2, MeetsDead DEF Base
    <2>4. CASE state[b].allocated /\ state[b].owner = dead
      BY Zenon, <2>2, <2>3, <2>4, RecoverKeeps
    <2>5. CASE ~(state[b].allocated /\ state[b].owner = dead)
      <3>1. UNCHANGED <<state, held, alive, pc, at, ring>> /\ fix' = fix
        BY Zenon, <2>2, <2>5 DEF RecoverBlock, ringVars, handleVars
      <3> QED
        BY Zenon, <1>1, <1>2, <3>1
    <2> QED
      BY Zenon, <2>4, <2>5
  <1>5. ASSUME NEW i \in Slots, ReapPass(r, i) PROVE Evidence'
    BY Zenon, <1>1, <1>2, <1>5 DEF ReapPass, poolVars, ringVars, handleVars
  <1>6. ASSUME NEW i \in Slots, ReapMark(r, i) PROVE Evidence'
    <2>1. UNCHANGED <<state, held, alive, pc, at>>
      BY Zenon, <1>6 DEF ReapMark, poolVars, handleVars
    <2>2. CASE GiveUp(r) /\ UNCHANGED ring
      BY Zenon, <1>1, <1>2, <2>1, <2>2
    <2>3. CASE ring[i].reaper \in {NoOne, r, Victim(r)}
      <3>1. PICK s : s = [ring[i] EXCEPT !.reaper = r]
        BY Zenon
      <3>2. PICK f : f = [slot |-> i, resolved |-> ring[i].token = NoOne]
        BY Zenon
      <3>3. Set(i, s) /\ fix' = [fix EXCEPT ![r] = f]
        BY Zenon, <1>6, <2>3, <3>1, <3>2 DEF ReapMark
      <3>4. s.token = ring[i].token /\ s.stage = ring[i].stage /\ s.source = ring[i].source
        BY Zenon, <1>0, <3>1 DEF SlotWords
      <3>5. ring'[i] = s /\ \A j \in Slots \ {i} : ring'[j] = ring[j]
        BY Zenon, <1>0, <3>3 DEF Set
      <3>6. Marks
        BY Zenon, <3>4, <3>5 DEF Marks
      <3>7. fix'[r] = f /\ \A q \in Reapers \ {r} : fix'[q] = fix[q]
        BY Zenon, <1>0, <3>3
      <3>8. f.slot = i /\ f.resolved = (ring[i].token = NoOne)
        BY Zenon, <3>2
      <3>9. RepairFits(r)'
        BY Zenon, <3>4, <3>5, <3>7, <3>8 DEF RepairFits
      <3>10. \A q \in Reapers : fix'[q] \in {fix[q], NotFixing} \/ RepairFits(q)'
        BY Zenon, <3>7, <3>9
      <3> QED
        BY Zenon, <2>1, <3>6, <3>10, MarksKeep
    <2> QED
      BY Zenon, <1>6, <2>2, <2>3 DEF ReapMark
  <1>7. CASE ReapRelease(r)
    <2>1. PICK i : i = fix[r].slot
      BY Zenon
    <2>2. PICK t : t = ring[i].token
      BY Zenon
    <2>3. UNCHANGED <<pc, at, ring>> /\ r \in alive
      BY Zenon, <1>7 DEF ReapRelease, ringVars, handleVars
    <2>4. CASE Refuses(t, ring[i].source)
      <3>1. GiveUp(r) /\ UNCHANGED poolVars
        BY Zenon, <1>7, <2>1, <2>2, <2>4 DEF ReapRelease, ReleaseToken
      <3>2. UNCHANGED <<state, held, alive, pc, at, ring>>
        BY Zenon, <2>3, <3>1 DEF poolVars
      <3> QED
        BY Zenon, <1>1, <1>2, <3>1, <3>2
    <2>5. CASE ReleaseToken(t, ring[i].source)
      <3>1. CASE state[t.block].generation = t.generation /\ state[t.block].allocated
        BY Zenon, <1>7, <2>1, <2>2, <2>5, <3>1, RepairKeeps
      <3>2. CASE ~(state[t.block].generation = t.generation /\ state[t.block].allocated)
        <4>1. UNCHANGED <<state, held, alive, pc, at, ring>>
          BY Zenon, <2>3, <2>5, <3>2 DEF ReleaseToken
        <4>2. fix' = [fix EXCEPT ![r].resolved = TRUE]
          BY Zenon, <1>7, <2>1, <2>2, <2>5 DEF ReapRelease, ReleaseToken
        <4>3. fix'[r].slot = i /\ \A q \in Reapers \ {r} : fix'[q] = fix[q]
          BY Zenon, <1>0, <2>1, <4>2
        <4>4. Ended(t)'
          BY Zenon, <3>2, <4>1 DEF Ended
        <4>5. RepairFits(r)'
          BY Zenon, <2>2, <4>1, <4>3, <4>4 DEF RepairFits, Ended
        <4>6. \A q \in Reapers : fix'[q] \in {fix[q], NotFixing} \/ RepairFits(q)'
          BY Zenon, <4>3, <4>5
        <4> QED
          BY Zenon, <1>1, <4>1, <4>6
      <3> QED
        BY Zenon, <3>1, <3>2
    <2> QED
      BY Zenon, <1>7, <2>1, <2>2, <2>4, <2>5 DEF ReapRelease
  <1>8. CASE ReapStore(r)
    BY Zenon, <1>8, StoreKeeps
  <1>9. CASE ReapNext(r)
    BY Zenon, <1>1, <1>2, <1>9 DEF ReapNext, poolVars, ringVars, handleVars
  <1> QED
    BY Zenon, <1>3, <1>4, <1>5, <1>6, <1>7, <1>8, <1>9 DEF ReapWork

----------------------------------------------------------------------------
(* The invariant, and what follows from it.                                *)

\* Nothing is allocated or carried at first.
LEMMA InitEvidence == TransferInit => Evidence
  <1> SUFFICES ASSUME TransferInit PROVE Evidence
    BY Zenon
  <1>1. \A i \in Slots : ring[i].token = NoOne
    BY SlotFields DEF TransferInit
  <1>2. \A h \in Handles : pc[h] = "idle" /\ held[h] = NoOne
    BY Zenon DEF TransferInit, PoolInit
  <1>3. \A r \in Reapers : fix[r] = NotFixing
    BY Zenon DEF TransferInit
  <1>4. \A b \in Blocks : ~state[b].allocated
    BY Zenon, WordFields DEF TransferInit, PoolInit
  <1> QED
    BY Zenon, <1>1, <1>2, <1>3, <1>4
       DEF Evidence, TokenFits, HandleFits, HeldAt, Live, RepairFits, CarriedOnce, Answered

\* The evidence is kept by every step.
LEMMA NextEvidence ==
    ASSUME Base, Forgotten, [TransferNext]_vars
    PROVE  Evidence'
  <1>1. ReapedIsForgotten'
    BY Zenon, NextForgets DEF Base, Forgotten
  <1>2. CASE UNCHANGED vars
    <2>1. UNCHANGED <<state, held, alive, pc, at>> /\ ring' = ring /\ fix' = fix
      BY Zenon, <1>2 DEF vars, poolVars, ringVars, handleVars, reapVars
    <2>2. Marks
      BY Zenon, <2>1 DEF Marks
    <2> QED
      BY Zenon, <1>1, <2>1, <2>2, MarksKeep
  <1> QED
    BY Zenon, <1>1, <1>2, HandleKeeps, DieKeeps, ReapKeeps DEF TransferNext

\* In every state the words fit what slots, handles and reapers know of them.
THEOREM EvidenceHolds == TransferSpec => []Base
  <1>1. TransferInit => Evidence
    BY Zenon, InitEvidence
  <1>2. Shape /\ PoolInv /\ Evidence /\ Forgotten /\ [TransferNext]_vars => Evidence'
    BY Zenon, NextEvidence DEF Base
  <1>3. Shape /\ PoolInv /\ Evidence <=> Base
    BY Zenon DEF Base
  <1> QED
    BY <1>1, <1>2, <1>3, ShapeHolds, ForgottenHolds, PTL DEF TransferSpec

\* Each allocation has exactly one reclamation authority, through reserve, publish,
\* claim, admit, discard, release, drain, deaths and recovery by any number of
\* reapers: a running handle, a dead participant still to be reaped, or one slot.
THEOREM OneAuthorityHolds == TransferSpec => []OneAuthority
  <1>1. ASSUME Base PROVE OneAuthority
    <2>1. ASSUME NEW i \in Slots, ring[i].token # NoOne
          PROVE  ring[i].stage \in {"staged", "ready", "claimed"}
      BY Zenon, <1>1, <2>1, BaseTypes DEF Base, Shape, SlotsFit, SlotWords, Stages
    <2>2. ASSUME NEW b \in Blocks, state[b].allocated
          PROVE  \/ state[b].owner \in alive /\ \E h \in Handles : /\ Home[h] = state[b].owner
                                                                   /\ held[h] = Named(b)
                 \/ state[b].owner \in Participants \ (alive \cup reaped)
                 \/ state[b].owner = NoOne /\ \E i \in Slots : Carries(i, Named(b))
      <3>1. Answered(b) /\ Named(b) # NoOne
        BY Zenon, <1>1, <2>2, NamedToken DEF Base, Evidence
      <3> QED
        BY Zenon, <2>1, <2>2, <3>1 DEF Answered, Runs, Carries
    <2>3. ASSUME NEW i \in Slots, NEW j \in Slots, NEW t \in Token, Carries(i, t), Carries(j, t)
          PROVE  i = j
      BY Zenon, <1>1, <2>3, BaseTypes DEF Base, Evidence, CarriedOnce, Carries
    <2> QED
      BY Zenon, <2>2, <2>3 DEF OneAuthority, Named
  <1> QED
    BY <1>1, EvidenceHolds, PTL

\* Received::adopt, admit and discard never answer Owned: what a running receiver has
\* claimed is detached in the generation of its token.
THEOREM ClaimIsAdmissibleHolds == TransferSpec => []ClaimIsAdmissible
  <1>1. ASSUME Base PROVE ClaimIsAdmissible
    BY Zenon, <1>1 DEF Base, Evidence, HandleFits, Adrift, ClaimIsAdmissible
  <1> QED
    BY <1>1, EvidenceHolds, PTL

\* The assertion of TransferStaged::publish holds: a running sender that has staged
\* its allocation still owns it.
THEOREM PublishKeepsAuthorityHolds == TransferSpec => []PublishKeepsAuthority
  <1>1. ASSUME Base, NEW h \in Handles, pc[h] = "staged", Runs(h)
        PROVE  Live(h) /\ state[held[h].block] = Local(held[h].generation, Home[h])
    <2>1. Live(h)
      BY Zenon, <1>1, BusyToken DEF Base, Shape, HandlesFit, Live
    <2> QED
      BY Zenon, <1>1, <2>1, HeldWord
  <1>2. Base => PublishKeepsAuthority
    BY Zenon, <1>1 DEF PublishKeepsAuthority
  <1> QED
    BY <1>2, EvidenceHolds, PTL

\* release_token never refuses the token of a slot that Recovery repairs, whatever
\* the pool pass, other reapers and the reuse of the block did before.
THEOREM EvidenceFitsHolds == TransferSpec => []EvidenceFits
  <1>1. ASSUME Base, NEW r \in Reapers, r \in alive, fix[r] # NotFixing, ~fix[r].resolved,
               NEW s, s = ring[fix[r].slot]
        PROVE  ~Refuses(s.token, s.source)
    <2>1. PICK i : i = fix[r].slot
      BY Zenon
    <2>2. i \in Slots /\ ring[i].token # NoOne
      BY Zenon, <1>1, <2>1, FixedSlot DEF Base
    <2>3. PICK t : t = ring[i].token
      BY Zenon
    <2>4. t.block \in Blocks /\ t.generation \in Nat /\ state[t.block].generation \in Nat
      BY Zenon, <1>1, <2>2, <2>3, TokenTypes
    <2>5. Canonical(state[t.block]) /\ FitsWord(t, ring[i].source)
      BY Zenon, <1>1, <2>2, <2>3, <2>4 DEF Base, PoolInv, PoolTypeOK, Evidence, TokenFits
    <2>6. ~(state[t.block].generation < t.generation)
      BY <2>4, <2>5 DEF FitsWord
    <2>7. ~Refuses(t, ring[i].source)
      BY Zenon, <2>5, <2>6 DEF Refuses, FitsWord
    <2> QED
      BY Zenon, <1>1, <2>1, <2>3, <2>7
  <1>2. Base => EvidenceFits
    BY Zenon, <1>1 DEF EvidenceFits
  <1> QED
    BY <1>2, EvidenceHolds, PTL
=============================================================================
