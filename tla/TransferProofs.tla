--------------------------- MODULE TransferProofs ---------------------------
(***************************************************************************)
(* Proofs about Pool and Transfer, for any number of participants,         *)
(* handles, blocks, slots, reapers and generations.                        *)
(*                                                                         *)
(* First the lifecycle words of Pool: an allocation has one running owner, *)
(* and never comes back once it ended.  Then what slots, handles and       *)
(* reapers of Transfer have to do with each other (Shape); from this       *)
(* follows that Transfer implements Pool.  Then that recovery forgets the  *)
(* dead, in whatever order a pass meets blocks and slots: nothing comes to *)
(* name a dead participant (Fades), so what a pass has gone by stays clear *)
(* of its victim (Forgets).  AuthorityProofs.tla builds on it.             *)
(***************************************************************************)
EXTENDS Transfer, TLAPS

-----------------------------------------------------------------------------
(* The lifecycle words.                                                    *)

\* what the proofs carry from state to state
PoolInv == PoolTypeOK /\ OwnedByOne /\ EndedStaysEnded

\* The fields of the three kinds of word.
LEMMA WordFields ==
    /\ \A g : Free(g).generation = g /\ ~Free(g).allocated /\ Free(g).owner = NoOne
    /\ \A g, p : Local(g, p).generation = g /\ Local(g, p).allocated /\ Local(g, p).owner = p
    /\ \A g : Detached(g).generation = g /\ Detached(g).allocated /\ Detached(g).owner = NoOne
  BY DEF Free, Local, Detached

\* The words are canonical words of the lifecycle field.
LEMMA WordTypes ==
    /\ \A g \in Generations : Free(g) \in State /\ Canonical(Free(g))
    /\ \A g \in Generations, p \in Participants :
         Local(g, p) \in State /\ Canonical(Local(g, p))
    /\ \A g \in Generations : Detached(g) \in State /\ Canonical(Detached(g))
  BY DEF Free, Local, Detached, State, Canonical

\* The initial words and handles satisfy the invariant.
LEMMA InitPoolInv == PoolInit => PoolInv
  <1> SUFFICES ASSUME PoolInit PROVE PoolInv
    OBVIOUS
  <1>1. 0 \in Generations
    BY PoolAssumption DEF Generations
  <1>2. PoolTypeOK
    BY <1>1, WordTypes, WordFields DEF PoolInit, PoolTypeOK
  <1>3. OwnedByOne /\ EndedStaysEnded
    BY DEF PoolInit, OwnedByOne, EndedStaysEnded, Live
  <1> QED
    BY <1>2, <1>3 DEF PoolInv

\* An exchange that ends the allocation t, which no running handle other than the
\* one that gives it up owns, keeps the invariant.
LEMMA EndKeeps ==
    ASSUME PoolInv, NEW t \in Token,
           state[t.block].generation = t.generation,
           state' = [state EXCEPT ![t.block] = Free(t.generation)],
           freed' = freed \cup {t}, alive' = alive,
           held' \in [Handles -> Token \cup {NoOne}],
           \A h \in Handles : Live(h)' => held'[h] = held[h],
           \A h \in Handles : Runs(h) /\ Live(h)' => held[h].block # t.block
    PROVE  PoolInv'
  <1>0. /\ t.block \in Blocks /\ t.generation \in Generations
        /\ state'[t.block] = Free(t.generation)
        /\ \A b \in Blocks \ {t.block} : state'[b] = state[b]
    BY PoolAssumption DEF Token, Generations, PoolInv, PoolTypeOK
  <1>1. PoolTypeOK'
    BY <1>0, WordTypes, WordFields DEF PoolInv, PoolTypeOK
  <1>2. \A h \in Handles : (Runs(h)' <=> Runs(h)) /\ (Live(h)' => Live(h))
    BY PoolAssumption DEF Runs, Live, PoolInv, PoolTypeOK
  <1>3. OwnedByOne'
    <2> SUFFICES ASSUME NEW h \in Handles, Runs(h)', Live(h)'
                 PROVE  /\ state'[held'[h].block] = Local(held'[h].generation, Home[h])
                        /\ \A k \in Handles \ {h} :
                             Runs(k)' /\ Live(k)' => held'[k].block # held'[h].block
      BY DEF OwnedByOne
    <2>1. held'[h] = held[h] /\ held[h].block # t.block /\ Runs(h) /\ Live(h)
      BY <1>2
    <2>2. held[h] \in Token /\ held[h].block \in Blocks
      BY <2>1 DEF Live, PoolInv, PoolTypeOK, Token
    <2>3. state'[held[h].block] = Local(held[h].generation, Home[h])
      BY <1>0, <2>1, <2>2 DEF PoolInv, OwnedByOne
    <2> QED
      BY <1>2, <2>1, <2>3 DEF PoolInv, OwnedByOne
  <1>4. EndedStaysEnded'
    <2> SUFFICES ASSUME NEW u \in freed'
                 PROVE  /\ state'[u.block].generation >= u.generation
                        /\ state'[u.block].generation = u.generation => ~state'[u.block].allocated
                        /\ \A h \in Handles : Runs(h)' /\ Live(h)' => held'[h] # u
      BY DEF EndedStaysEnded
    <2>1. u \in Token /\ u.block \in Blocks /\ u.generation \in Nat
      BY DEF PoolInv, PoolTypeOK, Token
    <2>2. \A h \in Handles : Runs(h)' /\ Live(h)' => held'[h] # u
      BY <1>2 DEF PoolInv, EndedStaysEnded
    <2>3. CASE u.block = t.block
      <3>1. t.generation >= u.generation
        BY <2>1, <2>3 DEF PoolInv, EndedStaysEnded, Token
      <3> QED
        BY <1>0, <2>2, <2>3, <3>1, WordFields
    <2>4. CASE u.block # t.block
      <3>1. u \in freed /\ state'[u.block] = state[u.block]
        BY <1>0, <2>1, <2>4
      <3> QED
        BY <2>2, <3>1 DEF PoolInv, EndedStaysEnded
    <2> QED
      BY <2>3, <2>4
  <1> QED
    BY <1>1, <1>3, <1>4 DEF PoolInv

\* An exchange that gives the allocation t, which never ended, to a handle when no
\* running handle owns the block keeps the invariant.
LEMMA GrantKeeps ==
    ASSUME PoolInv, NEW h \in Handles, NEW t \in Token, Runs(h),
           state[t.block].owner = NoOne,
           state[t.block].generation <= t.generation, t \notin freed,
           state' = [state EXCEPT ![t.block] = Local(t.generation, Home[h])],
           held' = [held EXCEPT ![h] = t], alive' = alive, freed' = freed
    PROVE  PoolInv'
  <1>0. /\ t.block \in Blocks /\ t.generation \in Generations /\ Home[h] \in Participants
        /\ NoOne \notin Participants /\ state'[t.block] = Local(t.generation, Home[h])
        /\ \A b \in Blocks \ {t.block} : state'[b] = state[b]
        /\ held'[h] = t /\ \A k \in Handles \ {h} : held'[k] = held[k]
    <2>1. t.block \in Blocks /\ t.generation \in Generations
      BY PoolAssumption DEF Token, Generations
    <2>2. Home[h] \in Participants /\ NoOne \notin Participants
      BY PoolAssumption
    <2>3. DOMAIN state = Blocks /\ DOMAIN held = Handles
      BY DEF PoolInv, PoolTypeOK
    <2> QED
      BY <2>1, <2>2, <2>3
  <1>1. PoolTypeOK'
    <2>1. t.generation > 0
      BY DEF Token
    <2> QED
      BY <1>0, <2>1, WordTypes, WordFields DEF PoolInv, PoolTypeOK
  <1>2. \A k \in Handles : Runs(k)' <=> Runs(k)
    BY DEF Runs
  <1>3. ASSUME NEW k \in Handles \ {h}, Runs(k), Live(k)'
        PROVE  /\ Live(k) /\ held[k] \in Token /\ held[k].block # t.block
               /\ state[held[k].block] = Local(held[k].generation, Home[k])
    <2>1. Live(k) /\ held[k] \in Token /\ Home[k] \in Participants
      BY Zenon, <1>0, <1>3, PoolAssumption DEF Live, PoolInv, PoolTypeOK
    <2>2. state[held[k].block] = Local(held[k].generation, Home[k])
      BY <1>3, <2>1 DEF PoolInv, OwnedByOne
    <2> QED
      BY <1>0, <2>1, <2>2, WordFields
  <1>4. OwnedByOne'
    <2>1. ASSUME NEW k \in Handles, Runs(k)', Live(k)'
          PROVE  /\ state'[held'[k].block] = Local(held'[k].generation, Home[k])
                 /\ \A j \in Handles \ {k} : Runs(j)' /\ Live(j)' => held'[j].block # held'[k].block
      <3>1. CASE k = h
        BY <1>0, <1>2, <1>3, <3>1
      <3>2. CASE k # h
        <4>1. /\ held'[k] = held[k] /\ Live(k) /\ held[k].block \in Blocks \ {t.block}
              /\ state[held[k].block] = Local(held[k].generation, Home[k])
          BY <1>0, <1>2, <1>3, <2>1, <3>2 DEF Token
        <4>2. \A j \in Handles \ {k} : Runs(j)' /\ Live(j)' => held'[j].block # held'[k].block
          BY <1>0, <1>2, <1>3, <2>1, <4>1 DEF PoolInv, OwnedByOne
        <4> QED
          BY <1>0, <4>1, <4>2
      <3> QED
        BY <3>1, <3>2
    <2> QED
      BY <2>1 DEF OwnedByOne
  <1>5. EndedStaysEnded'
    <2> SUFFICES ASSUME NEW u \in freed
                 PROVE  /\ state'[u.block].generation >= u.generation
                        /\ state'[u.block].generation = u.generation => ~state'[u.block].allocated
                        /\ \A k \in Handles : Runs(k)' /\ Live(k)' => held'[k] # u
      BY DEF EndedStaysEnded
    <2>1. /\ u \in Token /\ u.block \in Blocks /\ u.generation \in Nat /\ t.generation \in Nat
          /\ state[u.block].generation \in Nat /\ state[u.block].generation >= u.generation
      BY DEF PoolInv, PoolTypeOK, EndedStaysEnded, Token, State, Generations
    <2>2. \A k \in Handles : Runs(k)' /\ Live(k)' => held'[k] # u
      BY <1>0, <1>2, <1>3 DEF PoolInv, EndedStaysEnded
    <2>3. CASE u.block = t.block
      <3>1. u.generation # t.generation
        BY <2>1, <2>3 DEF Token
      <3> QED
        BY <1>0, <2>1, <2>2, <2>3, <3>1, WordFields
    <2>4. CASE u.block # t.block
      BY <1>0, <2>1, <2>2, <2>4 DEF PoolInv, EndedStaysEnded
    <2> QED
      BY <2>3, <2>4
  <1> QED
    BY <1>1, <1>4, <1>5 DEF PoolInv

\* A step that changes no word, gives nothing to a handle and revives nobody.
LEMMA QuietKeeps ==
    ASSUME PoolInv, alive' \subseteq alive, state' = state, freed' = freed, held' = held
    PROVE  PoolInv'
  <1>1. \A k \in Handles : (Runs(k)' => Runs(k)) /\ (Live(k)' <=> Live(k))
    BY DEF Runs, Live
  <1>2. PoolTypeOK'
    BY DEF PoolInv, PoolTypeOK
  <1>3. OwnedByOne' /\ EndedStaysEnded'
    BY <1>1 DEF PoolInv, OwnedByOne, EndedStaysEnded
  <1> QED
    BY <1>2, <1>3 DEF PoolInv

\* Every step of the pool keeps the invariant.
LEMMA PoolNextKeeps == ASSUME PoolInv, [PoolNext]_poolVars PROVE PoolInv'
  <1> USE PoolAssumption
  \* the block of a running handle carries the handle's word
  <1>1. ASSUME NEW h \in Handles, Runs(h), Live(h)
        PROVE  /\ held[h] \in Token /\ Home[h] \in Participants /\ Home[h] # NoOne
               /\ state[held[h].block] = Local(held[h].generation, Home[h])
               /\ state[held[h].block].generation = held[h].generation
               /\ state[held[h].block].owner = Home[h] /\ Home[h] \in alive
    BY <1>1, WordFields DEF PoolInv, PoolTypeOK, OwnedByOne, Live, Runs
  <1>2. ASSUME NEW h \in Handles, NEW b \in Blocks, Claim(h, b) PROVE PoolInv'
    <2>1. PICK g : g = state[b].generation + 1
      OBVIOUS
    <2>2. PICK t : t = [block |-> b, generation |-> g]
      BY Zenon
    <2>3. /\ state[b].owner = NoOne /\ state[b].generation \in Generations
          /\ state[b].generation < MaxGeneration
      BY <1>2 DEF Claim, Canonical, PoolInv, PoolTypeOK, State
    <2>4. t \in Token /\ t.block = b /\ t.generation = g /\ state[b].generation <= g
      BY <2>1, <2>2, <2>3 DEF Token, Generations
    <2>5. t \notin freed
      BY <2>1, <2>3, <2>4 DEF PoolInv, EndedStaysEnded, Generations
    <2> QED
      BY Zenon, <1>2, <2>1, <2>2, <2>3, <2>4, <2>5, GrantKeeps DEF Claim, Exchange, Generations
  <1>3. ASSUME NEW h \in Handles, Release(h) PROVE PoolInv'
    <2>1. PICK t : t = held[h]
      OBVIOUS
    <2>2. /\ t \in Token /\ state[t.block] = Local(t.generation, Home[h])
          /\ state[t.block].generation = t.generation
      BY <1>1, <1>3, <2>1 DEF Release
    <2>3. /\ state' = [state EXCEPT ![t.block] = Free(t.generation)]
          /\ freed' = freed \cup {t} /\ alive' = alive /\ held' = [held EXCEPT ![h] = NoOne]
      BY <1>3, <2>1, <2>2 DEF Release, Exchange
    <2>4. /\ held' \in [Handles -> Token \cup {NoOne}] /\ held'[h] = NoOne
          /\ \A k \in Handles \ {h} : held'[k] = held[k]
      BY <2>3 DEF PoolInv, PoolTypeOK
    <2>5. \A k \in Handles : Live(k)' => k # h /\ held'[k] = held[k] /\ Live(k)
      BY <2>4 DEF Live
    <2>6. \A k \in Handles : Runs(k) /\ Live(k)' => held[k].block # t.block
      BY <1>3, <2>1, <2>5 DEF Release, PoolInv, OwnedByOne
    <2> QED
      BY Zenon, <2>2, <2>3, <2>4, <2>5, <2>6, EndKeeps
  <1>4. ASSUME NEW h \in Handles, Detach(h) PROVE PoolInv'
    <2>1. PICK t : t = held[h]
      OBVIOUS
    <2>2. /\ t \in Token /\ t.block \in Blocks /\ t.generation \in Generations
          /\ state[t.block] = Local(t.generation, Home[h])
      BY <1>1, <1>4, <2>1 DEF Detach, Token, Generations
    <2>3. /\ state' = [state EXCEPT ![t.block] = Detached(t.generation)]
          /\ freed' = freed /\ alive' = alive /\ held' = [held EXCEPT ![h] = NoOne]
      BY <1>4, <2>1 DEF Detach, Exchange
    <2>4. /\ held'[h] = NoOne /\ \A k \in Handles \ {h} : held'[k] = held[k]
          /\ state'[t.block] = Detached(t.generation)
          /\ \A b \in Blocks \ {t.block} : state'[b] = state[b]
      BY <2>2, <2>3 DEF PoolInv, PoolTypeOK
    <2>5. PoolTypeOK'
      <3>1. t.generation > 0
        BY <2>2 DEF Token
      <3> QED
        BY <2>2, <2>3, <3>1, WordTypes, WordFields DEF PoolInv, PoolTypeOK
    <2>6. \A k \in Handles : /\ Runs(k)' <=> Runs(k)
                             /\ Live(k)' => k # h /\ held'[k] = held[k] /\ Live(k)
      BY <2>3, <2>4 DEF Live, Runs
    <2>7. \A k \in Handles : Runs(k) /\ Live(k)' =>
            held[k].block \in Blocks /\ held[k].block # t.block
      BY <1>1, <1>4, <2>1, <2>6 DEF Detach, PoolInv, OwnedByOne, Token
    <2>8. OwnedByOne'
      BY <2>4, <2>6, <2>7 DEF PoolInv, OwnedByOne
    <2>9. EndedStaysEnded'
      <3> SUFFICES ASSUME NEW u \in freed
                   PROVE  /\ state'[u.block].generation >= u.generation
                          /\ state'[u.block].generation = u.generation =>
                               ~state'[u.block].allocated
                          /\ \A k \in Handles : Runs(k)' /\ Live(k)' => held'[k] # u
        BY <2>3 DEF EndedStaysEnded
      <3>1. u.block \in Blocks
        BY DEF PoolInv, PoolTypeOK, Token
      <3>2. CASE u.block = t.block
        BY <2>2, <2>4, <2>6, <3>2, WordFields DEF PoolInv, EndedStaysEnded
      <3>3. CASE u.block # t.block
        BY <2>4, <2>6, <3>1, <3>3 DEF PoolInv, EndedStaysEnded
      <3> QED
        BY <3>2, <3>3
    <2> QED
      BY <2>5, <2>8, <2>9 DEF PoolInv
  <1>5. ASSUME NEW h \in Handles, NEW t \in Token, Takeover(h, t) PROVE PoolInv'
    <2>1. /\ state[t.block].owner = NoOne /\ state[t.block].allocated
          /\ state[t.block].generation = t.generation
      BY <1>5, WordFields DEF Takeover
    <2>2. t \notin freed /\ t.generation \in Nat /\ state[t.block].generation <= t.generation
      BY <2>1 DEF PoolInv, EndedStaysEnded, Token
    <2> QED
      BY Zenon, <1>5, <2>1, <2>2, GrantKeeps DEF Takeover, Exchange
  \* ending an allocation that belongs to nobody or to the dead
  <1>6. ASSUME NEW t \in Token, state[t.block].generation = t.generation,
               state[t.block].owner \notin alive,
               state' = [state EXCEPT ![t.block] = Free(t.generation)],
               freed' = freed \cup {t}, UNCHANGED <<held, alive>>
        PROVE  PoolInv'
    <2>1. /\ held' \in [Handles -> Token \cup {NoOne}]
          /\ \A h \in Handles : Live(h)' => held'[h] = held[h] /\ Live(h)
      BY <1>6 DEF PoolInv, PoolTypeOK, Live
    <2>2. \A h \in Handles : Runs(h) /\ Live(h) => held[h].block # t.block
      BY <1>1, <1>6
    <2> QED
      BY Zenon, <1>6, <2>1, <2>2, EndKeeps
  <1>7. ASSUME NEW t \in Token, NEW owner \in (Participants \ alive) \cup {NoOne},
               ReleaseToken(t, owner)
        PROVE  PoolInv'
    <2>1. CASE state[t.block].generation = t.generation /\ state[t.block].allocated
      <3>1. state[t.block].owner \notin alive
        BY <1>7, <2>1 DEF ReleaseToken, Refuses, PoolInv, PoolTypeOK
      <3> QED
        BY <1>6, <1>7, <2>1, <3>1 DEF ReleaseToken, Exchange
    <2>2. CASE ~(state[t.block].generation = t.generation /\ state[t.block].allocated)
      BY <1>7, <2>2, QuietKeeps DEF ReleaseToken
    <2> QED
      BY <2>1, <2>2
  <1>8. ASSUME NEW b \in Blocks, NEW dead \in Participants \ alive, RecoverBlock(b, dead)
        PROVE  PoolInv'
    <2>1. CASE state[b].allocated /\ state[b].owner = dead
      <3>1. PICK t : t = [block |-> b, generation |-> state[b].generation]
        BY Zenon
      <3>2. t.block = b /\ t.generation = state[b].generation
        BY <3>1
      <3>3. t \in Token
        BY <2>1, <3>1 DEF PoolInv, PoolTypeOK, State, Token, Generations
      <3> QED
        BY <1>6, <1>8, <2>1, <3>1, <3>2, <3>3 DEF RecoverBlock, Exchange
    <2>2. CASE ~(state[b].allocated /\ state[b].owner = dead)
      BY <1>8, <2>2, QuietKeeps DEF RecoverBlock
    <2> QED
      BY <2>1, <2>2
  <1>9. ASSUME NEW p \in Participants, PoolDie(p) PROVE PoolInv'
    BY <1>9, QuietKeeps DEF PoolDie
  <1>10. CASE UNCHANGED poolVars
    BY <1>10, QuietKeeps DEF poolVars
  <1> QED
    BY <1>2, <1>3, <1>4, <1>5, <1>7, <1>8, <1>9, <1>10 DEF PoolNext

\* The invariant holds in every state, whoever presents tokens and whoever dies.
THEOREM PoolInvariant == PoolSpec => []PoolInv
  <1>1. PoolInv /\ [PoolNext]_poolVars => PoolInv'
    BY PoolNextKeeps
  <1> QED
    BY <1>1, InitPoolInv, PTL DEF PoolSpec

\* Lifecycle words stay canonical.
THEOREM PoolTypeCorrect == PoolSpec => []PoolTypeOK
  <1>1. PoolInv => PoolTypeOK
    BY DEF PoolInv
  <1> QED
    BY <1>1, PoolInvariant, PTL

\* "a slot CAS grants the only mutable payload authority": the running Allocations
\* have different blocks and each one's word names its participant.
THEOREM BlocksHaveOneOwner == PoolSpec => []OwnedByOne
  <1>1. PoolInv => OwnedByOne
    BY DEF PoolInv
  <1> QED
    BY <1>1, PoolInvariant, PTL

\* A stale token never reaches the block's next allocation.
THEOREM GenerationsRetire == PoolSpec => []EndedStaysEnded
  <1>1. PoolInv => EndedStaysEnded
    BY DEF PoolInv
  <1> QED
    BY <1>1, PoolInvariant, PTL

\* release_token and Storage::recover never end the allocation of a running handle.
THEOREM OnlyHandlesEnd == PoolSpec => OnlyTheHandleEndsIt
  <1> DEFINE Safe == \A h \in Handles :
               Runs(h) /\ Live(h) /\ held[h] \in freed' => held'[h] = NoOne
  <1>1. PoolInv /\ PoolInv' /\ [PoolNext]_poolVars => [Safe]_poolVars
    <2> SUFFICES ASSUME PoolInv, PoolInv', PoolNext, NEW h \in Handles,
                        Runs(h), Live(h), held[h] \in freed'
                 PROVE  held'[h] = NoOne
      OBVIOUS
    <2>1. held[h] \notin freed
      BY DEF PoolInv, EndedStaysEnded
    <2>2. freed' # freed => alive' = alive
      BY <2>1 DEF PoolNext, Claim, Release, Detach, Takeover, ReleaseToken, RecoverBlock, PoolDie
    <2>3. Runs(h)'
      BY <2>1, <2>2 DEF Runs
    <2>4. ~Live(h)' \/ held'[h] # held[h]
      BY <2>3 DEF PoolInv, EndedStaysEnded
    <2>5. \A k \in Handles : Release(k) => held'[h] = held[h] \/ held'[h] = NoOne
      BY DEF Release, PoolInv, PoolTypeOK
    <2>6. held' = held \/ \E k \in Handles : Release(k)
      BY <2>1 DEF PoolNext, Claim, Release, Detach, Takeover, ReleaseToken, RecoverBlock, PoolDie
    <2> QED
      BY <2>4, <2>5, <2>6 DEF Live
  <1> QED
    BY <1>1, PoolInvariant, PTL DEF PoolSpec, OnlyTheHandleEndsIt

-----------------------------------------------------------------------------
(* Slots, handles and reapers.                                             *)

\* slots, tokens and marks agree
SlotsFit ==
    \A i \in Slots :
        /\ ring[i].stage \in {"free", "skipped", "reserved"} <=> ring[i].token = NoOne
        /\ Owned(ring[i]) <=> ring[i].source # NoOne
        /\ ring[i].reaper # NoOne => ring[i].source \in Participants \ alive

\* the stage of the slot of a handle, by the step the handle is at
Agrees(step, stage) ==
    /\ step = "reserved" => stage = "reserved"
    /\ step \in {"staged", "detached"} => stage = "staged"
    /\ step \in {"claimed", "taken"} => stage = "claimed"

Busy(h) == Runs(h) /\ pc[h] # "idle"

\* a running handle inside a transfer has a slot of its own
HandlesFit ==
    \A h \in Handles : Busy(h) =>
        /\ at[h] \in Slots
        /\ Agrees(pc[h], ring[at[h]].stage) /\ ring[at[h]].source = Home[h]
        /\ pc[h] = "staged" => held[h] = ring[at[h]].token
        /\ \A k \in Handles \ {h} : Busy(k) => at[k] # at[h]

\* a reaper recovers the dead, and the slot it repairs carries its mark
ReaperFits(r) ==
    /\ Victim(r) = NoOne => reap[r] = NotReaping /\ fix[r] = NotFixing
    /\ Victim(r) # NoOne => Victim(r) \notin alive
    /\ fix[r] # NotFixing =>
         /\ fix[r].slot \in Slots /\ ring[fix[r].slot].reaper = r
         /\ reap[r].next \in DOMAIN Scan /\ Scan[reap[r].next] = SlotItem(fix[r].slot)
         /\ ring[fix[r].slot].token = NoOne => fix[r].resolved
ReapersFit == \A r \in Reapers : r \in alive => ReaperFits(r)

Shape == TransferTypeOK /\ SlotsFit /\ HandlesFit /\ ReapersFit

----------------------------------------------------------------------------
SlotWords == [stage : Stages, source : Participants \cup {NoOne},
              reaper : Participants \cup {NoOne}, token : Token \cup {NoOne}]

\* The fields of a slot that Slot builds.
LEMMA SlotFields ==
    ASSUME NEW stage, NEW source, NEW token
    PROVE  /\ Slot(stage, source, token).stage = stage
           /\ Slot(stage, source, token).source = source
           /\ Slot(stage, source, token).reaper = NoOne
           /\ Slot(stage, source, token).token = token
  BY Zenon DEF Slot

\* What Slot builds is the content of a slot.
LEMMA SlotTypes ==
    ASSUME NEW stage \in Stages, NEW source \in Participants \cup {NoOne},
           NEW token \in Token \cup {NoOne}
    PROVE  Slot(stage, source, token) \in SlotWords
  BY Zenon DEF Slot, SlotWords

\* Storing into one slot leaves the others.
LEMMA SetOne ==
    ASSUME TransferTypeOK, NEW i \in Slots, NEW s \in SlotWords, Set(i, s)
    PROVE  /\ ring' \in [Slots -> SlotWords]
           /\ ring'[i] = s /\ \A j \in Slots \ {i} : ring'[j] = ring[j]
  BY Zenon DEF TransferTypeOK, SlotWords, Set

\* The slot of a busy handle, which no reaper marks and no other handle uses.
LEMMA BusySlot ==
    ASSUME Shape, NEW h \in Handles, Busy(h)
    PROVE  /\ at[h] \in Slots /\ ring[at[h]] \in SlotWords
           /\ ring[at[h]].reaper = NoOne /\ Home[h] \in Participants /\ Home[h] \in alive
  BY Zenon, PoolAssumption DEF Shape, SlotsFit, HandlesFit, TransferTypeOK, SlotWords, Busy, Runs

\* The slot of the step of a handle h: the handles other than h keep theirs.
LEMMA HandleMoves ==
    ASSUME Shape, NEW h \in Handles, alive' = alive,
           \A k \in Handles \ {h} : /\ pc'[k] = pc[k] /\ at'[k] = at[k]
                                    /\ pc[k] = "staged" => held'[k] = held[k]
                                    /\ Busy(k) => ring'[at[k]] = ring[at[k]],
           Runs(h) /\ pc'[h] # "idle" =>
             /\ at'[h] \in Slots
             /\ Agrees(pc'[h], ring'[at'[h]].stage) /\ ring'[at'[h]].source = Home[h]
             /\ pc'[h] = "staged" => held'[h] = ring'[at'[h]].token
             /\ \A k \in Handles \ {h} : Busy(k) => at[k] # at'[h]
    PROVE  HandlesFit'
  <1>1. \A k \in Handles \ {h} : Busy(k)' <=> Busy(k)
    BY Zenon DEF Busy, Runs
  <1>2. ASSUME NEW k \in Handles, Busy(k)'
        PROVE  /\ at'[k] \in Slots
               /\ Agrees(pc'[k], ring'[at'[k]].stage) /\ ring'[at'[k]].source = Home[k]
               /\ pc'[k] = "staged" => held'[k] = ring'[at'[k]].token
               /\ \A j \in Handles \ {k} : Busy(j)' => at'[j] # at'[k]
    <2>1. CASE k = h
      BY Zenon, <1>1, <1>2, <2>1 DEF Busy, Runs
    <2>2. CASE k # h
      <3>0. Busy(k) /\ HandlesFit
        BY Zenon, <1>1, <1>2, <2>2 DEF Shape
      <3>1. ASSUME NEW j \in Handles \ {k}, Busy(j)' PROVE at'[j] # at'[k]
        <4>1. CASE j = h
          <5>1. Runs(h) /\ pc'[h] # "idle"
            BY Zenon, <3>1, <4>1 DEF Busy, Runs
          <5>2. at'[k] = at[k] /\ k \in Handles \ {h}
            BY Zenon, <2>2
          <5>3. at[k] # at'[h]
            BY Zenon, <3>0, <5>1, <5>2
          <5>4. at'[h] # at'[k]
            BY Zenon, <5>2, <5>3
          <5> QED
            BY Zenon, <4>1, <5>4
        <4>2. CASE j # h
          <5>1. Busy(j) /\ at'[j] = at[j] /\ at'[k] = at[k]
            BY Zenon, <1>1, <2>2, <3>1, <4>2
          <5>2. at[j] # at[k]
            BY Zenon, <3>0, <3>1, <5>1 DEF HandlesFit
          <5> QED
            BY Zenon, <5>1, <5>2
        <4> QED
          BY Zenon, <4>1, <4>2
      <3>2. /\ at'[k] = at[k] /\ pc'[k] = pc[k] /\ ring'[at[k]] = ring[at[k]]
            /\ pc[k] = "staged" => held'[k] = held[k]
        BY Zenon, <2>2, <3>0
      <3>3. /\ at[k] \in Slots
            /\ Agrees(pc[k], ring[at[k]].stage) /\ ring[at[k]].source = Home[k]
            /\ pc[k] = "staged" => held[k] = ring[at[k]].token
        BY Zenon, <3>0 DEF HandlesFit
      <3> QED
        BY Zenon, <3>1, <3>2, <3>3
    <2> QED
      BY Zenon, <2>1, <2>2
  <1> QED
    BY Zenon, <1>2 DEF HandlesFit, Agrees

\* Steps of handles leave the reapers alone when the slots they change are unmarked.
LEMMA ReapersKeep ==
    ASSUME Shape, alive' = alive, UNCHANGED <<reap, fix>>,
           \A i \in Slots : ring[i].reaper # NoOne => ring'[i] = ring[i]
    PROVE  ReapersFit'
  <1> SUFFICES ASSUME NEW r \in Reapers, r \in alive PROVE ReaperFits(r)'
    BY Zenon DEF ReapersFit
  <1>1. ReaperFits(r) /\ r # NoOne
    BY Zenon, PoolAssumption, TransferAssumption DEF Shape, ReapersFit
  <1> QED
    BY Zenon, <1>1 DEF ReaperFits, Victim

Steps == {"idle", "reserved", "staged", "detached", "claimed", "taken"}

\* no reaper and no handle but h uses slot i
Unshared(h, i) ==
    i \in Slots /\ ring[i].reaper = NoOne /\ \A k \in Handles \ {h} : Busy(k) => at[k] # i

\* s is the content of an unmarked slot
Proper(s) ==
    /\ s \in SlotWords /\ s.reaper = NoOne
    /\ s.stage \in {"free", "skipped", "reserved"} <=> s.token = NoOne
    /\ Owned(s) <=> s.source # NoOne

\* the new values of what a handle may change are typed, and h is where it may be
TypedNext ==
    /\ pc' \in [Handles -> Steps] /\ at' \in [Handles -> Slots \cup {NoSlot}]
    /\ head' \in Slots /\ count' \in 0 .. Capacity
FitsNext(h) ==
    Busy(h)' => /\ at'[h] \in Slots
                /\ Agrees(pc'[h], ring'[at'[h]].stage) /\ ring'[at'[h]].source = Home[h]
                /\ pc'[h] = "staged" => held[h] = ring'[at'[h]].token
                /\ \A k \in Handles \ {h} : Busy(k) => at[k] # at'[h]

\* A step of a handle h that stores s into a slot i that nobody else uses.
LEMMA HandleStores ==
    ASSUME Shape, NEW h \in Handles, NEW i, NEW s, Set(i, s), Unshared(h, i), Proper(s),
           UNCHANGED <<poolVars, reapVars>>, TypedNext, FitsNext(h),
           \A k \in Handles \ {h} : pc'[k] = pc[k] /\ at'[k] = at[k]
    PROVE  Shape'
  <1>0. i \in Slots /\ s \in SlotWords
    BY Zenon DEF Unshared, Proper
  <1>1. /\ ring' \in [Slots -> SlotWords]
        /\ ring'[i] = s /\ \A j \in Slots \ {i} : ring'[j] = ring[j]
    BY Zenon, <1>0, SetOne DEF Shape
  <1>2. TransferTypeOK'
    BY Zenon, <1>1 DEF Shape, TransferTypeOK, SlotWords, Steps, reapVars, poolVars, TypedNext
  <1>3. SlotsFit'
    BY Zenon, <1>1 DEF Shape, SlotsFit, poolVars, Proper
  <1>4. \A k \in Handles \ {h} : Busy(k) => ring'[at[k]] = ring[at[k]]
    BY Zenon, <1>1, BusySlot DEF Unshared
  <1>5. alive' = alive /\ held' = held
    BY Zenon DEF poolVars
  <1>6. Runs(h) /\ pc'[h] # "idle" =>
             /\ at'[h] \in Slots
             /\ Agrees(pc'[h], ring'[at'[h]].stage) /\ ring'[at'[h]].source = Home[h]
             /\ pc'[h] = "staged" => held'[h] = ring'[at'[h]].token
             /\ \A k \in Handles \ {h} : Busy(k) => at[k] # at'[h]
    BY Zenon, <1>5 DEF Busy, Runs, FitsNext
  <1>7. HandlesFit'
    BY Zenon, <1>4, <1>5, <1>6, HandleMoves
  <1>8. ReapersFit'
    <2>1. \A j \in Slots : ring[j].reaper # NoOne => ring'[j] = ring[j]
      BY Zenon, <1>1 DEF Unshared
    <2> QED
      BY Zenon, <1>5, <2>1, ReapersKeep DEF reapVars
  <1> QED
    BY Zenon, <1>2, <1>3, <1>7, <1>8 DEF Shape

\* h goes to step `there` and to slot `where`, and stores s into slot i
Moves(h, there, where, i, s) ==
    /\ pc' = [pc EXCEPT ![h] = there] /\ at' = [at EXCEPT ![h] = where]
    /\ Set(i, s) /\ head' \in Slots /\ count' \in 0 .. Capacity
    /\ UNCHANGED <<poolVars, reapVars>>

\* h may be at step `there` with slot i when that holds s
Lands(h, there, where, i, s) ==
    /\ there \in Steps /\ where \in Slots \cup {NoSlot}
    /\ there # "idle" => where = i /\ Agrees(there, s.stage) /\ s.source = Home[h]
    /\ there = "staged" => held[h] = s.token

\* Such a step keeps the shape.
LEMMA HandleGoes ==
    ASSUME Shape, NEW h \in Handles, NEW i, NEW s, NEW there, NEW where,
           Moves(h, there, where, i, s), Unshared(h, i), Proper(s), Lands(h, there, where, i, s)
    PROVE  Shape'
  <1>1. i \in Slots /\ s \in SlotWords
    BY Zenon DEF Unshared, Proper
  <1>2. /\ pc' \in [Handles -> Steps] /\ pc'[h] = there
        /\ \A k \in Handles \ {h} : pc'[k] = pc[k]
    BY Zenon DEF Moves, Lands, Shape, TransferTypeOK, Steps
  <1>3. /\ at' \in [Handles -> Slots \cup {NoSlot}] /\ at'[h] = where
        /\ \A k \in Handles \ {h} : at'[k] = at[k]
    BY Zenon DEF Moves, Lands, Shape, TransferTypeOK
  <1>4. ring'[i] = s
    BY Zenon, <1>1, SetOne DEF Moves, Shape
  <1>5. FitsNext(h)
    BY Zenon, <1>1, <1>2, <1>3, <1>4 DEF Lands, Unshared, Busy, FitsNext
  <1>6. TypedNext
    BY Zenon, <1>2, <1>3 DEF Moves, TypedNext
  <1>7. Set(i, s) /\ UNCHANGED <<poolVars, reapVars>>
    BY Zenon DEF Moves
  <1> QED
    BY Zenon, <1>2, <1>3, <1>5, <1>6, <1>7, HandleStores

\* What Slot builds is proper when its fields fit.
LEMMA ProperSlot ==
    ASSUME NEW stage \in Stages, NEW source \in Participants \cup {NoOne},
           NEW token \in Token \cup {NoOne},
           stage \in {"free", "skipped", "reserved"} <=> token = NoOne,
           stage \in {"reserved", "staged", "claimed"} <=> source # NoOne
    PROVE  Proper(Slot(stage, source, token))
  BY SlotFields, SlotTypes DEF Proper, Owned

\* A step of a handle h that leaves the ring.
LEMMA HandleQuiet ==
    ASSUME Shape, NEW h \in Handles, UNCHANGED <<ringVars, at, reapVars>>, alive' = alive,
           pc' \in [Handles -> Steps],
           \A k \in Handles \ {h} : pc'[k] = pc[k] /\ held'[k] = held[k],
           Runs(h) /\ pc'[h] # "idle" =>
             /\ Busy(h) /\ Agrees(pc'[h], ring[at[h]].stage)
             /\ pc'[h] = "staged" => held'[h] = ring[at[h]].token
    PROVE  Shape'
  <1>1. TransferTypeOK'
    BY Zenon DEF Shape, TransferTypeOK, Steps, reapVars, ringVars
  <1>2. SlotsFit'
    BY Zenon DEF Shape, SlotsFit, ringVars
  <1>3. ring' = ring /\ at' = at
    BY Zenon DEF ringVars
  <1>4. HandlesFit'
    <2>1. Busy(h) => /\ at[h] \in Slots /\ ring[at[h]].source = Home[h]
                     /\ \A k \in Handles \ {h} : Busy(k) => at[k] # at[h]
      BY Zenon DEF Shape, HandlesFit
    <2> QED
      BY Zenon, <1>3, <2>1, HandleMoves
  <1>5. ReapersFit'
    BY Zenon, <1>3, ReapersKeep DEF reapVars
  <1> QED
    BY Zenon, <1>1, <1>2, <1>4, <1>5 DEF Shape

\* Steps of handles keep the shape.
LEMMA HandleStepShape == ASSUME Shape, PoolInv, NEW h \in Handles, HandleStep(h) PROVE Shape'
  <1>0. /\ pc \in [Handles -> Steps] /\ at \in [Handles -> Slots \cup {NoSlot}]
        /\ head \in Slots /\ count \in 0 .. Capacity /\ ring \in [Slots -> SlotWords]
        /\ Home[h] \in Participants /\ Home[h] # NoOne
        /\ held \in [Handles -> Token \cup {NoOne}] /\ NoOne \notin Token
    BY PoolAssumption DEF Shape, TransferTypeOK, Steps, SlotWords, PoolInv, PoolTypeOK
  \* the slot of a busy handle
  <1>1. ASSUME Busy(h)
        PROVE  /\ Unshared(h, at[h]) /\ at[h] \in Slots /\ Agrees(pc[h], ring[at[h]].stage)
               /\ ring[at[h]].token \in Token \cup {NoOne} /\ at = [at EXCEPT ![h] = at[h]]
    BY Zenon, <1>0, <1>1, BusySlot DEF Shape, HandlesFit, SlotWords, Unshared
  \* nobody is busy at a slot that is free, ready or skipped
  <1>2. ASSUME NEW i \in Slots, ring[i].stage \in {"free", "ready", "skipped"}
        PROVE  Unshared(h, i)
    <2>1. ring[i].source = NoOne /\ NoOne \notin Participants
      BY Zenon, <1>2, PoolAssumption DEF Shape, SlotsFit, Owned
    <2>2. ring[i].reaper = NoOne
      BY Zenon, <2>1 DEF Shape, SlotsFit
    <2>3. \A k \in Handles : Busy(k) => ring[at[k]].source = Home[k] /\ Home[k] \in Participants
      BY Zenon, PoolAssumption DEF Shape, HandlesFit
    <2> QED
      BY Zenon, <2>1, <2>2, <2>3 DEF Unshared
  <1>3. CASE PoolStep(h)
    <2>1. /\ UNCHANGED <<ringVars, at, reapVars>> /\ pc' = pc /\ alive' = alive
          /\ pc[h] \in {"idle", "reserved"}
          /\ \A k \in Handles \ {h} : held'[k] = held[k]
      BY Zenon, <1>0, <1>3 DEF PoolStep, handleVars, Claim, Release
    <2>2. Runs(h) /\ pc'[h] # "idle" => Busy(h) /\ Agrees(pc'[h], ring[at[h]].stage)
      BY Zenon, <2>1 DEF Busy, Shape, HandlesFit
    <2> QED
      BY Zenon, <1>0, <2>1, <2>2, HandleQuiet
  <1>4. CASE TxReserve(h)
    <2>1. PICK i : i = (head + count) % Capacity
      BY Zenon
    <2>2. PICK s : s = Slot("reserved", Home[h], NoOne)
      BY Zenon
    <2>3. i \in Slots
      BY <1>0, <2>1, TransferAssumption DEF Slots
    <2>4. ring[i].stage = "free"
      BY Zenon, <1>4, <2>1 DEF TxReserve
    <2>5. Moves(h, "reserved", i, i, s)
      <3>0. head' = head /\ count' = count + 1 /\ count < Capacity
        BY Zenon, <1>4 DEF TxReserve
      <3>1. head' \in Slots /\ count' \in 0 .. Capacity
        BY <1>0, <3>0, TransferAssumption
      <3>2. Set(i, s)
        BY Zenon, <1>4, <2>1, <2>2 DEF TxReserve
      <3>3. /\ pc' = [pc EXCEPT ![h] = "reserved"] /\ at' = [at EXCEPT ![h] = i]
            /\ UNCHANGED <<poolVars, reapVars>>
        BY Zenon, <1>4, <2>1 DEF TxReserve, Goto
      <3> QED
        BY Zenon, <3>1, <3>2, <3>3 DEF Moves
    <2>6. Proper(s)
      BY Zenon, <1>0, <2>2, ProperSlot DEF Stages
    <2>7. Lands(h, "reserved", i, i, s)
      BY <2>2, <2>3, SlotFields DEF Lands, Steps, Agrees
    <2> QED
      BY Zenon, <1>2, <2>3, <2>4, <2>5, <2>6, <2>7, HandleGoes
  <1>5. CASE TxStage(h)
    <2>1. PICK s : s = Slot("staged", Home[h], held[h])
      BY Zenon
    <2>2. Busy(h) /\ held[h] \in Token
      BY Zenon, <1>0, <1>5 DEF TxStage, Goto, Busy, Live
    <2>3. Moves(h, "staged", at[h], at[h], s)
      BY Zenon, <1>0, <1>1, <1>5, <2>1, <2>2 DEF TxStage, Moves, Goto
    <2>4. Proper(s)
      BY Zenon, <1>0, <2>1, <2>2, ProperSlot DEF Stages
    <2>5. Lands(h, "staged", at[h], at[h], s)
      BY <1>1, <2>1, <2>2, SlotFields DEF Lands, Steps, Agrees
    <2> QED
      BY Zenon, <1>1, <2>2, <2>3, <2>4, <2>5, HandleGoes
  <1>6. CASE TxDetach(h)
    <2>1. Busy(h) /\ pc[h] = "staged" /\ UNCHANGED <<ringVars, at, reapVars>>
      BY Zenon, <1>6 DEF TxDetach, Goto, Busy
    <2>2. alive' = alive /\ \A k \in Handles \ {h} : held'[k] = held[k]
      BY Zenon, <1>0, <1>6 DEF TxDetach, Detach
    <2>3. /\ pc' \in [Handles -> Steps] /\ pc'[h] = "detached"
          /\ \A k \in Handles \ {h} : pc'[k] = pc[k]
      BY Zenon, <1>0, <1>6 DEF TxDetach, Goto, Steps
    <2>4. Agrees("detached", ring[at[h]].stage)
      BY Zenon, <1>1, <2>1 DEF Agrees
    <2> QED
      BY Zenon, <2>1, <2>2, <2>3, <2>4, HandleQuiet
  <1>7. CASE TxPublish(h)
    <2>1. PICK s : s = Slot("ready", NoOne, ring[at[h]].token)
      BY Zenon
    <2>2. Busy(h) /\ pc[h] = "detached"
      BY Zenon, <1>7 DEF TxPublish, Goto, Busy
    <2>3. ring[at[h]].token \in Token
      BY Zenon, <1>0, <1>1, <2>2 DEF Shape, SlotsFit, Agrees
    <2>4. Moves(h, "idle", NoSlot, at[h], s)
      BY Zenon, <1>0, <1>7, <2>1 DEF TxPublish, Moves, Goto, Leave
    <2>5. Proper(s)
      BY Zenon, <1>0, <2>1, <2>3, ProperSlot DEF Stages
    <2>6. Lands(h, "idle", NoSlot, at[h], s)
      BY Zenon DEF Lands, Steps
    <2> QED
      BY Zenon, <1>1, <2>2, <2>4, <2>5, <2>6, HandleGoes
  <1>8. CASE TxSkip(h)
    <2>1. PICK s : s = Slot("skipped", NoOne, NoOne)
      BY Zenon
    <2>2. Busy(h)
      BY Zenon, <1>8 DEF TxSkip, Goto, Busy
    <2>3. Moves(h, "idle", NoSlot, at[h], s)
      BY Zenon, <1>0, <1>8, <2>1 DEF TxSkip, Moves, Goto, Leave
    <2>4. Proper(s)
      BY Zenon, <2>1, ProperSlot DEF Stages
    <2>5. Lands(h, "idle", NoSlot, at[h], s)
      BY Zenon DEF Lands, Steps
    <2> QED
      BY Zenon, <1>1, <2>2, <2>3, <2>4, <2>5, HandleGoes
  <1>9. CASE RxClaim(h)
    <2>1. PICK s : s = Slot("claimed", Home[h], ring[head].token)
      BY Zenon
    <2>2. ring[head].stage = "ready"
      BY Zenon, <1>9 DEF RxClaim
    <2>3. ring[head].token \in Token
      BY Zenon, <1>0, <2>2 DEF Shape, SlotsFit, SlotWords
    <2>4. count' \in 0 .. Capacity /\ head' \in Slots
      BY <1>0, <1>9, TransferAssumption DEF RxClaim, Pop, Slots
    <2>5. Moves(h, "claimed", head, head, s)
      BY Zenon, <1>0, <1>9, <2>1, <2>4 DEF RxClaim, Moves, Goto
    <2>6. Proper(s)
      BY Zenon, <1>0, <2>1, <2>3, ProperSlot DEF Stages
    <2>7. Lands(h, "claimed", head, head, s)
      BY <1>0, <2>1, SlotFields DEF Lands, Steps, Agrees
    <2> QED
      BY Zenon, <1>0, <1>2, <2>2, <2>5, <2>6, <2>7, HandleGoes
  <1>10. CASE RxSkipped(h)
    <2>1. PICK s : s = Slot("free", NoOne, NoOne)
      BY Zenon
    <2>2. /\ ring[head].stage = "skipped" /\ Set(head, s)
          /\ Pop /\ count > 0 /\ UNCHANGED <<poolVars, handleVars, reapVars>>
      BY Zenon, <1>10, <2>1 DEF RxSkipped
    <2>3. Unshared(h, head)
      BY Zenon, <1>0, <1>2, <2>2
    <2>4. count' \in 0 .. Capacity /\ head' \in Slots
      BY <1>0, <2>2, TransferAssumption DEF Pop, Slots
    <2>5. Proper(s)
      BY Zenon, <2>1, ProperSlot DEF Stages
    <2>6. /\ pc' \in [Handles -> Steps] /\ at' \in [Handles -> Slots \cup {NoSlot}]
          /\ pc' = pc /\ at' = at /\ ring' = [ring EXCEPT ![head] = s]
      BY Zenon, <1>0, <2>2 DEF handleVars, Set
    <2>8. \A k \in Handles : Busy(k) => at[k] # head
      BY Zenon, <1>0, <2>2, PoolAssumption DEF Shape, HandlesFit, Agrees, Busy, Steps
    <2>9. \A k \in Handles : Busy(k)' <=> Busy(k)
      BY Zenon, <2>2, <2>6 DEF Busy, Runs, poolVars
    <2>10. \A j \in Slots \ {head} : ring'[j] = ring[j]
      BY Zenon, <1>0, <2>6
    <2>11. FitsNext(h)
      BY <2>6, <2>8, <2>9, <2>10 DEF Shape, HandlesFit, FitsNext
    <2> QED
      BY Zenon, <2>2, <2>3, <2>4, <2>5, <2>6, <2>11, HandleStores DEF TypedNext
  <1>11. CASE RxTakeover(h) \/ DrainRelease(h)
    <2>1. Busy(h) /\ pc[h] = "claimed" /\ UNCHANGED <<ringVars, at, reapVars>>
      BY Zenon, <1>11 DEF RxTakeover, DrainRelease, Goto, Busy
    <2>2. alive' = alive /\ \A k \in Handles \ {h} : held'[k] = held[k]
      BY Zenon, <1>0, <1>11 DEF RxTakeover, DrainRelease, Takeover, ReleaseToken
    <2>3. /\ pc' \in [Handles -> Steps] /\ pc'[h] = "taken"
          /\ \A k \in Handles \ {h} : pc'[k] = pc[k]
      BY Zenon, <1>0, <1>11 DEF RxTakeover, DrainRelease, Goto, Steps
    <2>4. Agrees("taken", ring[at[h]].stage)
      BY Zenon, <1>1, <2>1 DEF Agrees
    <2> QED
      BY Zenon, <2>1, <2>2, <2>3, <2>4, HandleQuiet
  <1>12. CASE RxRecycle(h)
    <2>1. PICK s : s = Slot("free", NoOne, NoOne)
      BY Zenon
    <2>2. Busy(h)
      BY Zenon, <1>12 DEF RxRecycle, Goto, Busy
    <2>3. Moves(h, "idle", NoSlot, at[h], s)
      BY Zenon, <1>0, <1>12, <2>1 DEF RxRecycle, Moves, Goto, Leave
    <2>4. Proper(s)
      BY Zenon, <2>1, ProperSlot DEF Stages
    <2>5. Lands(h, "idle", NoSlot, at[h], s)
      BY Zenon DEF Lands, Steps
    <2> QED
      BY Zenon, <1>1, <2>2, <2>3, <2>4, <2>5, HandleGoes
  <1>13. CASE RxForget(h)
    <2>1. UNCHANGED <<poolVars, ringVars, reapVars>>
      BY Zenon, <1>13 DEF RxForget
    <2>2. /\ pc' \in [Handles -> Steps] /\ pc'[h] = "idle"
          /\ at' \in [Handles -> Slots \cup {NoSlot}]
          /\ \A k \in Handles \ {h} : pc'[k] = pc[k] /\ at'[k] = at[k]
      BY Zenon, <1>0, <1>13 DEF RxForget, Leave, Goto, Steps
    <2>3. ring' = ring /\ alive' = alive /\ held' = held
      BY Zenon, <2>1 DEF poolVars, ringVars
    <2>4. TransferTypeOK'
      BY Zenon, <2>1, <2>2, <2>3 DEF Shape, TransferTypeOK, ringVars, reapVars, Steps
    <2>5. SlotsFit'
      BY Zenon, <2>3 DEF Shape, SlotsFit
    <2>6. HandlesFit'
      BY Zenon, <2>2, <2>3, HandleMoves
    <2>7. ReapersFit'
      BY Zenon, <2>1, <2>3, ReapersKeep DEF reapVars
    <2> QED
      BY Zenon, <2>4, <2>5, <2>6, <2>7 DEF Shape
  <1> QED
    BY Zenon, <1>3, <1>4, <1>5, <1>6, <1>7, <1>8, <1>9, <1>10, <1>11, <1>12, <1>13 DEF HandleStep

----------------------------------------------------------------------------
(* Deaths and the steps of the reapers.                                    *)

\* Handles do not notice what happens to the slots of the dead.
LEMMA HandlesKeep ==
    ASSUME Shape, alive' \subseteq alive, UNCHANGED <<pc, at, held>>,
           \A i \in Slots : ring[i].source \in alive =>
             /\ ring'[i].stage = ring[i].stage /\ ring'[i].source = ring[i].source
             /\ ring'[i].token = ring[i].token
    PROVE  HandlesFit'
  <1> SUFFICES ASSUME NEW h \in Handles, Busy(h)'
               PROVE  /\ at[h] \in Slots
                      /\ Agrees(pc[h], ring'[at[h]].stage) /\ ring'[at[h]].source = Home[h]
                      /\ pc[h] = "staged" => held[h] = ring'[at[h]].token
                      /\ \A k \in Handles \ {h} : Busy(k)' => at[k] # at[h]
    BY Zenon DEF HandlesFit
  <1>1. \A k \in Handles : Busy(k)' => Busy(k)
    BY Zenon DEF Busy, Runs
  <1>2. Busy(h) /\ at[h] \in Slots /\ ring[at[h]].source \in alive
    BY Zenon, <1>1 DEF Shape, HandlesFit, Busy, Runs
  <1> QED
    BY Zenon, <1>1, <1>2 DEF Shape, HandlesFit

\* Reapers do not notice the steps of another one that leaves their slots.
LEMMA ReaperMoves ==
    ASSUME Shape, NEW r \in Reapers, alive' = alive, ReaperFits(r)',
           \A q \in Reapers \ {r} : reap'[q] = reap[q] /\ fix'[q] = fix[q],
           \A i \in Slots : ring[i].reaper \in alive \ {r} => ring'[i] = ring[i]
    PROVE  ReapersFit'
  <1> SUFFICES ASSUME NEW q \in Reapers, q \in alive, q # r PROVE ReaperFits(q)'
    BY Zenon DEF ReapersFit
  <1>1. ReaperFits(q)
    BY Zenon DEF Shape, ReapersFit
  <1> QED
    BY <1>1 DEF ReaperFits, Victim

\* A death only takes handles and reapers away.
LEMMA DieShape == ASSUME Shape, NEW p \in Participants, Die(p) PROVE Shape'
  <1>1. /\ alive' = alive \ {p} /\ UNCHANGED <<ringVars, handleVars, reapVars, held>>
    BY Zenon DEF Die, PoolDie
  <1>2. TransferTypeOK'
    BY Zenon, <1>1 DEF Shape, TransferTypeOK, ringVars, handleVars, reapVars
  <1>3. SlotsFit'
    BY Zenon, <1>1 DEF Shape, SlotsFit, ringVars
  <1>4. HandlesFit'
    BY Zenon, <1>1, HandlesKeep DEF ringVars, handleVars
  <1>5. ReapersFit'
    BY Zenon, <1>1 DEF Shape, ReapersFit, ReaperFits, Victim, ringVars, reapVars
  <1> QED
    BY Zenon, <1>2, <1>3, <1>4, <1>5 DEF Shape

\* A reaper that meets an item recovers somebody who is dead.
LEMMA MeetsDead ==
    ASSUME Shape, NEW r \in Reapers, NEW item, Meets(r, item)
    PROVE  /\ r \in alive /\ r \in Participants /\ r # NoOne /\ fix[r] = NotFixing
           /\ Victim(r) \in Participants /\ Victim(r) \notin alive /\ Victim(r) # NoOne
           /\ reap[r].next \in DOMAIN Scan /\ reap[r].next \in 1 .. Len(Scan)
           /\ Scan[reap[r].next] = item /\ Len(Scan) \in Nat
  <1>1. /\ r \in alive /\ fix[r] = NotFixing /\ r \in Participants /\ NoOne \notin Participants
        /\ reap[r].next \in DOMAIN Scan /\ Scan[reap[r].next] = item
    BY Zenon, PoolAssumption, TransferAssumption DEF Meets
  <1>2. Len(Scan) \in Nat /\ DOMAIN Scan = 1 .. Len(Scan)
    BY TransferAssumption
  <1>3. Victim(r) # NoOne
    BY <1>1, <1>2 DEF Shape, ReapersFit, ReaperFits, NotReaping
  <1>4. Victim(r) \in Participants \cup {NoOne}
    BY Zenon DEF Shape, TransferTypeOK, Victim
  <1> QED
    BY Zenon, <1>1, <1>2, <1>3, <1>4 DEF Shape, ReapersFit, ReaperFits

\* The slot that a reaper repairs belongs to somebody who is dead.
LEMMA FixedSlot ==
    ASSUME Shape, NEW r \in Reapers, r \in alive, fix[r] # NotFixing
    PROVE  /\ fix[r].slot \in Slots /\ ring[fix[r].slot] \in SlotWords
           /\ ring[fix[r].slot].reaper = r /\ r # NoOne
           /\ ring[fix[r].slot].source \in Participants /\ ring[fix[r].slot].source \notin alive
           /\ ring[fix[r].slot].token = NoOne => fix[r].resolved
           /\ Victim(r) # NoOne /\ Victim(r) \notin alive
  <1>1. r # NoOne
    BY Zenon, PoolAssumption, TransferAssumption
  <1>2. ReaperFits(r)
    BY Zenon DEF Shape, ReapersFit
  <1> QED
    BY Zenon, <1>1, <1>2 DEF Shape, SlotsFit, ReaperFits, TransferTypeOK, SlotWords

\* Steps of reapers keep the shape.
LEMMA ReapStepShape ==
    ASSUME Shape, PoolInv, NEW r \in Reapers,
           ReapWork(r) \/ \E dead \in Participants : ReapStart(r, dead)
    PROVE  Shape'
  <1>0. /\ reap \in [Reapers -> [victim : Participants \cup {NoOne}, pass : 0 .. 2,
                                  next : 0 .. Len(Scan) + 1]]
        /\ fix \in [Reapers -> [slot : Slots \cup {NoSlot}, resolved : BOOLEAN]]
        /\ ring \in [Slots -> SlotWords] /\ reaped \subseteq Participants \ alive
        /\ Len(Scan) \in Nat /\ NoOne \notin Participants /\ r \in Participants
    BY PoolAssumption, TransferAssumption DEF Shape, TransferTypeOK, SlotWords
  <1>1. NotFixing \in [slot : Slots \cup {NoSlot}, resolved : BOOLEAN]
    BY Zenon DEF NotFixing
  <1>2. NotReaping \in [victim : Participants \cup {NoOne}, pass : 0 .. 2, next : 0 .. Len(Scan) + 1]
    BY <1>0 DEF NotReaping
  <1>3. NotReaping.victim = NoOne
    BY Zenon DEF NotReaping
  \* moving on keeps the type
  <1>14. ASSUME Advance(r), reap[r].next \in 1 .. Len(Scan)
         PROVE  /\ reap' \in [Reapers -> [victim : Participants \cup {NoOne}, pass : 0 .. 2,
                                      next : 0 .. Len(Scan) + 1]]
                /\ reap'[r].victim = reap[r].victim
                /\ \A q \in Reapers \ {r} : reap'[q] = reap[q]
    <2>1. PICK x : x = [reap[r] EXCEPT !.next = @ + 1]
      BY Zenon
    <2>2. reap[r].next + 1 \in 0 .. Len(Scan) + 1
      BY <1>0, <1>14
    <2>3. /\ x \in [victim : Participants \cup {NoOne}, pass : 0 .. 2, next : 0 .. Len(Scan) + 1]
          /\ x.victim = reap[r].victim
      BY Zenon, <1>0, <2>1, <2>2
    <2>4. reap' = [reap EXCEPT ![r] = x]
      BY Zenon, <1>14, <2>1 DEF Advance
    <2> QED
      BY Zenon, <1>0, <2>3, <2>4
  \* steps that change neither the ring nor the handles
  <1>4. ASSUME UNCHANGED <<ringVars, handleVars, held, alive>>, ReaperFits(r)',
               reap' \in [Reapers -> [victim : Participants \cup {NoOne}, pass : 0 .. 2,
                                      next : 0 .. Len(Scan) + 1]],
               fix' \in [Reapers -> [slot : Slots \cup {NoSlot}, resolved : BOOLEAN]],
               reaped' \subseteq Participants \ alive,
               \A q \in Reapers \ {r} : reap'[q] = reap[q] /\ fix'[q] = fix[q]
        PROVE  Shape'
    <2>1. TransferTypeOK'
      BY Zenon, <1>4 DEF Shape, TransferTypeOK, ringVars, handleVars
    <2>2. SlotsFit'
      BY Zenon, <1>4 DEF Shape, SlotsFit, ringVars
    <2>3. HandlesFit'
      BY Zenon, <1>4, HandlesKeep DEF ringVars, handleVars
    <2>4. ReapersFit'
      BY Zenon, <1>4, ReaperMoves DEF ringVars
    <2> QED
      BY Zenon, <2>1, <2>2, <2>3, <2>4 DEF Shape
  \* giving up
  <1>5. ASSUME GiveUp(r), UNCHANGED <<ringVars, handleVars, held, alive>>,
               reaped' \subseteq Participants \ alive
        PROVE  Shape'
    <2>1. /\ reap' = [reap EXCEPT ![r] = NotReaping] /\ fix' = [fix EXCEPT ![r] = NotFixing]
      BY Zenon, <1>5 DEF GiveUp
    <2>2. /\ reap'[r] = NotReaping /\ fix'[r] = NotFixing
          /\ \A q \in Reapers \ {r} : reap'[q] = reap[q] /\ fix'[q] = fix[q]
      BY Zenon, <1>0, <2>1
    <2>3. ReaperFits(r)'
      BY Zenon, <1>3, <2>2 DEF ReaperFits, Victim
    <2> QED
      BY Zenon, <1>0, <1>1, <1>2, <1>4, <1>5, <2>1, <2>2, <2>3
  \* going on to the next item
  <1>6. ASSUME Advance(r), fix' = fix, fix[r] = NotFixing, reap[r].next \in 1 .. Len(Scan),
               Victim(r) # NoOne, r \in alive,
               UNCHANGED <<ringVars, handleVars, held, alive, reaped>>
        PROVE  Shape'
    <2>2. /\ reap' \in [Reapers -> [victim : Participants \cup {NoOne}, pass : 0 .. 2,
                                      next : 0 .. Len(Scan) + 1]]
          /\ reap'[r].victim = reap[r].victim
          /\ \A q \in Reapers \ {r} : reap'[q] = reap[q] /\ fix'[q] = fix[q]
      BY Zenon, <1>6, <1>14
    <2>3. ReaperFits(r)'
      BY Zenon, <1>6, <2>2 DEF ReaperFits, Victim, Shape, ReapersFit
    <2> QED
      BY Zenon, <1>0, <1>4, <1>6, <2>2, <2>3
  <1>7. ASSUME NEW dead \in Participants, ReapStart(r, dead) PROVE Shape'
    <2>1. PICK x : x = [victim |-> dead, pass |-> 1, next |-> 1]
      BY Zenon
    <2>2. /\ r \in alive /\ Victim(r) = NoOne /\ dead \notin alive
          /\ reap' = [reap EXCEPT ![r] = x]
          /\ UNCHANGED <<ringVars, handleVars, held, alive, fix, reaped>>
      BY Zenon, <1>7, <2>1 DEF ReapStart, poolVars
    <2>3. /\ x \in [victim : Participants \cup {NoOne}, pass : 0 .. 2, next : 0 .. Len(Scan) + 1]
          /\ x.victim = dead
      BY <1>0, <2>1
    <2>4. fix[r] = NotFixing
      BY Zenon, <2>2 DEF Shape, ReapersFit, ReaperFits
    <2>5. reap'[r] = x /\ \A q \in Reapers \ {r} : reap'[q] = reap[q] /\ fix'[q] = fix[q]
      BY Zenon, <1>0, <2>2
    <2>6. ReaperFits(r)'
      BY Zenon, <1>0, <2>2, <2>3, <2>4, <2>5 DEF ReaperFits, Victim
    <2> QED
      BY Zenon, <1>0, <1>4, <2>2, <2>3, <2>5, <2>6
  <1>8. ASSUME NEW b \in Blocks, ReapBlock(r, b) PROVE Shape'
    BY Zenon, <1>6, <1>8, MeetsDead DEF ReapBlock, RecoverBlock
  <1>9. ASSUME NEW i \in Slots, ReapPass(r, i) PROVE Shape'
    BY Zenon, <1>6, <1>9, MeetsDead DEF ReapPass, poolVars
  <1>10. ASSUME NEW i \in Slots, ReapMark(r, i) PROVE Shape'
    <2>1. /\ Meets(r, SlotItem(i)) /\ Concerns(ring[i], Victim(r))
          /\ UNCHANGED <<poolVars, head, count, handleVars, reaped>>
      BY Zenon, <1>10 DEF ReapMark
    <2>2. CASE ring[i].reaper \notin {NoOne, r, Victim(r)}
      <3>1. GiveUp(r) /\ UNCHANGED ring
        BY Zenon, <1>10, <2>2 DEF ReapMark
      <3> QED
        BY Zenon, <1>0, <1>5, <2>1, <3>1 DEF poolVars, ringVars
    <2>3. CASE ring[i].reaper \in {NoOne, r, Victim(r)}
      <3>1. PICK s : s = [ring[i] EXCEPT !.reaper = r]
        BY Zenon
      <3>2. PICK f : f = [slot |-> i, resolved |-> ring[i].token = NoOne]
        BY Zenon
      <3>3. Set(i, s) /\ fix' = [fix EXCEPT ![r] = f] /\ reap' = reap
        BY Zenon, <1>10, <2>3, <3>1, <3>2 DEF ReapMark
      <3>4. /\ s \in SlotWords /\ s.stage = ring[i].stage /\ s.source = ring[i].source
            /\ s.token = ring[i].token /\ s.reaper = r
        BY Zenon, <1>0, <3>1 DEF SlotWords
      <3>5. /\ ring' \in [Slots -> SlotWords] /\ ring'[i] = s
            /\ \A j \in Slots \ {i} : ring'[j] = ring[j]
        BY Zenon, <3>3, <3>4, SetOne DEF Shape
      <3>6. /\ fix' \in [Reapers -> [slot : Slots \cup {NoSlot}, resolved : BOOLEAN]]
            /\ fix'[r] = f /\ \A q \in Reapers \ {r} : fix'[q] = fix[q]
            /\ f.slot = i /\ f.resolved = (ring[i].token = NoOne)
        BY Zenon, <1>0, <3>2, <3>3
      <3>7. s.source \in Participants /\ s.source \notin alive
        BY <1>0, <2>1, <2>3, <3>4, MeetsDead DEF Concerns, Shape, SlotsFit, SlotWords
      <3>8. TransferTypeOK'
        BY Zenon, <2>1, <3>3, <3>5, <3>6 DEF Shape, TransferTypeOK, SlotWords, poolVars, handleVars
      <3>9. SlotsFit'
        BY Zenon, <2>1, <3>4, <3>5, <3>7 DEF Shape, SlotsFit, Owned, poolVars
      <3>10. HandlesFit'
        BY Zenon, <2>1, <3>4, <3>5, HandlesKeep DEF poolVars, handleVars
      <3>11. ReaperFits(r)'
        <4>1. Victim(r)' = Victim(r) /\ Victim(r) # NoOne /\ Victim(r) \notin alive'
          BY Zenon, <2>1, <3>3, MeetsDead DEF Victim, poolVars
        <4>2. reap'[r].next \in DOMAIN Scan /\ Scan[reap'[r].next] = SlotItem(i)
          BY Zenon, <2>1, <3>3, MeetsDead
        <4> QED
          BY Zenon, <3>4, <3>5, <3>6, <4>1, <4>2 DEF ReaperFits
      <3>12. \A j \in Slots : ring[j].reaper \in alive \ {r} => ring'[j] = ring[j]
        BY <1>0, <2>1, <2>3, <3>5, MeetsDead DEF PoolInv, PoolTypeOK
      <3>13. ReapersFit'
        BY Zenon, <2>1, <3>3, <3>6, <3>11, <3>12, ReaperMoves DEF poolVars
      <3> QED
        BY Zenon, <3>8, <3>9, <3>10, <3>13 DEF Shape
    <2> QED
      BY Zenon, <2>2, <2>3
  <1>11. CASE ReapRelease(r)
    <2>1. /\ r \in alive /\ fix[r] # NotFixing /\ UNCHANGED <<ringVars, handleVars, reaped>>
          /\ held' = held /\ alive' = alive
      BY Zenon, <1>11 DEF ReapRelease, ReleaseToken, poolVars
    <2>2. CASE GiveUp(r)
      BY Zenon, <1>0, <1>5, <2>1, <2>2
    <2>3. CASE fix' = [fix EXCEPT ![r].resolved = TRUE] /\ reap' = reap
      <3>1. /\ fix' \in [Reapers -> [slot : Slots \cup {NoSlot}, resolved : BOOLEAN]]
            /\ fix'[r].slot = fix[r].slot /\ fix'[r].resolved
            /\ \A q \in Reapers \ {r} : fix'[q] = fix[q]
        BY Zenon, <1>0, <2>3
      <3>2. ReaperFits(r)
        BY Zenon, <2>1 DEF Shape, ReapersFit
      <3>3. ReaperFits(r)'
        BY Zenon, <2>1, <2>3, <3>1, <3>2 DEF ReaperFits, Victim, ringVars
      <3> QED
        BY Zenon, <1>0, <1>4, <2>1, <2>3, <3>1, <3>3
    <2> QED
      BY Zenon, <1>11, <2>2, <2>3 DEF ReapRelease
  <1>12. CASE ReapStore(r)
    <2>1. PICK i : i = fix[r].slot
      BY Zenon
    <2>2. PICK s : s = Slot(IF ring[i].stage = "claimed" THEN "free" ELSE "skipped", NoOne, NoOne)
      BY Zenon
    <2>3. /\ r \in alive /\ fix[r] # NotFixing /\ Set(i, s) /\ Advance(r)
          /\ fix' = [fix EXCEPT ![r] = NotFixing]
          /\ UNCHANGED <<poolVars, head, count, handleVars, reaped>>
      BY Zenon, <1>12, <2>1, <2>2 DEF ReapStore
    <2>4. /\ i \in Slots /\ ring[i].reaper = r /\ ring[i].source \notin alive
          /\ Victim(r) # NoOne /\ Victim(r) \notin alive /\ reap[r].next \in 1 .. Len(Scan)
      <3>1. DOMAIN Scan = 1 .. Len(Scan)
        BY TransferAssumption
      <3>2. ReaperFits(r)
        BY Zenon, <1>0, <2>3 DEF Shape, ReapersFit
      <3> QED
        BY Zenon, <1>0, <2>1, <2>3, <3>1, <3>2, FixedSlot DEF ReaperFits
    <2>5. Proper(s) /\ s.source = NoOne
      <3>1. PICK stage \in {"free", "skipped"} : s = Slot(stage, NoOne, NoOne)
        BY Zenon, <2>2
      <3> QED
        BY <3>1, ProperSlot, SlotFields DEF Stages
    <2>6. /\ ring' \in [Slots -> SlotWords] /\ ring'[i] = s
          /\ \A j \in Slots \ {i} : ring'[j] = ring[j]
      BY Zenon, <2>3, <2>4, <2>5, SetOne DEF Shape, Proper
    <2>7. /\ fix' \in [Reapers -> [slot : Slots \cup {NoSlot}, resolved : BOOLEAN]]
          /\ fix'[r] = NotFixing /\ \A q \in Reapers \ {r} : fix'[q] = fix[q]
      BY Zenon, <1>0, <1>1, <2>3
    <2>8. /\ reap' \in [Reapers -> [victim : Participants \cup {NoOne}, pass : 0 .. 2,
                                      next : 0 .. Len(Scan) + 1]]
          /\ reap'[r].victim = reap[r].victim /\ \A q \in Reapers \ {r} : reap'[q] = reap[q]
      BY Zenon, <1>14, <2>3, <2>4
    <2>9. TransferTypeOK'
      BY Zenon, <2>3, <2>6, <2>7, <2>8 DEF Shape, TransferTypeOK, SlotWords, poolVars, handleVars
    <2>10. SlotsFit'
      BY Zenon, <2>3, <2>5, <2>6 DEF Shape, SlotsFit, Proper, poolVars
    <2>11. HandlesFit'
      BY Zenon, <2>3, <2>4, <2>6, HandlesKeep DEF poolVars, handleVars
    <2>12. ReaperFits(r)'
      BY Zenon, <2>3, <2>4, <2>7, <2>8 DEF ReaperFits, Victim, poolVars
    <2>14. \A j \in Slots : ring[j].reaper \in alive \ {r} => ring'[j] = ring[j]
      BY <2>4, <2>6
    <2>15. alive' = alive /\ \A q \in Reapers \ {r} : reap'[q] = reap[q] /\ fix'[q] = fix[q]
      BY <2>3, <2>7, <2>8 DEF poolVars
    <2>13. ReapersFit'
      BY <2>12, <2>14, <2>15, ReaperMoves
    <2> QED
      BY Zenon, <2>9, <2>10, <2>11, <2>13 DEF Shape
  <1>13. CASE ReapNext(r)
    <2>1. /\ r \in alive /\ Victim(r) # NoOne /\ reap[r].next > Len(Scan)
          /\ UNCHANGED <<ringVars, handleVars, held, alive>>
      BY Zenon, <1>13 DEF ReapNext, poolVars
    <2>2. Victim(r) \in Participants \ alive
      BY Zenon, <1>0, <2>1 DEF Shape, ReapersFit, ReaperFits, Victim
    <2>3. fix[r] = NotFixing
      BY <1>0, <2>1, TransferAssumption DEF Shape, ReapersFit, ReaperFits
    <2>4. CASE reap[r].pass = 1
      <3>1. reap' = [reap EXCEPT ![r].pass = 2, ![r].next = 1] /\ UNCHANGED <<fix, reaped>>
        BY Zenon, <1>13, <2>4 DEF ReapNext
      <3>9. 2 \in 0 .. 2 /\ 1 \in 0 .. Len(Scan) + 1
        BY <1>0
      <3>7. PICK y : y = [reap[r] EXCEPT !.pass = 2]
        BY Zenon
      <3>4. PICK x : x = [y EXCEPT !.next = 1]
        BY Zenon
      <3>8. /\ y \in [victim : Participants \cup {NoOne}, pass : 0 .. 2, next : 0 .. Len(Scan) + 1]
            /\ y.victim = reap[r].victim
        BY Zenon, <1>0, <3>7, <3>9
      <3>5. /\ x \in [victim : Participants \cup {NoOne}, pass : 0 .. 2, next : 0 .. Len(Scan) + 1]
            /\ x.victim = reap[r].victim
        BY Zenon, <1>0, <3>4, <3>8, <3>9
      <3>6. reap' = [reap EXCEPT ![r] = x]
        BY Zenon, <3>1, <3>4, <3>7
      <3>2. /\ reap' \in [Reapers -> [victim : Participants \cup {NoOne}, pass : 0 .. 2,
                                      next : 0 .. Len(Scan) + 1]]
            /\ reap'[r].victim = reap[r].victim
            /\ \A q \in Reapers \ {r} : reap'[q] = reap[q] /\ fix'[q] = fix[q]
        BY Zenon, <1>0, <3>1, <3>5, <3>6
      <3>3. ReaperFits(r)'
        BY Zenon, <2>1, <2>2, <2>3, <3>1, <3>2 DEF ReaperFits, Victim
      <3> QED
        BY Zenon, <1>0, <1>4, <2>1, <3>1, <3>2, <3>3
    <2>5. CASE reap[r].pass # 1
      <3>1. GiveUp(r) /\ reaped' \subseteq Participants \ alive
        BY Zenon, <1>0, <1>13, <2>2, <2>5 DEF ReapNext
      <3> QED
        BY Zenon, <1>5, <2>1, <3>1
    <2> QED
      BY Zenon, <2>4, <2>5
  <1> QED
    BY Zenon, <1>7, <1>8, <1>9, <1>10, <1>11, <1>12, <1>13 DEF ReapWork

----------------------------------------------------------------------------
(* Transfer implements Pool.                                               *)

\* A step of a handle is a step of the pool, or none.
LEMMA HandleStepRefines ==
    ASSUME Shape, NEW h \in Handles, HandleStep(h)
    PROVE  PoolNext \/ UNCHANGED poolVars
  <1>1. CASE PoolStep(h)
    BY Zenon, <1>1 DEF PoolStep, PoolNext
  <1>2. CASE TxDetach(h)
    BY Zenon, <1>2 DEF TxDetach, PoolNext
  <1>3. CASE RxTakeover(h) \/ DrainRelease(h)
    <2>1. PICK t : t = ring[at[h]].token
      BY Zenon
    <2>2. Busy(h) /\ pc[h] = "claimed" /\ (Takeover(h, t) \/ ReleaseToken(t, NoOne))
      BY Zenon, <1>3, <2>1 DEF RxTakeover, DrainRelease, Goto, Busy
    <2>3. at[h] \in Slots /\ ring[at[h]].stage = "claimed"
      BY Zenon, <2>2 DEF Shape, HandlesFit, Agrees
    <2>6. ring[at[h]] \in SlotWords
      BY Zenon, <2>2, BusySlot
    <2>7. ring[at[h]].token # NoOne
      BY Zenon, <2>3 DEF Shape, SlotsFit
    <2>4. t \in Token
      BY Zenon, <2>1, <2>6, <2>7 DEF SlotWords
    <2>5. NoOne \in (Participants \ alive) \cup {NoOne}
      BY Zenon
    <2> QED
      BY Zenon, <2>2, <2>4, <2>5 DEF PoolNext
  <1>4. CASE ~(PoolStep(h) \/ TxDetach(h) \/ RxTakeover(h) \/ DrainRelease(h))
    BY Zenon, <1>4 DEF HandleStep, TxReserve, TxStage, TxPublish, TxSkip, RxClaim, RxSkipped,
                RxRecycle, RxForget
  <1> QED
    BY Zenon, <1>1, <1>2, <1>3, <1>4

\* So is a step of a reaper.
LEMMA ReapStepRefines ==
    ASSUME Shape, NEW r \in Reapers,
           ReapWork(r) \/ \E dead \in Participants : ReapStart(r, dead)
    PROVE  PoolNext \/ UNCHANGED poolVars
  <1>1. ASSUME NEW b \in Blocks, ReapBlock(r, b) PROVE PoolNext
    <2>1. Victim(r) \in Participants \ alive /\ RecoverBlock(b, Victim(r))
      BY Zenon, <1>1, MeetsDead DEF ReapBlock
    <2> QED
      BY Zenon, <2>1 DEF PoolNext
  <1>2. CASE ReapRelease(r) /\ ~UNCHANGED poolVars
    <2>1. PICK s : s = ring[fix[r].slot]
      BY Zenon
    <2>2. r \in alive /\ fix[r] # NotFixing /\ ~fix[r].resolved /\ ReleaseToken(s.token, s.source)
      BY Zenon, <1>2, <2>1 DEF ReapRelease
    <2>3. s.source \in Participants \ alive /\ s.token \in Token
      BY Zenon, <2>1, <2>2, FixedSlot DEF SlotWords
    <2> QED
      BY Zenon, <2>2, <2>3 DEF PoolNext
  <1>3. ASSUME NEW i \in Slots, ReapPass(r, i) \/ ReapMark(r, i) PROVE UNCHANGED poolVars
    BY Zenon, <1>3 DEF ReapPass, ReapMark
  <1>4. ReapStore(r) \/ ReapNext(r) => UNCHANGED poolVars
    BY Zenon DEF ReapStore, ReapNext
  <1>5. \A dead \in Participants : ReapStart(r, dead) => UNCHANGED poolVars
    BY Zenon DEF ReapStart
  <1> QED
    BY Zenon, <1>1, <1>2, <1>3, <1>4, <1>5 DEF ReapWork

\* Every step of Transfer is a step of the pool, or leaves the pool alone.
LEMMA StepRefines == ASSUME Shape, [TransferNext]_vars PROVE [PoolNext]_poolVars
  <1>1. ASSUME NEW p \in Participants, Die(p) PROVE PoolNext
    BY Zenon, <1>1 DEF Die, PoolNext
  <1>2. CASE UNCHANGED vars
    BY Zenon, <1>2 DEF vars
  <1> QED
    BY Zenon, <1>1, <1>2, HandleStepRefines, ReapStepRefines DEF TransferNext

\* The invariant of the pool and the shape hold together.
LEMMA InitShape == TransferInit => Shape
  <1> SUFFICES ASSUME TransferInit PROVE Shape
    BY Zenon
  <1>1. /\ Capacity \in Nat \ {0} /\ Len(Scan) \in Nat /\ 0 \in Slots
    BY TransferAssumption DEF Slots
  <1>2. PICK s : s = Slot("free", NoOne, NoOne)
    BY Zenon
  <1>3. s \in SlotWords /\ Proper(s)
    BY Zenon, <1>2, SlotTypes, ProperSlot DEF Stages
  <1>4. \A i \in Slots : ring[i] = s
    BY Zenon, <1>2 DEF TransferInit
  <1>5. SlotsFit
    BY Zenon, <1>3, <1>4 DEF SlotsFit, Proper
  <1>6. HandlesFit /\ ReapersFit
    BY Zenon DEF TransferInit, HandlesFit, ReapersFit, ReaperFits, Busy, Victim, NotReaping
  <1>7. NotReaping \in [victim : Participants \cup {NoOne}, pass : 0 .. 2, next : 0 .. Len(Scan) + 1]
    BY <1>1 DEF NotReaping
  <1>8. TransferTypeOK
    BY <1>1, <1>2, <1>3, <1>7 DEF TransferInit, TransferTypeOK, SlotWords, NotFixing
  <1> QED
    BY Zenon, <1>5, <1>6, <1>8 DEF Shape

\* The shape is kept by every step.
LEMMA NextShape == ASSUME Shape, PoolInv, [TransferNext]_vars PROVE Shape'
  <1>1. CASE UNCHANGED vars
    BY Zenon, <1>1 DEF vars, poolVars, ringVars, handleVars, reapVars, Shape, TransferTypeOK, SlotsFit,
                HandlesFit, ReapersFit, ReaperFits, Busy, Runs, Victim
  <1> QED
    BY Zenon, <1>1, HandleStepShape, ReapStepShape, DieShape DEF TransferNext

\* In every state of Transfer the slots, handles and reapers fit together, and the
\* pool has its invariant.
THEOREM ShapeHolds == TransferSpec => [](Shape /\ PoolInv)
  <1>1. TransferInit => Shape /\ PoolInv
    BY Zenon, InitShape, InitPoolInv DEF TransferInit
  <1>2. Shape /\ PoolInv /\ [TransferNext]_vars => (Shape /\ PoolInv)'
    BY Zenon, NextShape, StepRefines, PoolNextKeeps
  <1> QED
    BY <1>1, <1>2, PTL DEF TransferSpec

\* Slots, handles, reapers and their places are well typed.
THEOREM TransferTypeCorrect == TransferSpec => []TransferTypeOK
  <1>1. Shape => TransferTypeOK
    BY Zenon DEF Shape
  <1> QED
    BY <1>1, ShapeHolds, PTL

\* The channel and recovery use the pool as Pool.tla promises: reserve, stage,
\* publish, claim, adopt, drain and reap_with take no step that the pool on its own
\* could not take.
THEOREM TransferImplementsPool == TransferSpec => ImplementsPool
  <1>1. TransferInit => PoolInit
    BY Zenon DEF TransferInit
  <1>2. Shape /\ [TransferNext]_vars => [PoolNext]_poolVars
    BY Zenon, StepRefines
  <1> QED
    BY <1>1, <1>2, ShapeHolds, PTL DEF TransferSpec, PoolSpec, ImplementsPool
-----------------------------------------------------------------------------
(* Recovery forgets the dead.                                               *)

\* the block b, the slot i, the item x of a pass do not name participant p
BlockClear(b, p) == state[b].owner # p
SlotClear(i, p) == p \notin {ring[i].source, ring[i].reaper}
Clear(x, p) ==
    /\ \A b \in Blocks : x = BlockItem(b) => BlockClear(b, p)
    /\ \A i \in Slots : x = SlotItem(i) => SlotClear(i, p)

\* what the recovery of reaper r has gone by is clear of its victim
Forgets(r) ==
    \A n \in DOMAIN Scan : n < reap[r].next \/ reap[r].pass = 2 => Clear(Scan[n], Victim(r))

Forgotten ==
    /\ \A r \in Reapers : r \in alive /\ Victim(r) # NoOne => Forgets(r)
    /\ ReapedIsForgotten

\* a step keeps what is clear of the dead clear
Fades ==
    /\ alive' \subseteq alive
    /\ \A p \in Participants \ alive :
         /\ \A b \in Blocks : BlockClear(b, p) => BlockClear(b, p)'
         /\ \A i \in Slots : SlotClear(i, p) => SlotClear(i, p)'

----------------------------------------------------------------------------
\* The words of the pool come to name participants that run, or nobody.
LEMMA WordsFade ==
    ASSUME Shape, PoolInv, [PoolNext]_poolVars, NEW p \in Participants \ alive, NEW b \in Blocks,
           BlockClear(b, p)
    PROVE  BlockClear(b, p)' /\ alive' \subseteq alive
  <1>0. state \in [Blocks -> State] /\ p # NoOne
    BY Zenon, PoolAssumption DEF PoolInv, PoolTypeOK
  <1>1. ASSUME NEW c, NEW w, Exchange(c, w), w.owner # p PROVE BlockClear(b, p)'
    BY Zenon, <1>0, <1>1 DEF Exchange, BlockClear
  <1>2. ASSUME state' = state PROVE BlockClear(b, p)'
    BY Zenon, <1>2 DEF BlockClear
  <1>3. ASSUME NEW c, NEW g, Exchange(c, Free(g)) \/ Exchange(c, Detached(g))
        PROVE  BlockClear(b, p)'
    BY Zenon, <1>0, <1>1, <1>3, WordFields
  <1>4. ASSUME NEW h \in Handles, Runs(h), NEW c, NEW g, Exchange(c, Local(g, Home[h]))
        PROVE  BlockClear(b, p)'
    BY <1>0, <1>1, <1>4, WordFields DEF Runs
  <1>5. CASE UNCHANGED poolVars
    BY Zenon, <1>2, <1>5 DEF poolVars
  <1>6. CASE PoolNext
    BY Zenon, <1>2, <1>3, <1>4, <1>6
       DEF PoolNext, Claim, Release, Detach, Takeover, ReleaseToken, RecoverBlock, PoolDie
  <1> QED
    BY Zenon, <1>5, <1>6

\* A slot comes to name a running participant or nobody.
LEMMA SlotFades ==
    ASSUME Shape, NEW i \in Slots, NEW s \in SlotWords, Set(i, s),
           NEW p \in Participants \ alive, NEW j \in Slots, SlotClear(j, p),
           s.source \in alive \cup {NoOne, ring[i].source}, s.reaper \in alive \cup {NoOne}
    PROVE  SlotClear(j, p)'
  BY Zenon, SetOne, PoolAssumption DEF SlotClear, Shape

\* A step of a handle stores slots that name its participant or nobody.
LEMMA HandleFades ==
    ASSUME Shape, PoolInv, NEW h \in Handles, HandleStep(h),
           NEW p \in Participants \ alive, NEW j \in Slots, SlotClear(j, p)
    PROVE  SlotClear(j, p)'
  <1>0. /\ head \in Slots /\ ring \in [Slots -> SlotWords] /\ Home[h] \in Participants
        /\ held \in [Handles -> Token \cup {NoOne}] /\ NoOne \notin Participants
    BY Zenon, PoolAssumption DEF Shape, TransferTypeOK, SlotWords, PoolInv, PoolTypeOK
  <1>1. ASSUME NEW i \in Slots, NEW stage \in Stages, NEW source \in {NoOne, Home[h]}, Runs(h),
               NEW token \in Token \cup {NoOne}, Set(i, Slot(stage, source, token))
        PROVE  SlotClear(j, p)'
    <2>1. PICK s : s = Slot(stage, source, token)
      BY Zenon
    <2>2. s \in SlotWords
      BY Zenon, <1>0, <2>1, SlotTypes
    <2>3. s.source \in alive \cup {NoOne} /\ s.reaper = NoOne /\ Set(i, s)
      BY <1>1, <2>1, SlotFields DEF Runs
    <2> QED
      BY Zenon, <2>2, <2>3, SlotFades
  <1>2. ASSUME ring' = ring PROVE SlotClear(j, p)'
    BY Zenon, <1>2 DEF SlotClear
  <1>3. Busy(h) => at[h] \in Slots /\ ring[at[h]].token \in Token \cup {NoOne}
    BY Zenon, BusySlot DEF SlotWords
  <1>4. CASE TxReserve(h)
    <2>1. (head + count) % Capacity \in Slots
      BY <1>0, TransferAssumption DEF Slots, Shape, TransferTypeOK
    <2>2. Runs(h) /\ Set((head + count) % Capacity, Slot("reserved", Home[h], NoOne))
      BY Zenon, <1>4 DEF TxReserve, Goto
    <2> QED
      BY Zenon, <1>1, <2>1, <2>2 DEF Stages
  <1>5. CASE TxStage(h)
    <2>1. Runs(h) /\ Busy(h) /\ Set(at[h], Slot("staged", Home[h], held[h]))
      BY Zenon, <1>5 DEF TxStage, Goto, Busy
    <2> QED
      BY Zenon, <1>0, <1>1, <1>3, <2>1 DEF Stages
  <1>6. CASE TxPublish(h)
    <2>1. Runs(h) /\ Busy(h) /\ Set(at[h], Slot("ready", NoOne, ring[at[h]].token))
      BY Zenon, <1>6 DEF TxPublish, Goto, Busy
    <2> QED
      BY Zenon, <1>1, <1>3, <2>1 DEF Stages
  <1>7. CASE TxSkip(h)
    <2>1. Runs(h) /\ Busy(h) /\ Set(at[h], Slot("skipped", NoOne, NoOne))
      BY Zenon, <1>7 DEF TxSkip, Goto, Busy
    <2> QED
      BY Zenon, <1>1, <1>3, <2>1 DEF Stages
  <1>8. CASE RxClaim(h)
    <2>1. Runs(h) /\ Set(head, Slot("claimed", Home[h], ring[head].token))
      BY Zenon, <1>8 DEF RxClaim, Goto
    <2> QED
      BY Zenon, <1>0, <1>1, <2>1 DEF Stages, SlotWords
  <1>9. CASE RxSkipped(h)
    <2>1. Runs(h) /\ Set(head, Slot("free", NoOne, NoOne))
      BY Zenon, <1>9 DEF RxSkipped
    <2> QED
      BY Zenon, <1>0, <1>1, <2>1 DEF Stages
  <1>10. CASE RxRecycle(h)
    <2>1. Runs(h) /\ Busy(h) /\ Set(at[h], Slot("free", NoOne, NoOne))
      BY Zenon, <1>10 DEF RxRecycle, Goto, Busy
    <2> QED
      BY Zenon, <1>1, <1>3, <2>1 DEF Stages
  <1>11. CASE PoolStep(h) \/ TxDetach(h) \/ RxTakeover(h) \/ DrainRelease(h) \/ RxForget(h)
    BY Zenon, <1>2, <1>11 DEF PoolStep, TxDetach, RxTakeover, DrainRelease, RxForget, ringVars
  <1> QED
    BY Zenon, <1>4, <1>5, <1>6, <1>7, <1>8, <1>9, <1>10, <1>11 DEF HandleStep

\* A step of a reaper stores its own mark, or clears the slot.
LEMMA ReapFades ==
    ASSUME Shape, NEW r \in Reapers, ReapWork(r) \/ \E dead \in Participants : ReapStart(r, dead),
           NEW p \in Participants \ alive, NEW j \in Slots, SlotClear(j, p)
    PROVE  SlotClear(j, p)'
  <1>0. ring \in [Slots -> SlotWords] /\ r \in Participants
    BY Zenon, TransferAssumption DEF Shape, TransferTypeOK, SlotWords
  <1>1. ASSUME ring' = ring PROVE SlotClear(j, p)'
    BY Zenon, <1>1 DEF SlotClear
  <1>2. ASSUME NEW i \in Slots, ReapMark(r, i) PROVE SlotClear(j, p)'
    <2>1. PICK s : s = [ring[i] EXCEPT !.reaper = r]
      BY Zenon
    <2>2. r \in alive /\ (Set(i, s) \/ ring' = ring)
      BY Zenon, <1>2, <2>1 DEF ReapMark, Meets
    <2>3. s \in SlotWords /\ s.source = ring[i].source /\ s.reaper = r
      BY Zenon, <1>0, <2>1 DEF SlotWords
    <2> QED
      BY Zenon, <1>1, <2>2, <2>3, SlotFades
  <1>3. CASE ReapStore(r)
    <2>1. PICK i : i = fix[r].slot
      BY Zenon
    <2>2. i \in Slots
      BY Zenon, <1>3, <2>1, FixedSlot DEF ReapStore
    <2>3. PICK stage \in Stages : Set(i, Slot(stage, NoOne, NoOne))
      BY Zenon, <1>3, <2>1 DEF ReapStore, Stages
    <2>4. PICK s : s = Slot(stage, NoOne, NoOne)
      BY Zenon
    <2>5. s \in SlotWords
      BY Zenon, <2>4, SlotTypes
    <2>6. s.source = NoOne /\ s.reaper = NoOne /\ Set(i, s)
      BY <2>3, <2>4, SlotFields
    <2> QED
      BY Zenon, <2>2, <2>5, <2>6, SlotFades
  <1> QED
    BY Zenon, <1>1, <1>2, <1>3 DEF ReapWork, ReapStart, ReapBlock, ReapPass, ReapRelease, ReapNext, ringVars

\* Every step keeps what is clear of the dead clear.
LEMMA NextFades == ASSUME Shape, PoolInv, [TransferNext]_vars PROVE Fades
  <1>1. [PoolNext]_poolVars
    BY Zenon, StepRefines
  <1>2. alive' \subseteq alive
    BY Zenon, <1>1 DEF PoolNext, poolVars, Claim, Release, Detach, Takeover, ReleaseToken, RecoverBlock, PoolDie
  <1>3. ASSUME NEW p \in Participants \ alive, NEW i \in Slots, SlotClear(i, p)
        PROVE  SlotClear(i, p)'
    <2>1. CASE UNCHANGED vars
      BY Zenon, <1>3, <2>1 DEF vars, ringVars, SlotClear
    <2>2. CASE TransferNext
      <3>1. ASSUME NEW q \in Participants, Die(q) PROVE SlotClear(i, p)'
        BY Zenon, <1>3, <3>1 DEF Die, ringVars, SlotClear
      <3> QED
        BY Zenon, <1>3, <2>2, <3>1, HandleFades, ReapFades DEF TransferNext
    <2> QED
      BY Zenon, <2>1, <2>2
  <1> QED
    BY Zenon, <1>1, <1>2, <1>3, WordsFade DEF Fades

----------------------------------------------------------------------------
\* What is clear of a dead participant stays clear.
LEMMA ClearStays ==
    ASSUME Fades, NEW p \in Participants \ alive, NEW x, Clear(x, p)
    PROVE  Clear(x, p)'
  BY Zenon DEF Fades, Clear

\* Items are equal when they are the same block or the same slot.
LEMMA ItemEq ==
    /\ \A b, c : BlockItem(b) = BlockItem(c) => b = c
    /\ \A i, j : SlotItem(i) = SlotItem(j) => i = j
    /\ \A b, i : BlockItem(b) # SlotItem(i)
  <1>1. \A b : BlockItem(b).kind = "block" /\ BlockItem(b).block = b
    BY Zenon DEF BlockItem
  <1>2. \A i : SlotItem(i).kind = "slot" /\ SlotItem(i).slot = i
    BY Zenon DEF SlotItem
  <1> QED
    BY <1>1, <1>2

\* A slot whose repair is Repair::None is clear.
LEMMA PassedSlot ==
    ASSUME Shape, NEW i \in Slots, NEW p \in Participants, ~Concerns(ring[i], p)
    PROVE  SlotClear(i, p)
  BY Zenon, PoolAssumption DEF Shape, SlotsFit, SlotClear, Concerns

\* A recovery that moves on from an item that is clear now.
LEMMA MovesOn ==
    ASSUME Shape, Forgotten, Fades, NEW r \in Reapers, r \in alive, Victim(r) # NoOne,
           Advance(r), reap[r].next \in DOMAIN Scan, NEW p, p = Victim(r),
           NEW x, x = Scan[reap[r].next], Clear(x, p)'
    PROVE  Forgets(r)'
  <1>1. /\ reap \in [Reapers -> [victim : Participants \cup {NoOne}, pass : 0 .. 2,
                                  next : 0 .. Len(Scan) + 1]]
        /\ p \in Participants \ alive /\ Forgets(r)
    BY DEF Shape, TransferTypeOK, ReapersFit, ReaperFits, Forgotten, Victim
  <1>2. PICK m : m = reap[r].next
    BY Zenon
  <1>3. PICK y : y = [reap[r] EXCEPT !.next = @ + 1]
    BY Zenon
  <1>4. reap' = [reap EXCEPT ![r] = y]
    BY Zenon, <1>3 DEF Advance
  <1>5. reap'[r] = y /\ y.victim = p /\ y.pass = reap[r].pass /\ y.next = m + 1
    BY Zenon, <1>1, <1>2, <1>3, <1>4 DEF Victim
  <1>6. DOMAIN Scan = 1 .. Len(Scan) /\ Len(Scan) \in Nat
    BY TransferAssumption
  <1> SUFFICES ASSUME NEW n \in DOMAIN Scan, n < m + 1 \/ reap[r].pass = 2
               PROVE  Clear(Scan[n], p)'
    BY Zenon, <1>5 DEF Forgets, Victim
  <1>7. CASE n = m
    BY Zenon, <1>2, <1>7
  <1>8. CASE n # m
    <2>1. n < m \/ reap[r].pass = 2
      BY <1>2, <1>6, <1>8
    <2>2. Clear(Scan[n], p)
      BY Zenon, <1>1, <1>2, <2>1 DEF Forgets
    <2> QED
      BY Zenon, <1>1, <2>2, ClearStays
  <1> QED
    BY Zenon, <1>7, <1>8

\* Every step of a reaper keeps what its own recovery has gone by clear.
LEMMA ReapForgets ==
    ASSUME Shape, PoolInv, Forgotten, Fades, NEW r \in Reapers,
           ReapWork(r) \/ \E dead \in Participants : ReapStart(r, dead), Victim(r)' # NoOne
    PROVE  Forgets(r)'
  <1>0. /\ reap \in [Reapers -> [victim : Participants \cup {NoOne}, pass : 0 .. 2,
                                  next : 0 .. Len(Scan) + 1]]
        /\ DOMAIN Scan = 1 .. Len(Scan) /\ Len(Scan) \in Nat /\ r \in alive
    <2>1. r \in alive
      BY Zenon DEF ReapWork, ReapStart, ReapBlock, ReapPass, ReapMark, ReapRelease, ReapStore,
                   ReapNext, Meets
    <2> QED
      BY <2>1, TransferAssumption DEF Shape, TransferTypeOK
  <1>1. ASSUME reap' = reap PROVE Forgets(r)'
    <2>1. PICK p : p = Victim(r)
      BY Zenon
    <2>2. p \in Participants \ alive /\ Forgets(r) /\ p # NoOne
      BY Zenon, <1>0, <1>1, <2>1 DEF Shape, ReapersFit, ReaperFits, Forgotten, Victim
    <2>3. \A n \in DOMAIN Scan : Clear(Scan[n], p) => Clear(Scan[n], p)'
      BY Zenon, <2>2, ClearStays
    <2>4. Victim(r)' = p /\ reap' = reap
      BY Zenon, <1>1, <2>1 DEF Victim
    <2> QED
      BY Zenon, <2>1, <2>2, <2>3, <2>4 DEF Forgets
  <1>2. ~GiveUp(r)
    BY <1>0 DEF GiveUp, NotReaping, Victim
  <1>3. ASSUME NEW dead \in Participants, ReapStart(r, dead) PROVE Forgets(r)'
    <2>1. reap'[r].pass = 1 /\ reap'[r].next = 1
      BY Zenon, <1>0, <1>3 DEF ReapStart
    <2> QED
      BY <1>0, <2>1 DEF Forgets
  <1>4. ASSUME NEW b \in Blocks, ReapBlock(r, b) PROVE Forgets(r)'
    <2>1. PICK p : p = Victim(r)
      BY Zenon
    <2>2. /\ Meets(r, BlockItem(b)) /\ RecoverBlock(b, p) /\ Advance(r)
      BY Zenon, <1>4, <2>1 DEF ReapBlock
    <2>3. p # NoOne /\ reap[r].next \in DOMAIN Scan /\ Scan[reap[r].next] = BlockItem(b)
      BY Zenon, <2>1, <2>2, MeetsDead
    <2>4. BlockClear(b, p)'
      <3>1. state \in [Blocks -> State] /\ Canonical(state[b])
        BY Zenon DEF PoolInv, PoolTypeOK
      <3> QED
        BY <2>2, <2>3, <3>1, WordFields DEF RecoverBlock, Exchange, BlockClear, Canonical
    <2>5. Clear(BlockItem(b), p)'
      BY Zenon, <2>4, ItemEq DEF Clear
    <2> QED
      BY Zenon, <1>0, <2>1, <2>2, <2>3, <2>5, MovesOn
  <1>5. ASSUME NEW i \in Slots, ReapPass(r, i) PROVE Forgets(r)'
    <2>1. PICK p : p = Victim(r)
      BY Zenon
    <2>2. /\ Meets(r, SlotItem(i)) /\ ~Concerns(ring[i], p) /\ Advance(r) /\ ring' = ring
      BY Zenon, <1>5, <2>1 DEF ReapPass, ringVars
    <2>3. /\ p # NoOne /\ reap[r].next \in DOMAIN Scan /\ Scan[reap[r].next] = SlotItem(i)
          /\ p \in Participants
      BY Zenon, <2>1, <2>2, MeetsDead
    <2>4. SlotClear(i, p)'
      BY Zenon, <2>2, <2>3, PassedSlot DEF SlotClear
    <2>5. Clear(SlotItem(i), p)'
      BY Zenon, <2>4, ItemEq DEF Clear
    <2> QED
      BY Zenon, <1>0, <2>1, <2>2, <2>3, <2>5, MovesOn
  <1>6. ASSUME NEW i \in Slots, ReapMark(r, i) PROVE Forgets(r)'
    BY Zenon, <1>1, <1>2, <1>6 DEF ReapMark
  <1>7. CASE ReapRelease(r)
    BY Zenon, <1>1, <1>2, <1>7 DEF ReapRelease
  <1>8. CASE ReapStore(r)
    <2>1. PICK p : p = Victim(r)
      BY Zenon
    <2>2. PICK i : i = fix[r].slot
      BY Zenon
    <2>3. /\ fix[r] # NotFixing /\ Advance(r)
          /\ \E stage \in Stages : Set(i, Slot(stage, NoOne, NoOne))
      BY Zenon, <1>8, <2>2 DEF ReapStore, Stages
    <2>4. /\ p # NoOne /\ i \in Slots
          /\ reap[r].next \in DOMAIN Scan /\ Scan[reap[r].next] = SlotItem(i)
      BY Zenon, <1>0, <2>1, <2>2, <2>3, FixedSlot DEF Shape, ReapersFit, ReaperFits
    <2>5. SlotClear(i, p)'
      <3>1. ring'[i].source = NoOne /\ ring'[i].reaper = NoOne
        BY <2>3, <2>4, SlotFields DEF Set, Shape, TransferTypeOK
      <3> QED
        BY Zenon, <2>4, <3>1 DEF SlotClear
    <2>6. Clear(SlotItem(i), p)'
      BY Zenon, <2>5, ItemEq DEF Clear
    <2> QED
      BY Zenon, <1>0, <2>1, <2>3, <2>4, <2>6, MovesOn
  <1>9. CASE ReapNext(r)
    <2>1. PICK p : p = Victim(r)
      BY Zenon
    <2>2. /\ reap[r].next > Len(Scan) /\ p # NoOne
          /\ reap' = [reap EXCEPT ![r].pass = 2, ![r].next = 1]
      BY Zenon, <1>2, <1>9, <2>1 DEF ReapNext
    <2>3. p \in Participants \ alive /\ Forgets(r)
      BY Zenon, <1>0, <2>1, <2>2 DEF Shape, ReapersFit, ReaperFits, Forgotten, Victim
    <2>4. Victim(r)' = p
      BY Zenon, <1>0, <2>1, <2>2 DEF Victim
    <2>5. \A n \in DOMAIN Scan : n < reap[r].next
      BY <1>0, <2>2
    <2>6. \A n \in DOMAIN Scan : Clear(Scan[n], p)
      BY Zenon, <2>1, <2>3, <2>5 DEF Forgets
    <2>7. \A n \in DOMAIN Scan : Clear(Scan[n], p)'
      BY Zenon, <2>3, <2>6, ClearStays
    <2> QED
      BY Zenon, <2>4, <2>7 DEF Forgets
  <1> QED
    BY Zenon, <1>3, <1>4, <1>5, <1>6, <1>7, <1>8, <1>9 DEF ReapWork

\* The recovery of a reaper that does not move.
LEMMA OthersForget ==
    ASSUME Shape, Forgotten, Fades, NEW r \in Reapers, r \in alive', reap'[r] = reap[r],
           Victim(r)' # NoOne
    PROVE  Forgets(r)'
  <1>1. PICK p : p = Victim(r)
    BY Zenon
  <1>2. p \in Participants \ alive /\ Forgets(r) /\ p # NoOne
    <2>1. p \in Participants \cup {NoOne} /\ p # NoOne
      BY Zenon, <1>1 DEF Shape, TransferTypeOK, Victim
    <2> QED
      BY Zenon, <1>1, <2>1 DEF Shape, ReapersFit, ReaperFits, Forgotten, Fades
  <1>3. \A n \in DOMAIN Scan : Clear(Scan[n], p) => Clear(Scan[n], p)'
    BY Zenon, <1>2, ClearStays
  <1>4. Victim(r)' = p
    BY Zenon, <1>1 DEF Victim
  <1> QED
    BY Zenon, <1>1, <1>2, <1>3, <1>4 DEF Forgets

\* A participant slot is given back after the second pass, when everything is clear.
LEMMA GivenBack ==
    ASSUME Shape, PoolInv, Forgotten, Fades, [TransferNext]_vars
    PROVE  ReapedIsForgotten'
  <1>1. ASSUME NEW p \in Participants \ alive, \A x \in Items : Clear(x, p)
        PROVE  /\ \A b \in Blocks : BlockClear(b, p)'
               /\ \A i \in Slots : SlotClear(i, p)'
    <2>1. \A b \in Blocks : BlockItem(b) \in Items
      BY Zenon DEF Items
    <2>2. \A i \in Slots : SlotItem(i) \in Items
      BY Zenon DEF Items
    <2> QED
      BY Zenon, <1>1, <2>1, <2>2 DEF Clear, Fades
  <1>2. ASSUME NEW p \in reaped
        PROVE  /\ \A b \in Blocks : BlockClear(b, p)'
               /\ \A i \in Slots : SlotClear(i, p)'
    <2>1. /\ p \in Participants \ alive
          /\ \A b \in Blocks : BlockClear(b, p)
          /\ \A i \in Slots : SlotClear(i, p)
      BY Zenon, <1>2 DEF Shape, TransferTypeOK, Forgotten, ReapedIsForgotten, BlockClear, SlotClear
    <2> QED
      BY Zenon, <2>1 DEF Fades
  <1>3. ASSUME NEW r \in Reapers, ReapNext(r), reaped' # reaped
        PROVE  /\ reaped' = reaped \cup {Victim(r)} /\ Victim(r) \in Participants \ alive
               /\ \A x \in Items : Clear(x, Victim(r))
    <2>1. /\ r \in alive /\ Victim(r) # NoOne /\ reap[r].next > Len(Scan)
          /\ reap[r].pass # 1 /\ reaped' = reaped \cup {Victim(r)}
      BY Zenon, <1>3 DEF ReapNext
    <2>2. /\ Victim(r) \in Participants \ alive /\ Forgets(r) /\ Len(Scan) \in Nat
          /\ DOMAIN Scan = 1 .. Len(Scan) /\ reap[r].next \in Nat
      BY <2>1, TransferAssumption
         DEF Shape, TransferTypeOK, ReapersFit, ReaperFits, Forgotten, Victim
    <2>3. \A n \in DOMAIN Scan : n < reap[r].next
      BY <2>1, <2>2
    <2>4. \A n \in DOMAIN Scan : Clear(Scan[n], Victim(r))
      BY Zenon, <2>2, <2>3 DEF Forgets
    <2> QED
      BY Zenon, <2>1, <2>2, <2>4, TransferAssumption
  <1>4. reaped' = reaped \/ \E r \in Reapers : ReapNext(r)
    BY Zenon DEF vars, reapVars, TransferNext, HandleStep, PoolStep, TxReserve, TxStage, TxDetach,
         TxPublish, TxSkip, RxClaim, RxSkipped, RxTakeover, DrainRelease, RxRecycle, RxForget, Die,
         ReapWork, ReapStart, ReapBlock, ReapPass, ReapMark, ReapRelease, ReapStore
  <1>5. ASSUME NEW p \in reaped'
        PROVE  /\ \A b \in Blocks : BlockClear(b, p)'
               /\ \A i \in Slots : SlotClear(i, p)'
    BY Zenon, <1>1, <1>2, <1>3, <1>4, <1>5
  <1> QED
    BY Zenon, <1>5 DEF ReapedIsForgotten, BlockClear, SlotClear

\* Every step keeps what was gone by clear of the dead.
LEMMA NextForgets == ASSUME Shape, PoolInv, Forgotten, [TransferNext]_vars PROVE Forgotten'
  <1>1. Fades
    BY Zenon, NextFades
  <1>2. ReapedIsForgotten'
    BY Zenon, <1>1, GivenBack
  <1>3. ASSUME NEW r \in Reapers, r \in alive', Victim(r)' # NoOne PROVE Forgets(r)'
    <2>1. CASE reap'[r] = reap[r]
      BY Zenon, <1>1, <1>3, <2>1, OthersForget
    <2>2. CASE ReapWork(r) \/ \E dead \in Participants : ReapStart(r, dead)
      BY Zenon, <1>1, <1>3, <2>2, ReapForgets
    <2>3. reap'[r] = reap[r] \/ ReapWork(r) \/ \E dead \in Participants : ReapStart(r, dead)
      <3>1. reap \in [Reapers -> [victim : Participants \cup {NoOne}, pass : 0 .. 2,
                                  next : 0 .. Len(Scan) + 1]]
        BY Zenon DEF Shape, TransferTypeOK
      <3>2. ASSUME NEW h \in Handles, HandleStep(h) PROVE reap' = reap
        BY Zenon, <3>2 DEF reapVars, HandleStep, PoolStep, TxReserve, TxStage, TxDetach,
             TxPublish, TxSkip, RxClaim, RxSkipped, RxTakeover, DrainRelease, RxRecycle, RxForget
      <3>3. ASSUME NEW q \in Reapers, q # r,
                   ReapWork(q) \/ \E dead \in Participants : ReapStart(q, dead)
            PROVE  reap'[r] = reap[r]
        BY Zenon, <3>1, <3>3 DEF ReapWork, ReapStart, ReapBlock, ReapPass, ReapMark, ReapRelease,
             ReapStore, ReapNext, Advance, GiveUp
      <3> QED
        BY Zenon, <3>2, <3>3 DEF vars, reapVars, TransferNext, Die
    <2> QED
      BY Zenon, <2>1, <2>2, <2>3
  <1> QED
    BY Zenon, <1>2, <1>3 DEF Forgotten

\* In every state, what a recovery has gone by is clear of its victim.
THEOREM ForgottenHolds == TransferSpec => []Forgotten
  <1>1. TransferInit => Forgotten
    <2> SUFFICES ASSUME TransferInit PROVE Forgotten
      BY Zenon
    <2>1. \A r \in Reapers : Victim(r) = NoOne
      BY Zenon DEF TransferInit, Victim, NotReaping
    <2>2. reaped = {}
      BY Zenon DEF TransferInit
    <2> QED
      BY Zenon, <2>1, <2>2 DEF Forgotten, ReapedIsForgotten
  <1>2. Shape /\ PoolInv /\ Forgotten /\ [TransferNext]_vars => Forgotten'
    BY Zenon, NextForgets
  <1> QED
    BY <1>1, <1>2, ShapeHolds, PTL DEF TransferSpec

\* release_dead hands the slot of a dead participant back when no block, no slot and
\* no repair in the channel names the participant, in whatever order the passes meet
\* the layouts and however many reapers work at it.
THEOREM ReapedIsForgottenHolds == TransferSpec => []ReapedIsForgotten
  <1>1. Forgotten => ReapedIsForgotten
    BY Zenon DEF Forgotten
  <1> QED
    BY <1>1, ForgottenHolds, PTL

=============================================================================
