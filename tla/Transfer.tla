------------------------------ MODULE Transfer ------------------------------
(***************************************************************************)
(* Moving blocks through one direction of a channel: the pool of Pool.tla, *)
(* the slots of the ring with the tokens they carry, the linear Transfer,  *)
(* TransferStaged and Received values of channel.rs, draining on removal,  *)
(* and Recovery::reap_with (session.rs), which scans every layout twice.   *)
(*                                                                         *)
(* The ring is taken at the level of Fifo, which Queue.tla implements:     *)
(* reserving and claiming are one step each, and a slot is committed from  *)
(* its reservation to its claim.                                           *)
(***************************************************************************)
EXTENDS Pool, Sequences

CONSTANTS
    Senders, Receivers,  \* participants admitted to the two roles
    Reapers,             \* participants that recover dead ones
    Capacity,            \* slots of the ring
    Scan                 \* the blocks and slots in the order a pass of recovery meets them

Slots == 0 .. Capacity - 1
NoSlot == Capacity
BlockItem(b) == [kind |-> "block", block |-> b]
SlotItem(i) == [kind |-> "slot", slot |-> i]
Items == {BlockItem(b) : b \in Blocks} \cup {SlotItem(i) : i \in Slots}

ASSUME TransferAssumption ==
    /\ Capacity \in Nat \ {0}
    /\ Scan \in Seq(Items) /\ \A x \in Items : \E n \in DOMAIN Scan : Scan[n] = x
    /\ Senders \cup Receivers \cup Reapers \subseteq Participants

VARIABLES
    ring,           \* stage, owner, repairing participant and token of each slot
    head, count,    \* the committed window
    pc, at,         \* what a handle is doing, and with which slot
    reap,           \* the recovery a reaper runs: victim, pass, place in the pass
    fix,            \* the slot a reaper repairs, and whether its token is resolved
    reaped          \* the dead participants whose slot was given back (release_dead)

ringVars == <<ring, head, count>>
handleVars == <<pc, at>>
reapVars == <<reap, fix, reaped>>
vars == <<poolVars, ringVars, handleVars, reapVars>>

Slot(stage, source, token) ==
    [stage |-> stage, source |-> source, reaper |-> NoOne, token |-> token]
NotReaping == [victim |-> NoOne, pass |-> 0, next |-> 0]
NotFixing == [slot |-> NoSlot, resolved |-> FALSE]

TransferInit ==
    /\ PoolInit
    /\ ring = [i \in Slots |-> Slot("free", NoOne, NoOne)]
    /\ head = 0 /\ count = 0
    /\ pc = [h \in Handles |-> "idle"]
    /\ at = [h \in Handles |-> NoSlot]
    /\ reap = [r \in Reapers |-> NotReaping]
    /\ fix = [r \in Reapers |-> NotFixing]
    /\ reaped = {}

Goto(h, here, there) == Runs(h) /\ pc[h] = here /\ pc' = [pc EXCEPT ![h] = there]
Set(i, s) == ring' = [ring EXCEPT ![i] = s]
Leave(h) == at' = [at EXCEPT ![h] = NoSlot]

----------------------------------------------------------------------------
(* Allocation outside a transfer.                                          *)

PoolStep(h) ==
    /\ \/ \E b \in Blocks : pc[h] \in {"idle", "reserved"} /\ Claim(h, b)
       \/ pc[h] \in {"idle", "reserved"} /\ Release(h)
    /\ UNCHANGED <<ringVars, handleVars, reapVars>>

----------------------------------------------------------------------------
(* Tx::reserve, TransferReserved::stage, TransferStaged::publish.          *)

TxReserve(h) ==
    LET i == (head + count) % Capacity IN
    /\ Goto(h, "idle", "reserved")
    /\ Home[h] \in Senders
    /\ count < Capacity /\ ring[i].stage = "free"
    /\ Set(i, Slot("reserved", Home[h], NoOne))
    /\ count' = count + 1
    /\ at' = [at EXCEPT ![h] = i]
    /\ UNCHANGED <<poolVars, head, reapVars>>

TxStage(h) ==
    /\ Goto(h, "reserved", "staged")
    /\ Live(h)
    /\ Set(at[h], Slot("staged", Home[h], held[h]))
    /\ UNCHANGED <<poolVars, head, count, at, reapVars>>

\* Mutants: publish does not detach; detach leaves the allocation live.
TxDetachNot(h) ==
    /\ Goto(h, "staged", "detached")
    /\ UNCHANGED <<poolVars, ringVars, at, reapVars>>

TxDetachLive(h) ==
    /\ Goto(h, "staged", "detached")
    /\ Live(h) /\ Exchange(held[h].block, Detached(held[h].generation))
    /\ UNCHANGED <<held, alive, freed, ringVars, at, reapVars>>

\* the assertion in publish: detach succeeds
TxDetach(h) ==
    /\ Goto(h, "staged", "detached")
    /\ Detach(h)
    /\ UNCHANGED <<ringVars, at, reapVars>>

TxPublish(h) ==
    /\ Goto(h, "detached", "idle")
    /\ Set(at[h], Slot("ready", NoOne, ring[at[h]].token))
    /\ Leave(h)
    /\ UNCHANGED <<poolVars, head, count, reapVars>>

\* TransferReserved dropped, or TransferStaged cancelled or dropped; the
\* allocation stays with the handle
TxSkip(h) ==
    /\ Goto(h, "reserved", "idle") \/ Goto(h, "staged", "idle")
    /\ Set(at[h], Slot("skipped", NoOne, NoOne))
    /\ Leave(h)
    /\ UNCHANGED <<poolVars, head, count, reapVars>>

----------------------------------------------------------------------------
(* Rx::claim, Received::adopt, admit and discard, and the drain of         *)
(* Channel::close_with.                                                    *)

Pop == head' = (head + 1) % Capacity /\ count' = count - 1

RxClaim(h) ==
    /\ Goto(h, "idle", "claimed")
    /\ Home[h] \in Receivers /\ ~Live(h)
    /\ count > 0 /\ ring[head].stage = "ready"
    /\ Set(head, Slot("claimed", Home[h], ring[head].token))
    /\ Pop
    /\ at' = [at EXCEPT ![h] = head]
    /\ UNCHANGED <<poolVars, reapVars>>

\* a claim of a skipped position recycles it and answers Busy
RxSkipped(h) ==
    /\ Runs(h) /\ Home[h] \in Receivers
    /\ count > 0 /\ ring[head].stage = "skipped"
    /\ Set(head, Slot("free", NoOne, NoOne))
    /\ Pop
    /\ UNCHANGED <<poolVars, handleVars, reapVars>>

RxTakeover(h) ==
    /\ Goto(h, "claimed", "taken")
    /\ Takeover(h, ring[at[h]].token)
    /\ UNCHANGED <<ringVars, at, reapVars>>

\* close_with resolves the token of its claim
DrainRelease(h) ==
    /\ Goto(h, "claimed", "taken")
    /\ ReleaseToken(ring[at[h]].token, NoOne)
    /\ UNCHANGED <<ringVars, at, reapVars>>

\* Claim::take; what was adopted stays with the handle
RxRecycle(h) ==
    /\ Goto(h, "taken", "idle")
    /\ Set(at[h], Slot("free", NoOne, NoOne))
    /\ Leave(h)
    /\ UNCHANGED <<poolVars, head, count, reapVars>>

\* Mutant: the dropped claim recycles its slot.
RxForgetRecycles(h) ==
    /\ Goto(h, "claimed", "idle")
    /\ Set(at[h], Slot("free", NoOne, NoOne))
    /\ Leave(h)
    /\ UNCHANGED <<poolVars, head, count, reapVars>>

\* Received dropped: the claim stays in the ring
RxForget(h) ==
    /\ Goto(h, "claimed", "idle")
    /\ Leave(h)
    /\ UNCHANGED <<poolVars, ringVars, reapVars>>

HandleStep(h) ==
    \/ PoolStep(h)
    \/ TxReserve(h) \/ TxStage(h) \/ TxDetach(h) \/ TxPublish(h) \/ TxSkip(h)
    \/ RxClaim(h) \/ RxSkipped(h) \/ RxTakeover(h) \/ DrainRelease(h) \/ RxRecycle(h)
    \/ RxForget(h)

----------------------------------------------------------------------------
(* Recovery::reap_with: two passes over the layouts, in directory order.   *)

Die(p) == PoolDie(p) /\ UNCHANGED <<ringVars, handleVars, reapVars>>

Victim(r) == reap[r].victim
Owned(s) == s.stage \in {"reserved", "staged", "claimed"}
ConcernsSource(s, dead) == Owned(s) /\ dead = s.source  \* mutant: marks of dead reapers stay
Concerns(s, dead) == Owned(s) /\ dead \in {s.source, s.reaper}
Advance(r) == reap' = [reap EXCEPT ![r].next = @ + 1]
GiveUp(r) == reap' = [reap EXCEPT ![r] = NotReaping] /\ fix' = [fix EXCEPT ![r] = NotFixing]
Meets(r, item) ==
    /\ r \in alive /\ fix[r] = NotFixing
    /\ reap[r].next \in DOMAIN Scan /\ Scan[reap[r].next] = item

ReapStart(r, dead) ==
    /\ r \in alive /\ Victim(r) = NoOne
    /\ dead \notin alive \cup reaped
    /\ reap' = [reap EXCEPT ![r] = [victim |-> dead, pass |-> 1, next |-> 1]]
    /\ UNCHANGED <<poolVars, ringVars, handleVars, fix, reaped>>

ReapBlock(r, b) ==
    /\ Meets(r, BlockItem(b))
    /\ RecoverBlock(b, Victim(r))
    /\ Advance(r)
    /\ UNCHANGED <<ringVars, handleVars, fix, reaped>>

\* Repair::None
ReapPass(r, i) ==
    /\ Meets(r, SlotItem(i))
    /\ ~Concerns(ring[i], Victim(r))
    /\ Advance(r)
    /\ UNCHANGED <<poolVars, ringVars, handleVars, fix, reaped>>

\* Mutant: the mark of a dead reaper counts as work in progress.
ReapMarkOwn(r, i) ==
    /\ Meets(r, SlotItem(i))
    /\ Concerns(ring[i], Victim(r))
    /\ IF ring[i].reaper \in {NoOne, r}
       THEN /\ Set(i, [ring[i] EXCEPT !.reaper = r])
            /\ fix' = [fix EXCEPT ![r] = [slot |-> i, resolved |-> ring[i].token = NoOne]]
            /\ UNCHANGED reap
       ELSE GiveUp(r) /\ UNCHANGED ring
    /\ UNCHANGED <<poolVars, head, count, handleVars, reaped>>

ReapMark(r, i) ==
    /\ Meets(r, SlotItem(i))
    /\ Concerns(ring[i], Victim(r))
    /\ IF ring[i].reaper \in {NoOne, r, Victim(r)}
       THEN /\ Set(i, [ring[i] EXCEPT !.reaper = r])
            /\ fix' = [fix EXCEPT ![r] = [slot |-> i, resolved |-> ring[i].token = NoOne]]
            /\ UNCHANGED reap
       ELSE GiveUp(r) /\ UNCHANGED ring
    /\ UNCHANGED <<poolVars, head, count, handleVars, reaped>>

\* release_token with the owner the slot records
ReapRelease(r) ==
    LET s == ring[fix[r].slot] IN
    /\ r \in alive /\ fix[r] # NotFixing /\ ~fix[r].resolved
    /\ \/ /\ ReleaseToken(s.token, s.source)
          /\ fix' = [fix EXCEPT ![r].resolved = TRUE]
          /\ UNCHANGED reap
       \/ Refuses(s.token, s.source) /\ GiveUp(r) /\ UNCHANGED poolVars
    /\ UNCHANGED <<ringVars, handleVars, reaped>>

ReapStore(r) ==
    LET i == fix[r].slot IN
    /\ r \in alive /\ fix[r] # NotFixing /\ fix[r].resolved
    /\ Set(i, Slot(IF ring[i].stage = "claimed" THEN "free" ELSE "skipped", NoOne, NoOne))
    /\ fix' = [fix EXCEPT ![r] = NotFixing]
    /\ Advance(r)
    /\ UNCHANGED <<poolVars, head, count, handleVars, reaped>>

ReapNext(r) ==
    /\ r \in alive /\ Victim(r) # NoOne /\ reap[r].next > Len(Scan)
    /\ IF reap[r].pass = 1
       THEN reap' = [reap EXCEPT ![r].pass = 2, ![r].next = 1] /\ UNCHANGED <<fix, reaped>>
       ELSE GiveUp(r) /\ reaped' = reaped \cup {Victim(r)}
    /\ UNCHANGED <<poolVars, ringVars, handleVars>>

ReapWork(r) ==
    \/ \E b \in Blocks : ReapBlock(r, b)
    \/ \E i \in Slots : ReapPass(r, i) \/ ReapMark(r, i)
    \/ ReapRelease(r) \/ ReapStore(r) \/ ReapNext(r)

TransferNext ==
    \/ \E h \in Handles : HandleStep(h)
    \/ \E p \in Participants : Die(p)
    \/ \E r \in Reapers : ReapWork(r) \/ \E dead \in Participants : ReapStart(r, dead)

TransferSpec == TransferInit /\ [][TransferNext]_vars

----------------------------------------------------------------------------
(* Properties.                                                             *)

Stages == {"free", "reserved", "staged", "ready", "skipped", "claimed"}

\* The state is well typed.
TransferTypeOK ==
    /\ ring \in [Slots -> [stage : Stages, source : Participants \cup {NoOne},
                           reaper : Participants \cup {NoOne}, token : Token \cup {NoOne}]]
    /\ head \in Slots /\ count \in 0 .. Capacity
    /\ pc \in [Handles -> {"idle", "reserved", "staged", "detached", "claimed", "taken"}]
    /\ at \in [Handles -> Slots \cup {NoSlot}]
    /\ reap \in [Reapers -> [victim : Participants \cup {NoOne}, pass : 0 .. 2, next : 0 .. Len(Scan) + 1]]
    /\ fix \in [Reapers -> [slot : Slots \cup {NoSlot}, resolved : BOOLEAN]]
    /\ reaped \subseteq Participants \ alive

\* slot i carries the token of an allocation it answers for
Carries(i, t) == ring[i].stage \in {"staged", "ready", "claimed"} /\ ring[i].token = t

\* "each moved Pool allocation has exactly one reclamation authority through
\* reserve, publish, claim, admit or discard, release, cancellation, closure, and
\* proven peer death" (docs/architecture.md).  An owned block belongs to one handle
\* of a running participant, or to a dead participant that recovery still has to
\* reap; a detached block has a slot that carries its token.  Never two slots.
OneAuthority ==
    /\ \A b \in Blocks : state[b].allocated =>
         LET t == [block |-> b, generation |-> state[b].generation]
             p == state[b].owner
         IN  \/ p \in alive /\ \E h \in Handles : Home[h] = p /\ held[h] = t
             \/ p \in Participants \ (alive \cup reaped)
             \/ p = NoOne /\ \E i \in Slots : Carries(i, t)
    /\ \A i, j \in Slots, t \in Token : Carries(i, t) /\ Carries(j, t) => i = j

\* A claimed token can be admitted, discarded or drained: its block is detached in
\* the token's generation as long as the receiver that claimed it runs, whoever
\* reaps the sender meanwhile (Received::adopt never answers Owned).
ClaimIsAdmissible ==
    \A h \in Handles : pc[h] = "claimed" /\ Runs(h) =>
        LET t == ring[at[h]].token IN state[t.block] = Detached(t.generation)

\* "linear transfer lost its Pool authority before publication" (the assertion in
\* TransferStaged::publish) never fires.
PublishKeepsAuthority ==
    \A h \in Handles : pc[h] = "staged" /\ Runs(h) =>
        Live(h) /\ state[held[h].block] = Local(held[h].generation, Home[h])

\* Repairing a slot never meets storage evidence that does not fit: release_token
\* accepts every token that a dead participant left in a slot, also after the pool
\* pass, after another reaper died in the middle, and after the block was reused.
EvidenceFits ==
    \A r \in Reapers : r \in alive /\ fix[r] # NotFixing /\ ~fix[r].resolved =>
        LET s == ring[fix[r].slot] IN ~Refuses(s.token, s.source)

\* Recovery hands a participant slot back only when nothing in the pool or the ring
\* names the participant any more.
ReapedIsForgotten ==
    \A p \in reaped :
        /\ \A b \in Blocks : state[b].owner # p
        /\ \A i \in Slots : p \notin {ring[i].source, ring[i].reaper}

\* The steps of the channel and of recovery are steps of the pool as Pool.tla
\* promises it, so what holds there for any caller holds here.
ImplementsPool == PoolSpec

----------------------------------------------------------------------------
(* Liveness: the callers of assume_dead keep retrying for every dead peer, *)
(* and a recovery that started runs on.                                    *)

ReapFairness ==
    \A r \in Reapers :
        /\ WF_vars(ReapWork(r))
        /\ \A dead \in Mortal : SF_vars(ReapStart(r, dead))

FairTransferSpec == TransferSpec /\ ReapFairness

\* Every dead participant is reaped in the end, also when reapers die and leave
\* their marks, or wait for each other's.
EveryDeathIsReaped == \A p \in Mortal : p \notin alive ~> p \in reaped
=============================================================================
