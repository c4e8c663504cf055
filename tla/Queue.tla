------------------------------- MODULE Queue -------------------------------
(***************************************************************************)
(* One direction of a channel: the bounded ring of queue.rs.  Every atomic *)
(* access of reserve, claim, stage, publish, recycle, close, finish and    *)
(* repair_slot_with is one step.  The steps belong to handles: a producer  *)
(* handle is one Reserved/Staged value and the call that creates it, a     *)
(* consumer handle one Claim and the call that creates it, so a thread     *)
(* that holds two claims is two handles of one participant.                *)
(*                                                                         *)
(* A cursor packs lap * one_lap + index into a word; here it is the pair.  *)
(* The accesses are sequentially consistent.                               *)
(***************************************************************************)
EXTENDS Integers, FiniteSets

CONSTANTS
    Participants,   \* slots of the participant table that map the region
    NoOne,          \* the zero in the source and reaper fields of a control word
    Producers,      \* handles that call reserve
    Consumers,      \* handles that call claim
    Closers,        \* handles that call close_field and finish_field
    Reapers,        \* handles that repair the queue after a death
    OwnerOf,        \* the participant a handle runs in
    FirstHolder,    \* the participants admitted to the two roles at the start
    Capacity,       \* number of slots
    Mortal,         \* participants that may die
    MaxPos          \* bound: no call of reserve starts at this position or later

Workers == Producers \cup Consumers
Handles == Workers \cup Reapers \cup Closers

ASSUME QueueAssumption ==
    /\ NoOne \notin Participants
    /\ Capacity \in Nat \ {0}
    /\ MaxPos \in Nat
    /\ Mortal \subseteq Participants
    /\ OwnerOf \in [Workers \cup Reapers -> Participants]
    /\ FirstHolder \in [{"send", "recv"} -> Participants]
    /\ Producers \cap Consumers = {}
    /\ Workers \cap Reapers = {}
    /\ Workers \cap Closers = {}
    /\ Reapers \cap Closers = {}

VARIABLES
    head, tail,     \* Header
    turn,           \* Slot::turn
    control,        \* Slot::control
    value,          \* Slot::value, named by the position it was staged at
    gate,           \* the two lifecycle fields: 0 open, 1 closing, 3 closed
    holder,         \* the participant whose role sends, and the one whose role receives
    alive,          \* participants that still run
    pc,             \* the next step of each handle
    cur,            \* the cursor a worker loaded
    seen,           \* `initialized`: the COMPLETE bit a consumer observed
    at,             \* the slot a closer or a reaper looks at
    field,          \* the lifecycle field a closer finishes
    victim,         \* the dead participant a reaper repairs for
    word,           \* the control word a reaper loaded, then the one it stores
    settled         \* history: values taken by a consumer or released by repair

ring == <<head, tail, turn, control, value>>
repairState == <<victim, word>>
vars == <<ring, gate, holder, alive, pc, cur, seen, at, field, repairState, settled>>

----------------------------------------------------------------------------
(* Cursors and control words.                                              *)

Slots == 0 .. Capacity - 1
Cursor == [lap : Nat, index : Slots]

\* positions as numbers
Pos(c) == c.lap * Capacity + c.index

\* the cursor after c: the next index, or index 0 of the next lap
NextCursor(c) ==
    IF c.index + 1 < Capacity
    THEN [lap |-> c.lap, index |-> c.index + 1]
    ELSE [lap |-> c.lap + 1, index |-> 0]

\* c + one_lap
NextLap(c) == [lap |-> c.lap + 1, index |-> c.index]

\* 0 < wrapping distance b - a < 2^63
Before(a, b) == a.lap < b.lap \/ (a.lap = b.lap /\ a.index < b.index)

Bases == {"EMPTY", "PRODUCER", "AVAILABLE", "CONSUMER"}
Control == [base : Bases, complete : BOOLEAN,
            source : Participants \cup {NoOne}, reaper : Participants \cup {NoOne}]

Empty == [base |-> "EMPTY", complete |-> FALSE, source |-> NoOne, reaper |-> NoOne]
Available(complete) ==
    [base |-> "AVAILABLE", complete |-> complete, source |-> NoOne, reaper |-> NoOne]
Owned(base, complete, owner) ==
    [base |-> base, complete |-> complete, source |-> owner, reaper |-> NoOne]

\* the words canonical() admits
Canonical(w) ==
    \/ w = Empty
    \/ w.base = "AVAILABLE" /\ w.source = NoOne /\ w.reaper = NoOne
    \/ w.base \in {"PRODUCER", "CONSUMER"} /\ w.source # NoOne

----------------------------------------------------------------------------
Zero == [lap |-> 0, index |-> 0]

Init ==
    /\ head = Zero /\ tail = Zero
    /\ turn = [i \in Slots |-> [lap |-> 0, index |-> i]]
    /\ control = [i \in Slots |-> Empty]
    /\ value = [i \in Slots |-> Zero]
    /\ gate = [f \in {"send", "recv"} |-> 0]
    /\ holder = FirstHolder
    /\ alive = Participants
    /\ pc = [h \in Handles |-> "idle"]
    /\ cur = [h \in Workers |-> Zero]
    /\ seen = [h \in Workers |-> FALSE]
    /\ at = [h \in Closers \cup Reapers |-> 0]
    /\ field = [h \in Closers |-> "send"]
    /\ victim = [h \in Reapers |-> NoOne]
    /\ word = [h \in Reapers |-> Empty]
    /\ settled = {}

Open == gate["send"] = 0 /\ gate["recv"] = 0
SlotOf(h) == cur[h].index
Goto(h, here, there) == pc[h] = here /\ pc' = [pc EXCEPT ![h] = there]
\* the call or the handle ends, and its locals with it
Return(h, here) ==
    /\ Goto(h, here, "idle")
    /\ cur' = [cur EXCEPT ![h] = Zero]
    /\ seen' = [seen EXCEPT ![h] = FALSE]
SetControl(i, w) == control' = [control EXCEPT ![i] = w]
Runs(h) == OwnerOf[h] \in alive

\* what a worker step leaves alone besides what it names
Elsewhere == UNCHANGED <<gate, holder, alive, at, field, repairState>>

----------------------------------------------------------------------------
(* Queue::reserve, then Reserved::stage, Staged::publish and skip.         *)

ReserveStart(h) ==
    /\ Goto(h, "idle", "load")
    /\ holder["send"] = OwnerOf[h]
    /\ Open
    /\ Pos(tail) < MaxPos
    /\ UNCHANGED <<ring, cur, seen, settled>>

ReserveLoad(h) ==
    /\ Goto(h, "load", "own")
    /\ cur' = [cur EXCEPT ![h] = tail]
    /\ UNCHANGED <<ring, seen, settled>>

ReserveOwn(h) ==
    /\ IF control[SlotOf(h)] = Empty
       THEN /\ Goto(h, "own", "check")
            /\ SetControl(SlotOf(h), Owned("PRODUCER", FALSE, OwnerOf[h]))
       ELSE /\ Goto(h, "own", "probe")
            /\ UNCHANGED control
    /\ UNCHANGED <<head, tail, turn, value, cur, seen, settled>>

\* Mutant: a slot that is not free counts as a full ring.
ReserveFullAlways(h) ==
    /\ Return(h, "probe")
    /\ UNCHANGED <<ring, settled>>

\* returns ReserveError::Full
ReserveFull(h) ==
    /\ Return(h, "probe")
    /\ NextLap(head) = cur[h]
    /\ UNCHANGED <<ring, settled>>

\* returns ReserveError::Busy
ReserveBusy(h) ==
    /\ Return(h, "probe")
    /\ NextLap(head) # cur[h]
    /\ UNCHANGED <<ring, settled>>

\* the loads of turn and tail; the turn of an owned slot does not change
ReserveCheck(h) ==
    /\ Goto(h, "check", IF turn[SlotOf(h)] = cur[h] /\ tail = cur[h] THEN "admit" ELSE "undo")
    /\ UNCHANGED <<ring, cur, seen, settled>>

\* Mutant: the second look at the lifecycle is left out.
ReserveAdmitAlways(h) ==
    /\ Goto(h, "admit", "commit")
    /\ UNCHANGED <<ring, cur, seen, settled>>

ReserveAdmit(h) ==
    /\ Goto(h, "admit", IF Open THEN "commit" ELSE "undo")
    /\ UNCHANGED <<ring, cur, seen, settled>>

ReserveCommit(h) ==
    /\ IF tail = cur[h]
       THEN Goto(h, "commit", "reserved") /\ tail' = NextCursor(tail)
       ELSE Goto(h, "commit", "undo") /\ UNCHANGED tail
    /\ UNCHANGED <<head, turn, control, value, cur, seen, settled>>

\* Mutant: an undone reservation is given back like a skipped one.
ReserveUndoAsSkip(h) ==
    /\ Return(h, "undo")
    /\ SetControl(SlotOf(h), Available(FALSE))
    /\ UNCHANGED <<head, tail, turn, value, settled>>

ReserveUndo(h) ==
    /\ Return(h, "undo")
    /\ SetControl(SlotOf(h), Empty)
    /\ UNCHANGED <<head, tail, turn, value, settled>>

\* Mutant: COMPLETE is set and the value is not written.
StageWordOnly(h) ==
    /\ Goto(h, "reserved", "staged")
    /\ SetControl(SlotOf(h), Owned("PRODUCER", TRUE, OwnerOf[h]))
    /\ UNCHANGED <<head, tail, turn, value, cur, seen, settled>>

Stage(h) ==
    /\ Goto(h, "reserved", "staged")
    /\ value' = [value EXCEPT ![SlotOf(h)] = cur[h]]
    /\ SetControl(SlotOf(h), Owned("PRODUCER", TRUE, OwnerOf[h]))
    /\ UNCHANGED <<head, tail, turn, cur, seen, settled>>

Publish(h) ==
    /\ Return(h, "staged")
    /\ SetControl(SlotOf(h), Available(TRUE))
    /\ UNCHANGED <<head, tail, turn, value, settled>>

\* Reserved dropped, Staged cancelled or dropped
Skip(h) ==
    /\ Return(h, "reserved") \/ Return(h, "staged")
    /\ SetControl(SlotOf(h), Available(FALSE))
    /\ UNCHANGED <<head, tail, turn, value, settled>>

ProducerStep(h) ==
    /\ Runs(h)
    /\ Elsewhere
    /\ \/ ReserveLoad(h) \/ ReserveOwn(h) \/ ReserveFull(h) \/ ReserveBusy(h)
       \/ ReserveCheck(h) \/ ReserveAdmit(h) \/ ReserveCommit(h) \/ ReserveUndo(h)
       \/ Stage(h) \/ Publish(h) \/ Skip(h)

ProducerStart(h) == Runs(h) /\ Elsewhere /\ ReserveStart(h)

----------------------------------------------------------------------------
(* Queue::claim, then Claim::take (or drop) and Claim::recycle.            *)

ClaimStart(h) ==
    /\ Goto(h, "idle", "load")
    /\ holder["recv"] = OwnerOf[h]
    /\ gate["recv"] = 0
    /\ UNCHANGED <<ring, cur, seen, settled>>

ClaimLoad(h) ==
    /\ Goto(h, "load", "look")
    /\ cur' = [cur EXCEPT ![h] = head]
    /\ UNCHANGED <<ring, seen, settled>>

ClaimLook(h) ==
    /\ LET w == control[SlotOf(h)] IN
       IF w.base = "AVAILABLE"
       THEN Goto(h, "look", "own") /\ seen' = [seen EXCEPT ![h] = w.complete]
       ELSE Goto(h, "look", "probe") /\ UNCHANGED seen
    /\ UNCHANGED <<ring, cur, settled>>

\* returns ClaimError::Empty
ClaimEmpty(h) ==
    /\ Return(h, "probe")
    /\ tail = cur[h]
    /\ UNCHANGED <<ring, settled>>

\* returns ClaimError::Busy
ClaimBusy(h) ==
    /\ Return(h, "probe")
    /\ tail # cur[h]
    /\ UNCHANGED <<ring, settled>>

ClaimOwn(h) ==
    /\ IF control[SlotOf(h)] = Available(seen[h])
       THEN /\ Goto(h, "own", "check")
            /\ SetControl(SlotOf(h), Owned("CONSUMER", seen[h], OwnerOf[h]))
            /\ UNCHANGED <<cur, seen>>
       ELSE Return(h, "own") /\ UNCHANGED control
    /\ UNCHANGED <<head, tail, turn, value, settled>>

\* the loads of turn and head
ClaimCheck(h) ==
    /\ Goto(h, "check", IF turn[SlotOf(h)] = cur[h] /\ head = cur[h] THEN "commit" ELSE "undo")
    /\ UNCHANGED <<ring, cur, seen, settled>>

ClaimCommit(h) ==
    /\ IF head = cur[h]
       THEN /\ Goto(h, "commit", IF seen[h] THEN "claimed" ELSE "recycle")
            /\ head' = NextCursor(head)
       ELSE Goto(h, "commit", "undo") /\ UNCHANGED head
    /\ UNCHANGED <<tail, turn, control, value, cur, seen, settled>>

ClaimUndo(h) ==
    /\ Return(h, "undo")
    /\ SetControl(SlotOf(h), Available(seen[h]))
    /\ UNCHANGED <<head, tail, turn, value, settled>>

Take(h) ==
    /\ Goto(h, "claimed", "recycle")
    /\ settled' = settled \cup {value[SlotOf(h)]}
    /\ UNCHANGED <<ring, cur, seen>>

\* Mutant: the slot gets the turn of the next position.
RecycleNextTurn(h) ==
    /\ Goto(h, "recycle", "free")
    /\ turn' = [turn EXCEPT ![SlotOf(h)] = NextCursor(cur[h])]
    /\ UNCHANGED <<head, tail, control, value, cur, seen, settled>>

RecycleTurn(h) ==
    /\ Goto(h, "recycle", "free")
    /\ turn' = [turn EXCEPT ![SlotOf(h)] = NextLap(cur[h])]
    /\ UNCHANGED <<head, tail, control, value, cur, seen, settled>>

RecycleFree(h) ==
    /\ Return(h, "free")
    /\ SetControl(SlotOf(h), Empty)
    /\ UNCHANGED <<head, tail, turn, value, settled>>

ConsumerStep(h) ==
    /\ Runs(h)
    /\ Elsewhere
    /\ \/ ClaimStart(h) \/ ClaimLoad(h) \/ ClaimLook(h) \/ ClaimEmpty(h) \/ ClaimBusy(h)
       \/ ClaimOwn(h) \/ ClaimCheck(h) \/ ClaimCommit(h) \/ ClaimUndo(h)
       \/ Take(h) \/ RecycleTurn(h) \/ RecycleFree(h)

----------------------------------------------------------------------------
(* Queue::close_field and Queue::finish_field.                             *)

\* fetch_or(1 << f)
CloseField(f) ==
    /\ gate[f] = 0
    /\ gate' = [gate EXCEPT ![f] = 1]
    /\ UNCHANGED <<ring, holder, alive, pc, cur, seen, at, field, repairState, settled>>

OwnedBase(f) == IF f = "send" THEN "PRODUCER" ELSE "CONSUMER"

FinishStart(h, f) ==
    /\ Goto(h, "idle", "scan")
    /\ gate[f] = 1
    /\ field' = [field EXCEPT ![h] = f]
    /\ at' = [at EXCEPT ![h] = 0]
    /\ UNCHANGED <<ring, gate, holder, alive, cur, seen, repairState, settled>>

\* Mutant: the scan passes over owned slots.
FinishScanBlind(h) ==
    /\ at[h] < Capacity
    /\ pc[h] = "scan"
    /\ at' = [at EXCEPT ![h] = @ + 1]
    /\ UNCHANGED <<ring, gate, holder, alive, pc, cur, seen, field, repairState, settled>>

FinishScan(h) ==
    /\ at[h] < Capacity
    /\ IF control[at[h]].base = OwnedBase(field[h])
       THEN Goto(h, "scan", "idle") /\ at' = [at EXCEPT ![h] = 0]
       ELSE /\ pc[h] = "scan"
            /\ at' = [at EXCEPT ![h] = @ + 1]
            /\ UNCHANGED pc
    /\ UNCHANGED <<ring, gate, holder, alive, cur, seen, field, repairState, settled>>

\* fetch_or(2 << f)
FinishSet(h) ==
    /\ at[h] = Capacity
    /\ Goto(h, "scan", "idle")
    /\ gate' = [gate EXCEPT ![field[h]] = 3]
    /\ at' = [at EXCEPT ![h] = 0]
    /\ UNCHANGED <<ring, holder, alive, cur, seen, field, repairState, settled>>

CloserStep(h) ==
    \/ \E f \in {"send", "recv"} : FinishStart(h, f)
    \/ FinishScan(h)
    \/ FinishSet(h)

----------------------------------------------------------------------------
(* Death of a participant, and Layout::recover of the channel, which runs  *)
(* repair_slot_with over the slots in order and then gives the roles of    *)
(* the dead participant back for adoption.                                 *)

Die(p) ==
    /\ p \in Mortal \cap alive
    /\ alive' = alive \ {p}
    /\ UNCHANGED <<ring, gate, holder, pc, cur, seen, at, field, repairState, settled>>

RepairStart(r) ==
    /\ Goto(r, "idle", "read")
    /\ \E d \in Participants \ alive : victim' = [victim EXCEPT ![r] = d]
    /\ at' = [at EXCEPT ![r] = 0]
    /\ UNCHANGED <<ring, word, settled>>

\* recover returns: Busy, Corrupted or done
Stop(r, here) ==
    /\ Goto(r, here, "idle")
    /\ at' = [at EXCEPT ![r] = 0]
    /\ victim' = [victim EXCEPT ![r] = NoOne]
    /\ word' = [word EXCEPT ![r] = Empty]

\* this slot is done, or needs no repair
Advance(r, here) ==
    /\ Goto(r, here, IF at[r] + 1 < Capacity THEN "read" ELSE "roles")
    /\ at' = [at EXCEPT ![r] = IF @ + 1 < Capacity THEN @ + 1 ELSE @]
    /\ word' = [word EXCEPT ![r] = Empty]
    /\ UNCHANGED victim

\* the repair the loaded word asks reaper r for
ResumesAny(r, w) == w.source = victim[r]  \* mutant: whoever marked the word
Resumes(r, w) == w.source = victim[r] /\ w.reaper = OwnerOf[r]
Replaces(r, w) == w.reaper = victim[r]
Begins(r, w) == w.source = victim[r] /\ w.reaper = NoOne

\* Mutant: the mark of a reaper that died is not looked for.
RepairNoneBySource(r) ==
    /\ LET w == control[at[r]] IN
       w.base \in {"PRODUCER", "CONSUMER"} => w.source # victim[r]
    /\ Advance(r, "read")
    /\ UNCHANGED <<ring, settled>>

\* Repair::None
RepairNone(r) ==
    /\ LET w == control[at[r]] IN
       w.base \in {"PRODUCER", "CONSUMER"} => w.source # victim[r] /\ ~Replaces(r, w)
    /\ Advance(r, "read")
    /\ UNCHANGED <<ring, settled>>

\* Repair::Busy(reaper - 1): another participant repairs this slot
RepairBusy(r) ==
    /\ LET w == control[at[r]] IN
       /\ w.base \in {"PRODUCER", "CONSUMER"}
       /\ w.source = victim[r]
       /\ ~Resumes(r, w) /\ ~Replaces(r, w) /\ ~Begins(r, w)
    /\ Stop(r, "read")
    /\ UNCHANGED <<ring, settled>>

RepairRead(r) ==
    /\ LET w == control[at[r]] IN
       /\ w.base \in {"PRODUCER", "CONSUMER"}
       /\ Resumes(r, w) \/ Replaces(r, w) \/ Begins(r, w)
       /\ Goto(r, "read", IF Resumes(r, w) THEN "act" ELSE "mark")
       /\ word' = [word EXCEPT ![r] = w]
    /\ UNCHANGED <<ring, at, victim, settled>>

\* Mutant: a store in the place of the compare-exchange.
RepairMarkByStore(r) ==
    /\ Goto(r, "mark", "act")
    /\ SetControl(at[r], [word[r] EXCEPT !.reaper = OwnerOf[r]])
    /\ UNCHANGED <<head, tail, turn, value, at, repairState, settled>>

RepairMark(r) ==
    /\ IF control[at[r]] = word[r]
       THEN /\ Goto(r, "mark", "act")
            /\ SetControl(at[r], [word[r] EXCEPT !.reaper = OwnerOf[r]])
            /\ UNCHANGED <<at, repairState>>
       ELSE Stop(r, "mark") /\ UNCHANGED control
    /\ UNCHANGED <<head, tail, turn, value, settled>>

\* word[r] becomes the word to store, after the step named by there
Resolve(r, there, w) ==
    /\ Goto(r, "act", there)
    /\ word' = [word EXCEPT ![r] = w]
    /\ UNCHANGED <<ring, at, victim, settled>>

\* Mutants of the decision for a reservation: a released value is published; a
\* reservation that was not committed is skipped.
RepairProducerPublishes(r) ==
    /\ word[r].base = "PRODUCER"
    /\ Before(turn[at[r]], tail)
    /\ Resolve(r, IF word[r].complete THEN "release" ELSE "store", Available(word[r].complete))
RepairProducerSkips(r) ==
    /\ word[r].base = "PRODUCER"
    /\ ~word[r].complete
    /\ Resolve(r, "store", Available(FALSE))

RepairProducer(r) ==
    /\ word[r].base = "PRODUCER"
    /\ \/ /\ tail = turn[at[r]] /\ ~word[r].complete
          /\ Resolve(r, "store", Empty)
       \/ /\ Before(turn[at[r]], tail)
          /\ Resolve(r, IF word[r].complete THEN "release" ELSE "store", Available(FALSE))

RepairConsumer(r) ==
    /\ word[r].base = "CONSUMER"
    /\ IF head = turn[at[r]]
       THEN Resolve(r, "store", Available(word[r].complete))
       ELSE Resolve(r, IF word[r].complete THEN "release" ELSE "turn", Empty)

\* Repair::Corrupted: staged but uncommitted, or a turn ahead of the tail
RepairCorrupted(r) ==
    /\ word[r].base = "PRODUCER"
    /\ ~Before(turn[at[r]], tail)
    /\ tail = turn[at[r]] => word[r].complete
    /\ Stop(r, "act")
    /\ UNCHANGED <<ring, settled>>

\* the release callback; it may also fail, which returns Repair::Corrupted
RepairRelease(r) ==
    /\ \/ /\ Goto(r, "release", IF word[r] = Empty THEN "turn" ELSE "store")
          /\ settled' = settled \cup {value[at[r]]}
          /\ UNCHANGED <<at, repairState>>
       \/ Stop(r, "release") /\ UNCHANGED settled
    /\ UNCHANGED ring

\* The code compares with the head it loaded at the decision; the head cannot
\* pass the turn of a slot whose word is owned, so the comparison is the same.
RepairTurn(r) ==
    /\ Goto(r, "turn", "store")
    /\ turn' = IF Before(turn[at[r]], head)
               THEN [turn EXCEPT ![at[r]] = NextLap(@)]
               ELSE turn
    /\ UNCHANGED <<head, tail, control, value, at, repairState, settled>>

RepairStore(r) ==
    /\ Advance(r, "store")
    /\ SetControl(at[r], word[r])
    /\ UNCHANGED <<head, tail, turn, value, settled>>

\* recover_role for both roles
RecoverRoles(r) ==
    /\ Stop(r, "roles")
    /\ holder' = [s \in {"send", "recv"} |-> IF holder[s] = victim[r] THEN NoOne ELSE holder[s]]
    /\ UNCHANGED <<ring, settled>>

ReaperStep(r) ==
    /\ Runs(r)
    /\ UNCHANGED <<gate, alive, cur, seen, field>>
    /\ \/ /\ UNCHANGED holder
          /\ \/ RepairStart(r) \/ RepairNone(r) \/ RepairBusy(r) \/ RepairRead(r)
             \/ RepairMark(r) \/ RepairProducer(r) \/ RepairConsumer(r) \/ RepairCorrupted(r)
             \/ RepairRelease(r) \/ RepairTurn(r) \/ RepairStore(r)
       \/ RecoverRoles(r)

\* the participant of a worker is admitted to the role the worker needs
Adopt(h) ==
    LET s == IF h \in Producers THEN "send" ELSE "recv" IN
    /\ Runs(h)
    /\ holder[s] = NoOne
    /\ holder' = [holder EXCEPT ![s] = OwnerOf[h]]
    /\ UNCHANGED <<ring, gate, alive, pc, cur, seen, at, field, repairState, settled>>

----------------------------------------------------------------------------
Next ==
    \/ \E h \in Producers : ProducerStart(h) \/ ProducerStep(h)
    \/ \E h \in Consumers : ConsumerStep(h)
    \/ \E f \in {"send", "recv"} : Closers # {} /\ CloseField(f)
    \/ \E h \in Closers : CloserStep(h)
    \/ \E p \in Participants : Die(p)
    \/ \E r \in Reapers : ReaperStep(r)
    \/ \E h \in Workers : Adopt(h)

Spec == Init /\ [][Next]_vars
----------------------------------------------------------------------------
(* Properties.                                                             *)

ProducerPcs == {"idle", "load", "own", "probe", "check", "admit", "commit", "undo",
                "reserved", "staged"}
ConsumerPcs == {"idle", "load", "look", "probe", "own", "check", "commit", "undo",
                "claimed", "recycle", "free"}
CloserPcs == {"idle", "scan"}
ReaperPcs == {"idle", "read", "mark", "act", "release", "turn", "store", "roles"}

PcOK ==
    /\ DOMAIN pc = Handles
    /\ \A h \in Producers : pc[h] \in ProducerPcs
    /\ \A h \in Consumers : pc[h] \in ConsumerPcs
    /\ \A h \in Closers : pc[h] \in CloserPcs
    /\ \A h \in Reapers : pc[h] \in ReaperPcs

\* The state is well typed; the words in the ring are ones canonical() admits.
TypeOK ==
    /\ head \in Cursor /\ tail \in Cursor
    /\ turn \in [Slots -> Cursor]
    /\ control \in [Slots -> Control]
    /\ \A i \in Slots : Canonical(control[i])
    /\ value \in [Slots -> Cursor]
    /\ gate \in [{"send", "recv"} -> {0, 1, 3}]
    /\ holder \in [{"send", "recv"} -> Participants \cup {NoOne}]
    /\ alive \subseteq Participants
    /\ PcOK
    /\ cur \in [Workers -> Cursor]
    /\ seen \in [Workers -> BOOLEAN]
    /\ at \in [Closers \cup Reapers -> 0 .. Capacity]
    /\ \A r \in Reapers : at[r] \in Slots
    /\ field \in [Closers -> {"send", "recv"}]
    /\ victim \in [Reapers -> Participants \cup {NoOne}]
    /\ word \in [Reapers -> Control]
    /\ settled \subseteq Cursor

\* the word in the slot of a handle that owns it
HeldBy(h) ==
    IF h \in Producers
    THEN Owned("PRODUCER", pc[h] = "staged", OwnerOf[h])
    ELSE Owned("CONSUMER", seen[h], OwnerOf[h])

Holds(h) ==
    \/ h \in Producers /\ pc[h] \in {"check", "admit", "commit", "undo", "reserved", "staged"}
    \/ h \in Consumers /\ pc[h] \in {"check", "commit", "undo", "claimed", "recycle", "free"}

\* Between the compare-exchange that owns a slot and the store that gives it
\* back, the slot of a running handle carries the handle's own word and no
\* other running handle is at the slot: reserve, claim, close and a repair for
\* somebody else never take a slot from its owner ("Control owns bytes before
\* either cursor moves", queue.rs).
SlotExclusion ==
    \A h \in Workers : Holds(h) /\ Runs(h) =>
        /\ control[SlotOf(h)] = HeldBy(h)
        /\ \A g \in Workers \ {h} : Holds(g) /\ Runs(g) => SlotOf(g) # SlotOf(h)

\* slot i holds a position that a sender committed and no receiver did
Committed(i) == \E p \in Pos(head) .. Pos(tail) - 1 : p % Capacity = i

\* The cursors enclose at most one lap; every committed slot carries the turn
\* of its position and is not free, every other slot is not available and
\* carries the turn of the position it will get next, or of its last one while
\* the receiver still recycles it.
RingShape ==
    /\ Pos(head) <= Pos(tail) /\ Pos(tail) <= Pos(head) + Capacity
    /\ \A i \in Slots :
         IF Committed(i)
         THEN /\ control[i].base # "EMPTY"
              /\ Pos(turn[i]) \in Pos(head) .. Pos(tail) - 1
         ELSE /\ control[i].base # "AVAILABLE"
              /\ \/ Pos(turn[i]) \in Pos(tail) .. Pos(head) + Capacity - 1
                 \/ /\ control[i].base = "CONSUMER"
                    /\ Pos(turn[i]) \in Pos(tail) - Capacity .. Pos(head) - 1

\* reserve answers Full only when the ring is full at that moment ("Shared
\* capacity is exhausted; receiver progress is required", queue.rs, TrySendError),
\* and claim answers Empty only when nothing is committed ("No committed item
\* exists", TryRecvError), although both compare a fresh cursor with an old one.
RefusalsAreTruthful ==
    [][/\ \A h \in Producers : ReserveFull(h) => tail = NextLap(head)
       /\ \A h \in Consumers : ClaimEmpty(h) => head = tail]_vars

\* A value reaches one receiver: Claim::take never returns a value that was
\* taken before, or that a repair released in the place of its dead sender.
NoRedelivery == [][\A h \in Consumers : Take(h) => value[SlotOf(h)] \notin settled]_vars

\* Claim::take returns the value staged at the position that was claimed, so a
\* late sender or a repair never replaces the bytes of a claimed slot.
TakesWhatWasStaged == \A h \in Consumers :
    pc[h] = "claimed" /\ Runs(h) => value[SlotOf(h)] = cur[h]

\* Rx::claim answers Closed when the send field is finished and the ring is
\* empty (Queue::terminal); nothing is ever committed after that.
Terminal == gate["send"] = 3 /\ head = tail
ClosedForGood == [][Terminal => tail' = tail]_vars

\* "terminal queue closure excludes later publication from the closed epoch"
\* (docs/architecture.md): once the send field is finished every admitted sender
\* has published, skipped, or been repaired.
ClosedSendersLeft ==
    gate["send"] = 3 => \A i \in Slots : Committed(i) => control[i].base # "PRODUCER"

\* A role is offered for adoption only when no word of the ring names the dead
\* participant any more, as owner or as a reaper that died in turn.
RepairIsComplete == \A r \in Reapers : pc[r] = "roles" =>
    \A i \in Slots : victim[r] \notin {control[i].source, control[i].reaper}

\* A repair only ever stores over a word of a dead participant that it marked
\* itself: two repairs of one slot, or a repair and the slot's next owner, never
\* overwrite each other.
RepairStoresOwnMark ==
    [][\A r \in Reapers : Runs(r) /\ RepairStore(r) =>
          control[at[r]].source \notin alive /\ control[at[r]].reaper = OwnerOf[r]]_vars

\* A position that a sender committed stays claimable: its slot is never free
\* before a receiver commits it.  On a free slot claim answers Busy, of which
\* queue.rs says "Local retry may progress without sender action".
CommittedStaysClaimable == \A i \in Slots : Committed(i) => control[i].base # "EMPTY"

----------------------------------------------------------------------------
(* The ring implements the abstract line of positions.                     *)

\* the position slot i had before the committed window
LastPos(i) == CHOOSE p \in Pos(head) - Capacity .. Pos(head) - 1 : p % Capacity = i

StageOf(w) ==
    CASE w.base = "PRODUCER" -> "reserved"
      [] w.base # "PRODUCER" /\ w.complete -> "ready"
      [] OTHER -> "skipped"

abstractLine ==
    [k \in 1 .. Pos(tail) - Pos(head) |-> StageOf(control[(Pos(head) + k - 1) % Capacity])]

abstractOut ==
    {LastPos(i) : i \in {j \in Slots : ~Committed(j) /\ control[j].base = "CONSUMER"}}

Abstract == INSTANCE Fifo
    WITH first <- Pos(head), line <- abstractLine, out <- abstractOut,
         closed <- gate["send"] = 3

\* Senders and receivers see a bounded first-in first-out line: every step of
\* reserve, claim, publish, skip, recycle, close and repair is a step of Fifo or
\* none.
ImplementsFifo == Abstract!FifoSpec

----------------------------------------------------------------------------
(* Liveness: every call that began runs on, receivers keep calling claim;  *)
(* nothing obliges a sender to begin, and a sender may stage or skip.      *)

Fairness ==
    /\ \A h \in Producers : WF_vars(ProducerStep(h))
    /\ \A h \in Consumers : WF_vars(ConsumerStep(h))

FairSpec == Spec /\ Fairness

\* Every committed position is taken by a receiver, unless the receiving end is
\* closed: claims that meet Busy, undo each other or drop skipped positions never
\* retry for ever.  (With MaxPos positions the ring is drained in the end if and
\* only if each of them is claimed.)
EveryPositionIsClaimed == head # tail ~> head = tail \/ gate["recv"] # 0
----------------------------------------------------------------------------
(* What makes SlotExclusion, RepairStoresOwnMark and RepairIsComplete      *)
(* inductive.                                                              *)

Idle(h) == pc[h] = "idle"

\* no two repairing handles run in one participant
OneReaperEach == \A q, r \in Reapers : OwnerOf[q] = OwnerOf[r] => q = r

\* only words of the dead carry a reaper
MarkedIsDead == \A i \in Slots : control[i].reaper # NoOne => control[i].source \notin alive

VictimIsDead == \A r \in Reapers : ~Idle(r) => victim[r] \in Participants \ alive

\* a reaper is about to mark a dead owner's word that no living reaper marked
ReadyToMark == \A r \in Reapers : pc[r] = "mark" =>
    /\ word[r].base \in {"PRODUCER", "CONSUMER"}
    /\ word[r].source \in Participants \ alive
    /\ word[r].reaper \notin alive

\* from its mark to its store a running reaper owns the slot
Repairing == \A r \in Reapers : Runs(r) /\ pc[r] \in {"act", "release", "turn", "store"} =>
    /\ control[at[r]].source \in Participants \ alive
    /\ control[at[r]].reaper = OwnerOf[r]

Resolved == \A r \in Reapers : pc[r] \in {"release", "turn", "store"} =>
    word[r] \in {Empty, Available(TRUE), Available(FALSE)}

\* the slots behind a reaper do not name its victim
Cleared == \A r \in Reapers, i \in Slots :
    ~Idle(r) /\ (i < at[r] \/ pc[r] = "roles") =>
        control[i].source # victim[r] /\ control[i].reaper # victim[r]

QueueInv ==
    /\ TypeOK /\ SlotExclusion /\ MarkedIsDead /\ VictimIsDead
    /\ ReadyToMark /\ Repairing /\ Resolved /\ Cleared
=============================================================================
