----------------------------- MODULE RingProofs -----------------------------
(***************************************************************************)
(* Proofs about the positions of the ring of Queue, for any number of      *)
(* participants, handles and slots: its shape, what refusals mean, that    *)
(* values arrive once and as they were staged, and what closing excludes.  *)
(*                                                                         *)
(* They hold with deaths and repairs as well, unless a participant dies in *)
(* one of three windows (DiesOutside).  What happens in them is shown by   *)
(* the runs queue_redelivery and queue_stale_claim.                        *)
(***************************************************************************)
EXTENDS RingStepProofs

-----------------------------------------------------------------------------
(* Steps of closers, admissions and deaths.                                *)

\* What a step that changes no slot and moves no worker and no reaper leaves alone.
LEMMA SideKeeps ==
    ASSUME RingInv, UNCHANGED <<ring, alive, cur, seen, word, settled>>,
           \A g \in Workers \cup Reapers : pc'[g] = pc[g],
           \A r \in Reapers : at'[r] = at[r]
    PROVE  /\ \A i \in Slots : Clear(i)' <=> Clear(i)
           /\ (\A k \in Closers : CloserFits(k)') /\ Shut' => RingInv'
  <1>1. /\ head' = head /\ tail' = tail /\ turn' = turn /\ control' = control /\ value' = value
        /\ alive' = alive /\ cur' = cur /\ seen' = seen /\ word' = word /\ settled' = settled
    BY Zenon DEF ring
  <1>2. ASSUME NEW i \in Slots PROVE Clear(i)' <=> Clear(i)
    BY Zenon, <1>1 DEF Clear, Held, Runs, SlotOf, Workers
  <1>3. ASSUME NEW i \in Slots PROVE SlotFits(i)' /\ Unsettled(i)' /\ DeadFits(i)'
    <2>1. SlotFits(i) /\ Unsettled(i) /\ DeadFits(i)
      BY Zenon DEF RingInv
    <2>2. SlotFits(i)' /\ Unsettled(i)'
      BY Zenon, <1>1, <2>1 DEF SlotFits, Unsettled, Held, Current, Prior
    <2>3. Freeing(i) => Freeing(i)'
      BY Zenon, <1>1 DEF Freeing, Runs
    <2> QED
      BY Zenon, <1>1, <2>1, <2>2, <2>3 DEF DeadFits, Held, Prior
  <1>4. ASSUME NEW h \in Producers, Runs(h)' PROVE ProducerFits(h)'
    <2>1. ProducerFits(h) /\ pc'[h] = pc[h]
      BY Zenon, <1>1, <1>4 DEF RingInv, Runs, Workers
    <2> QED
      BY Zenon, <1>1, <2>1 DEF ProducerFits, SlotOf, Held
  <1>5. ASSUME NEW h \in Consumers, Runs(h)' PROVE ConsumerFits(h)'
    <2>1. ConsumerFits(h) /\ pc'[h] = pc[h]
      BY Zenon, <1>1, <1>5 DEF RingInv, Runs, Workers
    <2> QED
      BY Zenon, <1>1, <2>1 DEF ConsumerFits, SlotOf, Held, Prior, Current
  <1>6. ASSUME NEW r \in Reapers, Runs(r)' PROVE ReaperFits(r)'
    <2>1. ReaperFits(r) /\ pc'[r] = pc[r] /\ at'[r] = at[r]
      BY Zenon, <1>1, <1>6 DEF RingInv, Runs
    <2> QED
      BY Zenon, <1>1, <2>1 DEF ReaperFits, Held, Prior, Current
  <1>7. Past'
    BY Zenon, <1>1 DEF RingInv, Past
  <1> QED
    BY Zenon, <1>2, <1>3, <1>4, <1>5, <1>6, <1>7 DEF RingInv

\* Beginning to close a field keeps the invariant of the ring.
LEMMA CloseKeepsRing ==
    ASSUME TypeOK, RingInv, NEW f \in {"send", "recv"}, CloseField(f)
    PROVE  RingInv'
  <1>1. /\ \A g \in {"send", "recv"} \ {f} : gate'[g] = gate[g]
        /\ gate'[f] = 1
    BY Zenon DEF CloseField, TypeOK
  <1>2. \A i \in Slots : Clear(i)' <=> Clear(i)
    BY Zenon, SideKeeps DEF CloseField, repairState
  <1>3. ASSUME NEW k \in Closers PROVE CloserFits(k)'
    <2>1. CloserFits(k) /\ field[k] \in {"send", "recv"}
      BY Zenon DEF RingInv, TypeOK
    <2>2. gate[field[k]] # 0 => gate'[field[k]] # 0
      BY <1>1, <2>1
    <2> QED
      BY Zenon, <1>2, <2>1, <2>2 DEF CloserFits, CloseField
  <1>4. Shut'
    <2>1. gate'["send"] = 3 => gate["send"] = 3
      BY <1>1
    <2> QED
      BY Zenon, <1>2, <2>1 DEF RingInv, Shut
  <1> QED
    BY Zenon, <1>3, <1>4, SideKeeps DEF CloseField, repairState

\* Every step of a closer keeps the invariant of the ring: a slot it passes is clear,
\* and stays so while the field is closing.
LEMMA CloserKeepsRing ==
    ASSUME QueueInv, RingInv, NEW k \in Closers, CloserStep(k)
    PROVE  RingInv'
  <1>0. /\ TypeOK /\ k \notin Workers /\ k \notin Reapers /\ k \in Handles
        /\ at[k] \in 0 .. Capacity /\ field[k] \in {"send", "recv"} /\ Capacity \in Nat
    BY Zenon, QueueAssumption DEF QueueInv, TypeOK, Handles
  <1>1. UNCHANGED <<ring, alive, cur, seen, word, settled>>
    BY Zenon DEF CloserStep, FinishStart, FinishScan, FinishSet, repairState
  <1>2. ASSUME NEW there, Goto(k, pc[k], there)
        PROVE  pc'[k] = there /\ \A g \in Handles \ {k} : pc'[g] = pc[g]
    BY <1>0, <1>2 DEF Goto, TypeOK, PcOK
  <1>3. (pc' = pc \/ \E there : Goto(k, pc[k], there)) /\ \E n : at' = [at EXCEPT ![k] = n]
    BY Zenon DEF CloserStep, FinishStart, FinishScan, FinishSet, Goto
  <1>4. \A g \in Handles \ {k} : pc'[g] = pc[g]
    BY Zenon, <1>2, <1>3
  <1>5. \A g \in (Closers \cup Reapers) \ {k} : at'[g] = at[g]
    BY Zenon, <1>3 DEF QueueInv, TypeOK
  <1>6. /\ \A g \in Workers \cup Reapers : pc'[g] = pc[g]
        /\ \A r \in Reapers : at'[r] = at[r]
    BY Zenon, <1>0, <1>4, <1>5 DEF Handles
  <1>7. \A i \in Slots : Clear(i)' <=> Clear(i)
    BY Zenon, <1>1, <1>6, SideKeeps
  <1>8. ASSUME gate' = gate, CloserFits(k)', \A q \in Closers \ {k} : field'[q] = field[q]
        PROVE  RingInv'
    <2>1. ASSUME NEW q \in Closers \ {k} PROVE CloserFits(q)'
      <3>1. CloserFits(q) /\ pc'[q] = pc[q] /\ at'[q] = at[q] /\ field'[q] = field[q]
        BY Zenon, <1>4, <1>5, <1>8 DEF RingInv, Handles
      <3> QED
        BY Zenon, <1>7, <1>8, <3>1 DEF CloserFits
    <2>2. Shut'
      BY Zenon, <1>7, <1>8 DEF RingInv, Shut
    <2> QED
      BY Zenon, <1>1, <1>6, <1>8, <2>1, <2>2, SideKeeps
  <1>9. ASSUME NEW f \in {"send", "recv"}, FinishStart(k, f) PROVE RingInv'
    <2>1. field'[k] = f /\ at'[k] = 0 /\ \A q \in Closers \ {k} : field'[q] = field[q]
      BY Zenon, <1>0, <1>9 DEF FinishStart, TypeOK
    <2>2. gate' = gate /\ gate'[f] # 0
      BY <1>9 DEF FinishStart
    <2>3. \A i \in Slots : ~(i < 0)
      BY DEF Slots
    <2>4. CloserFits(k)'
      BY Zenon, <2>1, <2>2, <2>3 DEF CloserFits
    <2> QED
      BY Zenon, <1>8, <2>1, <2>2, <2>4
  <1>10. CASE FinishScan(k)
    <2>1. gate' = gate /\ field' = field /\ pc[k] = "scan" /\ at[k] \in Slots
      BY <1>0, <1>10 DEF FinishScan, Goto, Slots
    <2>2. CASE control[at[k]].base = OwnedBase(field[k])
      <3>1. Goto(k, pc[k], "idle")
        BY Zenon, <1>10, <2>2 DEF FinishScan, Goto
      <3>2. pc'[k] = "idle"
        BY Zenon, <1>2, <3>1
      <3>3. CloserFits(k)'
        BY Zenon, <3>2 DEF CloserFits
      <3> QED
        BY Zenon, <1>8, <2>1, <3>3
    <2>3. CASE control[at[k]].base # OwnedBase(field[k])
      <3>1. at'[k] = at[k] + 1
        BY <1>0, <1>10, <2>3 DEF FinishScan, TypeOK
      <3>2. CloserFits(k)
        BY Zenon DEF RingInv
      <3>3. ASSUME field[k] = "send" PROVE Clear(at[k])
        <4>1. control[at[k]].base # "PRODUCER"
          BY Zenon, <2>3, <3>3 DEF OwnedBase
        <4>2. ASSUME NEW h \in Producers, Runs(h), pc[h] = "commit" PROVE SlotOf(h) # at[k]
          <5>1. h \in Workers /\ Holds(h)
            BY Zenon, <4>2 DEF Workers, Holds
          <5> QED
            BY Zenon, <4>1, <4>2, <5>1, OwnWord
        <4> QED
          BY Zenon, <4>1, <4>2 DEF Clear
      <3>4. \A i \in Slots : i < at'[k] => i < at[k] \/ i = at[k]
        BY <1>0, <3>1 DEF Slots
      <3>5. CloserFits(k)'
        BY Zenon, <1>7, <2>1, <3>2, <3>3, <3>4 DEF CloserFits
      <3> QED
        BY Zenon, <1>8, <2>1, <3>5
    <2> QED
      BY Zenon, <2>2, <2>3
  <1>11. CASE FinishSet(k)
    <2>1. /\ pc[k] = "scan" /\ field' = field /\ at[k] = Capacity
          /\ gate'[field[k]] = 3
          /\ \A f \in {"send", "recv"} \ {field[k]} : gate'[f] = gate[f]
      BY Zenon, <1>0, <1>11 DEF FinishSet, Goto, TypeOK
    <2>2. pc'[k] = "idle"
      BY Zenon, <1>2, <1>11 DEF FinishSet, Goto
    <2>3. ASSUME field[k] = "send" PROVE \A i \in Slots : Clear(i)
      <3>1. \A i \in Slots : i < Capacity
        BY <1>0 DEF Slots
      <3> QED
        BY Zenon, <2>1, <2>3, <3>1 DEF RingInv, CloserFits
    <2>4. Shut'
      <3>1. gate'["send"] = 3 => field[k] = "send" \/ gate["send"] = 3
        BY Zenon, <2>1
      <3> QED
        BY Zenon, <1>7, <2>3, <3>1 DEF RingInv, Shut
    <2>5. ASSUME NEW q \in Closers PROVE CloserFits(q)'
      <3>1. CASE q = k
        BY Zenon, <2>2, <3>1 DEF CloserFits
      <3>2. CASE q # k
        <4>1. /\ CloserFits(q) /\ pc'[q] = pc[q] /\ at'[q] = at[q]
              /\ field[q] \in {"send", "recv"}
          BY Zenon, <1>0, <1>4, <1>5, <3>2 DEF RingInv, Handles, TypeOK
        <4>2. gate[field[q]] # 0 => gate'[field[q]] # 0
          BY <2>1, <4>1
        <4> QED
          BY Zenon, <1>7, <2>1, <4>1, <4>2 DEF CloserFits
      <3> QED
        BY Zenon, <3>1, <3>2
    <2> QED
      BY Zenon, <1>1, <1>6, <2>4, <2>5, SideKeeps
  <1> QED
    BY Zenon, <1>9, <1>10, <1>11 DEF CloserStep

\* Being admitted to a role, or no step at all, keeps the invariant of the ring.
LEMMA RestKeepsRing ==
    ASSUME RingInv, UNCHANGED vars \/ \E h \in Workers : Adopt(h)
    PROVE  RingInv'
  <1>1. UNCHANGED <<ring, gate, alive, pc, cur, seen, at, field, word, settled>>
    BY Zenon DEF vars, Adopt, repairState
  <1>2. \A i \in Slots : Clear(i)' <=> Clear(i)
    BY Zenon, <1>1, SideKeeps
  <1>3. (\A k \in Closers : CloserFits(k)') /\ Shut'
    BY Zenon, <1>1, <1>2 DEF RingInv, CloserFits, Shut
  <1> QED
    BY Zenon, <1>1, <1>3, SideKeeps
\* every claimed slot of a running receiver is in the hands of one of its calls
Manned ==
    \A i \in Slots : control[i].base = "CONSUMER" /\ control[i].source \in alive =>
        \E h \in Consumers : Runs(h) /\ Holds(h) /\ SlotOf(h) = i

\* A step of a worker, which writes at most the word of the slot it is at.
LEMMA WorkerMans ==
    ASSUME Manned, NEW h \in Workers, Runs(h), Moves(h), NEW i \in Slots, i = SlotOf(h),
           \A j \in Slots \ {i} : control'[j] = control[j],
           \/ h \in Consumers /\ Holds(h)' /\ SlotOf(h)' = i
           \/ control'[i].base # "CONSUMER"
           \/ control'[i] = control[i] /\ ~(h \in Consumers /\ Holds(h))
    PROVE  Manned'
  <1> SUFFICES ASSUME NEW j \in Slots, control'[j].base = "CONSUMER", control'[j].source \in alive'
               PROVE  \E g \in Consumers : Runs(g)' /\ Holds(g)' /\ SlotOf(g)' = j
    BY Zenon DEF Manned
  <1>1. alive' = alive /\ Runs(h)'
    BY Zenon DEF Moves, Runs
  <1>2. CASE j = i /\ h \in Consumers /\ Holds(h)' /\ SlotOf(h)' = i
    BY Zenon, <1>1, <1>2
  <1>3. CASE control'[j] = control[j] /\ (j = i => ~(h \in Consumers /\ Holds(h)))
    <2>1. PICK g \in Consumers : Runs(g) /\ Holds(g) /\ SlotOf(g) = j
      BY Zenon, <1>1, <1>3 DEF Manned
    <2>2. g # h
      BY Zenon, <1>3, <2>1
    <2>3. pc'[g] = pc[g] /\ cur'[g] = cur[g]
      BY Zenon, <2>2 DEF Moves, Handles, Workers
    <2>4. Runs(g)' /\ Holds(g)' /\ SlotOf(g)' = j
      BY Zenon, <1>1, <2>1, <2>3 DEF Runs, Holds, SlotOf
    <2> QED
      BY Zenon, <2>4
  <1> QED
    BY Zenon, <1>2, <1>3

\* A sender owns no claimed slot.
LEMMA SenderMans ==
    ASSUME QueueInv, Manned, NEW h \in Producers, ProducerStart(h) \/ ProducerStep(h)
    PROVE  Manned'
  <1> PICK i \in Slots : i = SlotOf(h)
    BY Zenon, CursorParts DEF QueueInv, TypeOK, SlotOf, Workers
  <1>0. TypeOK /\ h \in Workers /\ h \notin Consumers /\ Runs(h) /\ Elsewhere /\ SlotOf(h) = i
    BY Zenon, QueueAssumption DEF ProducerStart, ProducerStep, QueueInv, Workers
  <1>1. \/ control' = control
        \/ \E w : SetControl(i, w) /\ w.base # "CONSUMER"
    <2>1. ring' = ring => control' = control
      BY Zenon DEF ring
    <2>2. /\ Empty.base # "CONSUMER"
          /\ \A b : Available(b).base # "CONSUMER" /\ Owned("PRODUCER", b, OwnerOf[h]).base # "CONSUMER"
      BY Zenon, WordBits
    <2> QED
      BY Zenon, <1>0, <2>1, <2>2
      DEF ProducerStart, ProducerStep, ReserveStart, ReserveLoad, ReserveOwn, ReserveFull,
          ReserveBusy, ReserveCheck, ReserveAdmit, ReserveCommit, ReserveUndo, Stage, Publish, Skip
  <1>2. /\ \A j \in Slots \ {i} : control'[j] = control[j]
        /\ control'[i].base # "CONSUMER" \/ control'[i] = control[i]
    BY Zenon, <1>0, <1>1 DEF SetControl, TypeOK
  <1>3. Moves(h)
    <2>1. \E here, there : Goto(h, here, there)
      BY Zenon DEF ProducerStart, ProducerStep, ReserveStart, ReserveLoad, ReserveOwn, ReserveFull,
          ReserveBusy, ReserveCheck, ReserveAdmit, ReserveCommit, ReserveUndo, Stage, Publish, Skip,
          Return
    <2>2. /\ cur' = cur \/ \E c : cur' = [cur EXCEPT ![h] = c]
          /\ seen' = seen \/ \E b : seen' = [seen EXCEPT ![h] = b]
      BY Zenon DEF ProducerStart, ProducerStep, ReserveStart, ReserveLoad, ReserveOwn, ReserveFull,
          ReserveBusy, ReserveCheck, ReserveAdmit, ReserveCommit, ReserveUndo, Stage, Publish, Skip,
          Return
    <2>3. \A g \in Workers \ {h} : cur'[g] = cur[g] /\ seen'[g] = seen[g]
      BY Zenon, <1>0, <2>2 DEF TypeOK
    <2> QED
      BY Zenon, <1>0, <2>1, <2>3, Jumps
  <1> QED
    BY Zenon, <1>0, <1>2, <1>3, WorkerMans

\* The call of a receiver stays at the slot it owns until it gives it back.
LEMMA ReceiverMans ==
    ASSUME QueueInv, Manned, NEW h \in Consumers, ConsumerStep(h)
    PROVE  Manned'
  <1> PICK i \in Slots : i = SlotOf(h)
    BY Zenon, CursorParts DEF QueueInv, TypeOK, SlotOf, Workers
  <1>0. TypeOK /\ h \in Workers /\ h \notin Producers /\ Runs(h) /\ Elsewhere /\ SlotOf(h) = i
    BY Zenon, QueueAssumption DEF ConsumerStep, QueueInv, Workers
  <1>1. PICK here, there : Goto(h, here, there)
    BY Zenon DEF ConsumerStep, ClaimStart, ClaimLoad, ClaimLook, ClaimEmpty, ClaimBusy, ClaimOwn,
        ClaimCheck, ClaimCommit, ClaimUndo, Take, RecycleTurn, RecycleFree, Return
  <1>2. Moves(h)
    <2>1. /\ cur' = cur \/ \E c : cur' = [cur EXCEPT ![h] = c]
          /\ seen' = seen \/ \E b : seen' = [seen EXCEPT ![h] = b]
      BY Zenon DEF ConsumerStep, ClaimStart, ClaimLoad, ClaimLook, ClaimEmpty, ClaimBusy, ClaimOwn,
          ClaimCheck, ClaimCommit, ClaimUndo, Take, RecycleTurn, RecycleFree, Return
    <2>2. \A g \in Workers \ {h} : cur'[g] = cur[g] /\ seen'[g] = seen[g]
      BY Zenon, <1>0, <2>1 DEF TypeOK
    <2> QED
      BY Zenon, <1>0, <1>1, <2>2, Jumps
  <1>3. \A x, y : Goto(h, x, y) => pc[h] = x /\ pc'[h] = y
    BY Zenon, <1>0, Jumps
  <1>4. ASSUME control' = control, ~Holds(h) PROVE Manned'
    BY Zenon, <1>0, <1>2, <1>4, WorkerMans
  <1>5. ASSUME control' = control, cur' = cur, Holds(h)' PROVE Manned'
    BY Zenon, <1>0, <1>2, <1>5, WorkerMans DEF SlotOf
  <1>6. ASSUME NEW w, SetControl(i, w), w.base # "CONSUMER" \/ (Holds(h)' /\ cur' = cur)
        PROVE  Manned'
    <2>1. control'[i] = w /\ \A j \in Slots \ {i} : control'[j] = control[j]
      BY Zenon, <1>0, <1>6 DEF SetControl, TypeOK
    <2> QED
      BY Zenon, <1>0, <1>2, <1>6, <2>1, WorkerMans DEF SlotOf
  <1>7. UNCHANGED ring => control' = control
    BY Zenon DEF ring
  <1>8. CASE ClaimStart(h) \/ ClaimLoad(h) \/ ClaimLook(h) \/ ClaimEmpty(h) \/ ClaimBusy(h)
    <2>1. pc[h] \in {"idle", "load", "look", "probe"}
      BY Zenon, <1>3, <1>8 DEF ClaimStart, ClaimLoad, ClaimLook, ClaimEmpty, ClaimBusy, Return
    <2>2. ~Holds(h)
      BY Zenon, <1>0, <2>1 DEF Holds
    <2> QED
      BY Zenon, <1>4, <1>7, <1>8, <2>2
      DEF ClaimStart, ClaimLoad, ClaimLook, ClaimEmpty, ClaimBusy
  <1>9. CASE ClaimOwn(h)
    <2>1. CASE control' = control /\ pc[h] = "own"
      <3>1. ~Holds(h)
        BY Zenon, <1>0, <2>1 DEF Holds
      <3> QED
        BY Zenon, <1>4, <2>1, <3>1
    <2>2. CASE /\ Goto(h, "own", "check") /\ cur' = cur
               /\ SetControl(i, Owned("CONSUMER", seen[h], OwnerOf[h]))
      <3>1. Holds(h)'
        BY Zenon, <1>3, <2>2 DEF Holds
      <3> QED
        BY Zenon, <1>6, <2>2, <3>1
    <2> QED
      BY Zenon, <1>0, <1>3, <1>9, <2>1, <2>2 DEF ClaimOwn, Return
  <1>10. CASE ClaimCheck(h) \/ ClaimCommit(h) \/ Take(h) \/ RecycleTurn(h)
    <2>1. pc'[h] \in {"commit", "undo", "claimed", "recycle", "free"}
      BY Zenon, <1>3, <1>10 DEF ClaimCheck, ClaimCommit, Take, RecycleTurn
    <2>2. Holds(h)'
      BY Zenon, <2>1 DEF Holds
    <2> QED
      BY Zenon, <1>5, <1>7, <1>10, <2>2 DEF ClaimCheck, ClaimCommit, Take, RecycleTurn
  <1>11. CASE ClaimUndo(h) \/ RecycleFree(h)
    BY Zenon, <1>0, <1>6, <1>11, WordBits DEF ClaimUndo, RecycleFree
  <1> QED
    BY Zenon, <1>8, <1>9, <1>10, <1>11 DEF ConsumerStep

\* What reapers write are not claims of running receivers; a step that writes no word
\* and moves no receiver changes nothing.
LEMMA OthersMan ==
    ASSUME Manned, alive' = alive, cur' = cur, \A g \in Consumers : pc'[g] = pc[g],
           \A j \in Slots : \/ control'[j] = control[j]
                            \/ control'[j].base # "CONSUMER"
                            \/ control'[j].source \notin alive
    PROVE  Manned'
  <1>1. ASSUME NEW g \in Consumers, Runs(g), Holds(g)
        PROVE  Runs(g)' /\ Holds(g)' /\ SlotOf(g)' = SlotOf(g)
    BY Zenon, <1>1 DEF Runs, Holds, SlotOf
  <1> QED
    BY Zenon, <1>1 DEF Manned
\* A step of a reaper writes no claim of a running receiver.
LEMMA ReaperMans ==
    ASSUME QueueInv, Manned, NEW r \in Reapers, ReaperStep(r)
    PROVE  Manned'
  <1> PICK i \in Slots : i = at[r]
    BY Zenon DEF QueueInv, TypeOK
  <1>0. TypeOK /\ alive' = alive /\ cur' = cur /\ at[r] = i
    BY Zenon DEF ReaperStep, QueueInv
  <1>1. PICK here, there : Goto(r, here, there)
    BY Zenon DEF ReaperStep, RepairStart, RepairNone, RepairBusy, RepairRead, RepairMark,
        RepairProducer, RepairConsumer, RepairCorrupted, RepairRelease, RepairTurn, RepairStore,
        RecoverRoles, Resolve, Stop, Advance
  <1>2. \A x, y : Goto(r, x, y) => pc[r] = x
    BY Zenon DEF Goto
  <1>3. \A g \in Consumers : pc'[g] = pc[g]
    <2>1. r \in Handles /\ r \notin Consumers /\ DOMAIN pc = Handles
      BY Zenon, QueueAssumption DEF QueueInv, TypeOK, PcOK, Handles, Workers
    <2>2. \A g \in Consumers : g \in Handles
      BY Zenon DEF Handles, Workers
    <2> QED
      BY <1>1, <2>1, <2>2 DEF Goto
  <1>4. \/ control' = control
        \/ RepairMark(r) /\ control[i] = word[r]
        \/ RepairStore(r)
    <2>1. UNCHANGED ring => control' = control
      BY Zenon DEF ring
    <2> QED
      BY Zenon, <1>0, <2>1
      DEF ReaperStep, RepairStart, RepairNone, RepairBusy, RepairRead, RepairMark,
        RepairProducer, RepairConsumer, RepairCorrupted, RepairRelease, RepairTurn, RepairStore,
        RecoverRoles, Resolve
  <1>5. CASE control' = control
    BY Zenon, <1>0, <1>3, <1>5, OthersMan
  <1>6. CASE RepairMark(r) /\ control[i] = word[r]
    <2>1. pc[r] = "mark" /\ SetControl(i, [word[r] EXCEPT !.reaper = OwnerOf[r]])
      BY Zenon, <1>0, <1>2, <1>6 DEF RepairMark
    <2>2. word[r].source \notin alive /\ word[r] \in Control
      BY Zenon, <2>1 DEF QueueInv, ReadyToMark, TypeOK
    <2>3. [word[r] EXCEPT !.reaper = OwnerOf[r]].source = word[r].source
      BY <2>2 DEF Control
    <2>4. \A j \in Slots : control'[j] = control[j] \/ control'[j].source \notin alive
      BY Zenon, <1>0, <2>1, <2>2, <2>3 DEF SetControl, TypeOK
    <2> QED
      BY Zenon, <1>0, <1>3, <2>4, OthersMan
  <1>7. CASE RepairStore(r)
    <2>1. pc[r] = "store" /\ SetControl(i, word[r])
      BY Zenon, <1>0, <1>2, <1>7 DEF RepairStore, Advance
    <2>2. word[r].base # "CONSUMER"
      BY Zenon, <2>1, WordBits DEF QueueInv, Resolved
    <2>3. \A j \in Slots : control'[j] = control[j] \/ control'[j].base # "CONSUMER"
      BY Zenon, <1>0, <2>1, <2>2 DEF SetControl, TypeOK
    <2> QED
      BY Zenon, <1>0, <1>3, <2>3, OthersMan
  <1> QED
    BY Zenon, <1>4, <1>5, <1>6, <1>7

\* A death outside the windows leaves words from which repair can tell what to do.
LEMMA DieKeepsRing ==
    ASSUME QueueInv, RingInv, Manned, NEW p \in Participants, Die(p), DiesOutside
    PROVE  RingInv' /\ Manned'
  <1>0. /\ p \in alive /\ p \notin alive' /\ alive' \subseteq alive
        /\ \A q \in alive : q # p => q \in alive'
    BY Zenon DEF Die
  <1>1. Outside(p)
    BY Zenon, <1>0 DEF DiesOutside
  <1>2. /\ head' = head /\ tail' = tail /\ turn' = turn /\ control' = control /\ value' = value
        /\ gate' = gate /\ pc' = pc /\ cur' = cur /\ seen' = seen /\ at' = at /\ field' = field
        /\ word' = word /\ settled' = settled
    BY Zenon DEF Die, ring, repairState
  <1>3. \A h : Runs(h)' => Runs(h)
    BY Zenon, <1>0 DEF Runs
  <1>4. ASSUME NEW i \in Slots, control[i].base = "CONSUMER", control[i].source \in alive
        PROVE  \E h \in Consumers : /\ Runs(h) /\ Holds(h) /\ SlotOf(h) = i
                                    /\ OwnerOf[h] = control[i].source
    <2>1. PICK h \in Consumers : Runs(h) /\ Holds(h) /\ SlotOf(h) = i
      BY Zenon, <1>4 DEF Manned
    <2> QED
      BY Zenon, <2>1, OwnKind, OwnWord
  <1>5. Manned'
    <2> SUFFICES ASSUME NEW i \in Slots, control[i].base = "CONSUMER", control[i].source \in alive'
                 PROVE  \E h \in Consumers : Runs(h)' /\ Holds(h)' /\ SlotOf(h)' = i
      BY Zenon, <1>2 DEF Manned
    <2>1. PICK h \in Consumers : /\ Holds(h) /\ SlotOf(h) = i /\ OwnerOf[h] = control[i].source
      BY Zenon, <1>0, <1>4
    <2> QED
      BY Zenon, <1>2, <2>1 DEF Runs, Holds, SlotOf
  <1>6. ASSUME NEW i \in Slots PROVE DeadFits(i)'
    <2> SUFFICES ASSUME control[i].base = "CONSUMER", control[i].source \notin alive'
                 PROVE  (Held(i) /\ turn[i] = head) \/ (~Held(i) /\ (Prior(i) \/ Freeing(i)'))
      BY Zenon, <1>2 DEF DeadFits, Held, Prior
    <2>1. DeadFits(i)
      BY Zenon DEF RingInv
    <2>2. ASSUME Freeing(i) PROVE Freeing(i)'
      <3>1. PICK r \in Reapers : Runs(r) /\ pc[r] = "store" /\ at[r] = i /\ word[r] = Empty
        BY Zenon, <2>2 DEF Freeing
      <3>2. OwnerOf[r] # p
        BY Zenon, <1>1, <3>1 DEF Outside
      <3>3. Runs(r)'
        BY Zenon, <1>0, <3>1, <3>2 DEF Runs
      <3> QED
        BY Zenon, <1>2, <3>1, <3>3 DEF Freeing
    <2>3. CASE control[i].source \notin alive
      BY Zenon, <2>1, <2>2, <2>3 DEF DeadFits
    <2>4. CASE control[i].source \in alive
      <3>1. PICK h \in Consumers : /\ Runs(h) /\ Holds(h) /\ SlotOf(h) = i
                                   /\ OwnerOf[h] = control[i].source
        BY Zenon, <1>4, <2>4
      <3>2. OwnerOf[h] = p
        BY Zenon, <1>0, <2>4, <3>1
      <3>3. ConsumerFits(h)
        BY Zenon, <3>1 DEF RingInv
      <3>4. pc[h] \in {"check", "commit", "undo", "claimed", "recycle"}
        BY Zenon, <1>1, <3>1, <3>2, QueueAssumption DEF Outside, Holds
      <3>5. CASE pc[h] \in {"check", "undo"}
        BY Zenon, <1>1, <3>1, <3>2, <3>3, <3>5 DEF Outside, ConsumerFits
      <3>6. CASE pc[h] = "commit"
        BY Zenon, <3>1, <3>3, <3>6 DEF ConsumerFits
      <3>7. CASE pc[h] \in {"claimed", "recycle"}
        BY Zenon, <3>1, <3>3, <3>7 DEF ConsumerFits
      <3> QED
        BY Zenon, <3>4, <3>5, <3>6, <3>7
    <2> QED
      BY Zenon, <2>3, <2>4
  <1>7. ASSUME NEW i \in Slots PROVE SlotFits(i)' /\ Unsettled(i)'
    <2>1. SlotFits(i) /\ Unsettled(i)
      BY Zenon DEF RingInv
    <2> QED
      BY Zenon, <1>0, <1>2, <2>1 DEF SlotFits, Unsettled, Held, Current, Prior
  <1>8. ASSUME NEW h \in Producers, Runs(h)' PROVE ProducerFits(h)'
    <2>1. ProducerFits(h)
      BY Zenon, <1>3, <1>8 DEF RingInv
    <2> QED
      BY Zenon, <1>2, <2>1 DEF ProducerFits, SlotOf, Held
  <1>9. ASSUME NEW h \in Consumers, Runs(h)' PROVE ConsumerFits(h)'
    <2>1. ConsumerFits(h)
      BY Zenon, <1>3, <1>9 DEF RingInv
    <2> QED
      BY Zenon, <1>2, <2>1 DEF ConsumerFits, SlotOf, Held, Prior, Current
  <1>10. ASSUME NEW r \in Reapers, Runs(r)' PROVE ReaperFits(r)'
    <2>1. ReaperFits(r)
      BY Zenon, <1>3, <1>10 DEF RingInv
    <2> QED
      BY Zenon, <1>2, <2>1 DEF ReaperFits, Held, Prior, Current
  <1>11. ASSUME NEW i \in Slots, Clear(i) PROVE Clear(i)'
    BY Zenon, <1>2, <1>3, <1>11 DEF Clear, Held, SlotOf
  <1>12. (\A k \in Closers : CloserFits(k)') /\ Shut' /\ Past'
    BY Zenon, <1>2, <1>11 DEF RingInv, CloserFits, Shut, Past
  <1> QED
    BY Zenon, <1>5, <1>6, <1>7, <1>8, <1>9, <1>10, <1>12 DEF RingInv
-----------------------------------------------------------------------------
(* The inductive invariant.                                                *)

Invariant == QueueInv /\ RingInv /\ Manned

\* The initial state satisfies the inductive invariant.
LEMMA InitInvariant == Init => Invariant
  <1> SUFFICES ASSUME Init PROVE Invariant
    BY Zenon
  <1>1. QueueInv
    BY Zenon, InitQueueInv
  <1>2. ASSUME NEW i \in Slots
        PROVE  /\ control[i] = Empty /\ control[i].base = "EMPTY" /\ ~control[i].complete
               /\ turn[i].index = i /\ turn[i].lap = 0 /\ value[i] = Zero
               /\ LapAt(head, i) = 0 /\ LapAt(tail, i) = 0
    BY <1>2 DEF Init, Empty, LapAt, Zero, Slots
  <1>3. ASSUME NEW i \in Slots PROVE SlotFits(i) /\ ~Held(i)
    <2>1. Current(i) /\ ~Prior(i) /\ ~Held(i)
      BY <1>2 DEF Current, Prior, Held
    <2> QED
      BY Zenon, <1>2, <2>1 DEF SlotFits
  <1>4. ASSUME NEW i \in Slots PROVE Unsettled(i) /\ DeadFits(i)
    BY Zenon, <1>2, <1>3 DEF Unsettled, DeadFits
  <1>5. \A h \in Handles : pc[h] = "idle"
    BY Zenon DEF Init
  <1>6. ASSUME NEW h \in Handles PROVE ProducerFits(h) /\ ConsumerFits(h) /\ ReaperFits(h) /\ CloserFits(h)
    BY Zenon, <1>5 DEF ProducerFits, ConsumerFits, ReaperFits, CloserFits
  <1>7. Past
    BY Zenon DEF Init, Past
  <1>8. Shut
    BY DEF Init, Shut
  <1>9. Manned
    BY Zenon, <1>2 DEF Manned
  <1> QED
    BY Zenon, <1>1, <1>3, <1>4, <1>6, <1>7, <1>8, <1>9 DEF Invariant, RingInv, Handles, Workers

\* Every step keeps it, deaths inside the windows excepted.
LEMMA NextKeepsInvariant ==
    ASSUME OneReaperEach, Invariant, [Next]_vars, DiesOutside
    PROVE  Invariant'
  <1>0. QueueInv /\ RingInv /\ Manned /\ TypeOK
    BY Zenon DEF Invariant, QueueInv
  <1>1. QueueInv'
    BY Zenon, <1>0, NextKeeps
  <1>2. ASSUME NEW h \in Producers, ProducerStart(h) \/ ProducerStep(h) PROVE RingInv' /\ Manned'
    BY Zenon, <1>0, <1>1, <1>2, SenderKeeps, SenderMans
  <1>3. ASSUME NEW h \in Consumers, ConsumerStep(h) PROVE RingInv' /\ Manned'
    BY Zenon, <1>0, <1>1, <1>3, ReceiverKeeps, ReceiverMans
  <1>4. ASSUME NEW r \in Reapers, ReaperStep(r) PROVE RingInv' /\ Manned'
    BY Zenon, <1>0, <1>1, <1>4, ReaperKeepsRing, ReaperMans
  <1>5. ASSUME NEW p \in Participants, Die(p) PROVE RingInv' /\ Manned'
    BY Zenon, <1>0, <1>5, DieKeepsRing
  <1>6. ASSUME NEW f \in {"send", "recv"}, CloseField(f) PROVE RingInv' /\ Manned'
    <2>1. control' = control /\ alive' = alive /\ cur' = cur /\ pc' = pc
      BY Zenon, <1>6 DEF CloseField, ring
    <2> QED
      BY Zenon, <1>0, <1>6, <2>1, CloseKeepsRing, OthersMan
  <1>7. ASSUME NEW k \in Closers, CloserStep(k) PROVE RingInv' /\ Manned'
    <2>1. control' = control /\ alive' = alive /\ cur' = cur
      BY Zenon, <1>7 DEF CloserStep, FinishStart, FinishScan, FinishSet, ring
    <2>2. pc' = pc \/ \E x, y : Goto(k, x, y)
      BY Zenon, <1>7 DEF CloserStep, FinishStart, FinishScan, FinishSet
    <2>3. k \notin Consumers /\ DOMAIN pc = Handles /\ Consumers \subseteq Handles
      BY Zenon, <1>0, QueueAssumption DEF TypeOK, PcOK, Handles, Workers
    <2>4. \A g \in Consumers : pc'[g] = pc[g]
      BY <2>2, <2>3 DEF Goto
    <2> QED
      BY Zenon, <1>0, <1>7, <2>1, <2>4, CloserKeepsRing, OthersMan
  <1>8. ASSUME UNCHANGED vars \/ \E h \in Workers : Adopt(h) PROVE RingInv' /\ Manned'
    <2>1. control' = control /\ alive' = alive /\ cur' = cur /\ pc' = pc
      BY Zenon, <1>8 DEF vars, Adopt, ring
    <2> QED
      BY Zenon, <1>0, <1>8, <2>1, RestKeepsRing, OthersMan
  <1>9. RingInv' /\ Manned'
    BY Zenon, <1>2, <1>3, <1>4, <1>5, <1>6, <1>7, <1>8 DEF Next
  <1> QED
    BY Zenon, <1>1, <1>9 DEF Invariant

\* The invariant holds as long as nobody dies inside the windows.
LEMMA RingInvariant ==
    ASSUME OneReaperEach
    PROVE  Spec /\ [][DiesOutside]_vars => []Invariant
  <1>1. Init => Invariant
    BY Zenon, InitInvariant
  <1>2. Invariant /\ [Next]_vars /\ [DiesOutside]_vars => Invariant'
    <2>1. UNCHANGED vars => DiesOutside
      BY Zenon DEF vars, DiesOutside
    <2> QED
      BY Zenon, <2>1, NextKeepsInvariant
  <1> QED
    BY <1>1, <1>2, PTL DEF Spec
-----------------------------------------------------------------------------
(* Positions as numbers.                                                   *)

\* The cursors enclose at most one lap.
LEMMA Window ==
    ASSUME TypeOK, RingInv
    PROVE  AtMost(head, tail) /\ AtMost(tail, NextLap(head))
  <1>1. head \in Cursor /\ tail \in Cursor /\ NextLap(head) \in Cursor
    BY Zenon, CursorTypes DEF TypeOK
  <1>2. /\ head.index \in Slots /\ tail.index \in Slots /\ head.lap \in Nat /\ tail.lap \in Nat
    BY Zenon, <1>1, CursorParts
  <1>3. \A i \in Slots : LapAt(tail, i) = LapAt(head, i) \/ LapAt(tail, i) = LapAt(head, i) + 1
    BY Zenon DEF RingInv, SlotFits
  <1>4. \A i \in Slots : LapAt(head, i) \in Nat
    BY Zenon, <1>1, Laps
  <1>5. LapAt(head, tail.index) <= tail.lap
    <2>1. LapAt(tail, tail.index) = tail.lap
      BY Zenon, <1>1, Laps
    <2> QED
      BY <1>2, <1>3, <1>4, <2>1
  <1>6. LapAt(tail, head.index) <= head.lap + 1
    <2>1. LapAt(head, head.index) = head.lap
      BY Zenon, <1>1, Laps
    <2> QED
      BY <1>2, <1>3, <1>4, <2>1
  <1>7. NextLap(head).lap = head.lap + 1 /\ NextLap(head).index = head.index
    BY DEF NextLap
  <1> QED
    BY Zenon, <1>1, <1>5, <1>6, <1>7, AtLap

\* A slot has a committed position if and only if the cursors meet it on different laps.
LEMMA CommittedIsHeld ==
    ASSUME TypeOK, RingInv, NEW i \in Slots
    PROVE  Committed(i) <=> Held(i)
  <1>0. /\ head \in Cursor /\ tail \in Cursor /\ NextLap(head) \in Cursor
        /\ head.lap \in Nat /\ head.index \in Slots /\ Capacity \in Nat /\ Capacity > 0
        /\ Pos(head) \in Nat /\ Pos(tail) \in Nat
    BY QueueAssumption, CursorTypes, CursorParts, Positions DEF TypeOK
  <1>1. PICK m \in Nat : /\ m = head.lap * Capacity /\ (head.lap + 1) * Capacity = m + Capacity
                         /\ Pos(head) = m + head.index
    BY <1>0 DEF Pos
  <1>2. Pos(tail) <= Pos(head) + Capacity
    BY Zenon, <1>0, Window, Positions
  <1>3. ASSUME NEW l \in Nat
        PROVE  \E c \in Cursor : /\ c.lap = l /\ c.index = i /\ Pos(c) = l * Capacity + i
                                 /\ Pos(c) % Capacity = i
    <2>1. PICK c : c = [lap |-> l, index |-> i]
      BY Zenon
    <2>2. c \in Cursor /\ c.lap = l /\ c.index = i
      BY <2>1 DEF Cursor
    <2> QED
      BY Zenon, <2>2, SlotOfPos DEF Pos
  <1>4. ASSUME Held(i) PROVE Committed(i)
    <2>1. LapAt(head, i) \in Nat
      BY Zenon, <1>0, Laps
    <2>2. PICK c \in Cursor : c.lap = LapAt(head, i) /\ c.index = i /\ Pos(c) % Capacity = i
      BY Zenon, <1>3, <2>1
    <2>3. Before(c, tail)
      BY Zenon, <1>0, <1>4, <2>2, Laps DEF Held
    <2>4. AtMost(head, c)
      <3>1. LapAt(head, c.index) <= c.lap
        BY <2>1, <2>2
      <3> QED
        BY Zenon, <1>0, <3>1, AtLap
    <2>5. Pos(head) <= Pos(c) /\ Pos(c) < Pos(tail) /\ Pos(c) \in Nat
      BY Zenon, <1>0, <2>3, <2>4, Positions
    <2>6. Pos(c) \in Pos(head) .. Pos(tail) - 1
      BY <1>0, <2>5
    <2> QED
      BY Zenon, <2>2, <2>6 DEF Committed
  <1>5. ASSUME Committed(i) PROVE Held(i)
    <2>1. PICK p \in Pos(head) .. Pos(tail) - 1 : p % Capacity = i
      BY Zenon, <1>5 DEF Committed
    <2>2. PICK k \in Nat : p = m + head.index + k /\ k < Capacity /\ p < Pos(tail)
      <3>1. /\ p - Pos(head) \in Nat /\ p - Pos(head) < Capacity /\ p < Pos(tail)
            /\ p = m + head.index + (p - Pos(head))
        BY <1>0, <1>1, <1>2, <2>1 DEF Slots
      <3> QED
        BY Zenon, <3>1
    <2>3. ASSUME NEW l \in Nat, NEW j \in Slots, p = l * Capacity + j, l = LapAt(head, j)
          PROVE  Held(i)
      <3>1. j = i
        BY Zenon, <2>1, <2>3, SlotOfPos
      <3>2. PICK c \in Cursor : c.lap = l /\ c.index = i /\ Pos(c) = p
        BY Zenon, <1>3, <2>3, <3>1
      <3>3. Before(c, tail)
        BY Zenon, <1>0, <2>2, <3>2, Positions
      <3> QED
        BY Zenon, <1>0, <2>3, <3>1, <3>2, <3>3, Laps DEF Held
    <2>4. CASE head.index + k < Capacity
      <3>1. PICK j \in Slots : j = head.index + k
        BY <1>0, <2>4 DEF Slots
      <3>2. LapAt(head, j) = head.lap
        BY <1>0, <3>1 DEF LapAt, Slots
      <3>3. p = head.lap * Capacity + j
        BY <1>0, <1>1, <2>2, <3>1 DEF Slots
      <3> QED
        BY Zenon, <1>0, <2>3, <3>2, <3>3
    <2>5. CASE ~(head.index + k < Capacity)
      <3>1. PICK j \in Slots : j = head.index + k - Capacity
        BY <1>0, <2>2, <2>5 DEF Slots
      <3>2. LapAt(head, j) = head.lap + 1 /\ head.lap + 1 \in Nat
        BY <1>0, <2>2, <3>1 DEF LapAt, Slots
      <3>3. p = (head.lap + 1) * Capacity + j
        BY <1>0, <1>1, <2>2, <3>1 DEF Slots
      <3> QED
        BY Zenon, <2>3, <3>2, <3>3
    <2> QED
      BY Zenon, <2>4, <2>5
  <1> QED
    BY Zenon, <1>4, <1>5
\* The invariant gives the shape of the ring.
LEMMA Shape ==
    ASSUME TypeOK, RingInv
    PROVE  RingShape
  <1>0. /\ head \in Cursor /\ tail \in Cursor /\ NextLap(head) \in Cursor
        /\ Pos(head) \in Nat /\ Pos(tail) \in Nat /\ Capacity \in Nat
        /\ Pos(NextLap(head)) = Pos(head) + Capacity
    BY Zenon, QueueAssumption, CursorTypes, Positions DEF TypeOK
  <1>1. Pos(head) <= Pos(tail) /\ Pos(tail) <= Pos(head) + Capacity
    BY Zenon, <1>0, Window, Positions
  <1>2. ASSUME NEW i \in Slots
        PROVE  IF Committed(i)
               THEN /\ control[i].base # "EMPTY"
                    /\ Pos(turn[i]) \in Pos(head) .. Pos(tail) - 1
               ELSE /\ control[i].base # "AVAILABLE"
                    /\ \/ Pos(turn[i]) \in Pos(tail) .. Pos(head) + Capacity - 1
                       \/ /\ control[i].base = "CONSUMER"
                          /\ Pos(turn[i]) \in Pos(tail) - Capacity .. Pos(head) - 1
    <2>1. SlotFits(i) /\ turn[i].index = i
      BY Zenon DEF RingInv, SlotFits
    <2>2. PICK t \in Cursor : /\ t = turn[i] /\ t.index = i /\ t.lap \in Nat /\ Pos(t) \in Nat
                              /\ NextLap(t) \in Cursor /\ Pos(NextLap(t)) = Pos(t) + Capacity
      BY Zenon, <2>1, CursorParts, CursorTypes, Positions DEF TypeOK
    <2>3. LapAt(head, i) \in Nat /\ LapAt(tail, i) \in Nat
      BY Zenon, <1>0, Laps
    <2>4. CASE Held(i)
      <3>1. Current(i) /\ control[i].base # "EMPTY"
        BY Zenon, <2>1, <2>4 DEF SlotFits
      <3>2. LapAt(head, t.index) <= t.lap /\ t.lap < LapAt(tail, t.index)
        BY <2>2, <2>3, <2>4, <3>1 DEF Current, Held
      <3>3. AtMost(head, t) /\ Before(t, tail)
        BY Zenon, <1>0, <3>2, AtLap, Laps
      <3>4. Pos(head) <= Pos(t) /\ Pos(t) < Pos(tail)
        BY Zenon, <1>0, <3>3, Positions
      <3>5. Pos(t) \in Pos(head) .. Pos(tail) - 1
        BY <1>0, <2>2, <3>4
      <3> QED
        BY Zenon, <2>2, <2>4, <3>1, <3>5, CommittedIsHeld
    <2>5. CASE ~Held(i)
      <3>1. LapAt(tail, i) = LapAt(head, i) /\ control[i].base # "AVAILABLE"
        BY Zenon, <2>1, <2>5, NotHeld DEF SlotFits
      <3>2. CASE Current(i)
        <4>1. LapAt(tail, t.index) <= t.lap
          BY <2>2, <2>3, <3>1, <3>2 DEF Current
        <4>2. t.lap < LapAt(NextLap(head), t.index)
          <5>1. LapAt(NextLap(head), i) = LapAt(head, i) + 1
            <6>1. NextLap(head).lap = head.lap + 1 /\ NextLap(head).index = head.index
              BY DEF NextLap
            <6>2. head.lap \in Nat
              BY Zenon, <1>0, CursorParts
            <6> QED
              BY <6>1, <6>2 DEF LapAt
          <5> QED
            BY <2>2, <2>3, <3>2, <5>1 DEF Current
        <4>3. AtMost(tail, t) /\ Before(t, NextLap(head))
          BY Zenon, <1>0, <4>1, <4>2, AtLap, Laps
        <4>4. Pos(tail) <= Pos(t) /\ Pos(t) < Pos(head) + Capacity
          BY Zenon, <1>0, <4>3, Positions
        <4>5. Pos(t) \in Pos(tail) .. Pos(head) + Capacity - 1
          BY <1>0, <2>2, <4>4
        <4> QED
          BY Zenon, <2>2, <2>5, <3>1, <4>5, CommittedIsHeld
      <3>3. CASE ~Current(i)
        <4>1. Prior(i) /\ control[i].base = "CONSUMER"
          BY Zenon, <2>1, <3>3 DEF SlotFits
        <4>2. t.lap < LapAt(head, t.index)
          BY <2>2, <2>3, <4>1 DEF Prior
        <4>3. LapAt(tail, NextLap(t).index) <= NextLap(t).lap
          <5>1. NextLap(t).lap = t.lap + 1 /\ NextLap(t).index = i
            BY Zenon, <2>2 DEF NextLap
          <5> QED
            BY <2>2, <2>3, <3>1, <4>1, <5>1 DEF Prior
        <4>4. Before(t, head) /\ AtMost(tail, NextLap(t))
          BY Zenon, <1>0, <2>2, <4>2, <4>3, AtLap, Laps
        <4>5. Pos(t) < Pos(head) /\ Pos(tail) <= Pos(t) + Capacity
          BY Zenon, <1>0, <2>2, <4>4, Positions
        <4>6. Pos(t) \in Pos(tail) - Capacity .. Pos(head) - 1
          BY <1>0, <2>2, <4>5
        <4> QED
          BY Zenon, <2>2, <2>5, <3>1, <4>1, <4>6, CommittedIsHeld
      <3> QED
        BY Zenon, <3>2, <3>3
    <2> QED
      BY Zenon, <2>4, <2>5
  <1> QED
    BY Zenon, <1>1, <1>2 DEF RingShape

\* Only its own step moves a worker, and only while its participant runs.
LEMMA OwnStep ==
    ASSUME TypeOK, Next, NEW h \in Workers, pc'[h] # pc[h]
    PROVE  Runs(h)
  <1>1. DOMAIN pc = Handles /\ h \in Handles /\ h \notin Closers /\ h \notin Reapers
    BY Zenon, QueueAssumption DEF TypeOK, PcOK, Handles
  <1>2. \A g : (\E x, y : Goto(g, x, y)) => g = h
    BY <1>1 DEF Goto
  <1>3. ASSUME NEW g \in Producers, ProducerStart(g) \/ ProducerStep(g) PROVE Runs(h)
    <2>1. Runs(g) /\ \E x, y : Goto(g, x, y)
      BY Zenon, <1>3 DEF ProducerStart, ProducerStep, ReserveStart, ReserveLoad, ReserveOwn,
          ReserveFull, ReserveBusy, ReserveCheck, ReserveAdmit, ReserveCommit, ReserveUndo, Stage,
          Publish, Skip, Return
    <2> QED
      BY Zenon, <1>2, <2>1
  <1>4. ASSUME NEW g \in Consumers, ConsumerStep(g) PROVE Runs(h)
    <2>1. Runs(g) /\ \E x, y : Goto(g, x, y)
      BY Zenon, <1>4 DEF ConsumerStep, ClaimStart, ClaimLoad, ClaimLook, ClaimEmpty, ClaimBusy,
          ClaimOwn, ClaimCheck, ClaimCommit, ClaimUndo, Take, RecycleTurn, RecycleFree, Return
    <2> QED
      BY Zenon, <1>2, <2>1
  <1>5. ASSUME NEW f \in {"send", "recv"}, CloseField(f) PROVE FALSE
    BY Zenon, <1>5 DEF CloseField
  <1>6. ASSUME NEW g \in Closers, CloserStep(g) PROVE FALSE
    BY Zenon, <1>1, <1>2, <1>6 DEF CloserStep, FinishStart, FinishScan, FinishSet
  <1>7. ASSUME NEW p \in Participants, Die(p) PROVE FALSE
    BY Zenon, <1>7 DEF Die
  <1>8. ASSUME NEW g \in Reapers, ReaperStep(g) PROVE FALSE
    BY Zenon, <1>1, <1>2, <1>8 DEF ReaperStep, RepairStart, RepairNone, RepairBusy, RepairRead,
        RepairMark, RepairProducer, RepairConsumer, RepairCorrupted, RepairRelease, RepairTurn,
        RepairStore, RecoverRoles, Resolve, Stop, Advance
  <1>9. ASSUME NEW g \in Workers, Adopt(g) PROVE FALSE
    BY Zenon, <1>9 DEF Adopt
  <1> QED
    BY Zenon, <1>3, <1>4, <1>5, <1>6, <1>7, <1>8, <1>9 DEF Next

\* The tail moves only when a running sender commits.
LEMMA OnlySendersCommit ==
    ASSUME Next, tail' # tail
    PROVE  \E h \in Producers : Runs(h) /\ pc[h] = "commit"
  <1>1. ~UNCHANGED ring
    BY Zenon DEF ring
  <1>2. ASSUME NEW h \in Producers, ProducerStart(h) \/ ProducerStep(h)
        PROVE  Runs(h) /\ pc[h] = "commit"
    BY Zenon, <1>1, <1>2 DEF ProducerStart, ProducerStep, ReserveStart, ReserveLoad, ReserveOwn,
        ReserveFull, ReserveBusy, ReserveCheck, ReserveAdmit, ReserveCommit, ReserveUndo, Stage,
        Publish, Skip, Goto
  <1>3. ASSUME NEW h \in Consumers, ConsumerStep(h) PROVE FALSE
    BY Zenon, <1>1, <1>3 DEF ConsumerStep, ClaimStart, ClaimLoad, ClaimLook, ClaimEmpty, ClaimBusy,
        ClaimOwn, ClaimCheck, ClaimCommit, ClaimUndo, Take, RecycleTurn, RecycleFree
  <1>4. ASSUME NEW r \in Reapers, ReaperStep(r) PROVE FALSE
    BY Zenon, <1>1, <1>4 DEF ReaperStep, RepairStart, RepairNone, RepairBusy, RepairRead,
        RepairMark, RepairProducer, RepairConsumer, RepairCorrupted, RepairRelease, RepairTurn,
        RepairStore, RecoverRoles, Resolve
  <1>5. \A f : ~CloseField(f)
    BY Zenon, <1>1 DEF CloseField
  <1>6. \A k : ~CloserStep(k)
    BY Zenon, <1>1 DEF CloserStep, FinishStart, FinishScan, FinishSet
  <1>7. \A p : ~Die(p) /\ ~Adopt(p)
    BY Zenon, <1>1 DEF Die, Adopt
  <1> QED
    BY Zenon, <1>2, <1>3, <1>4, <1>5, <1>6, <1>7 DEF Next
-----------------------------------------------------------------------------
(* The theorems.                                                           *)

\* Without deaths nobody dies inside the windows, so the theorems below hold of
\* every behaviour of a ring whose participants live on.
THEOREM WithoutDeaths == ASSUME Mortal = {} PROVE Spec => [][DiesOutside]_vars
  <1>1. [Next]_vars => [DiesOutside]_vars
    <2> SUFFICES ASSUME Next PROVE DiesOutside
      BY Zenon
    <2>1. alive' = alive
      BY Zenon DEF Next, ProducerStart, ProducerStep, ConsumerStep, CloseField, CloserStep,
          FinishStart, FinishScan, FinishSet, Die, ReaperStep, Adopt, Elsewhere
    <2> QED
      BY Zenon, <2>1 DEF DiesOutside
  <1> QED
    BY <1>1, PTL DEF Spec

\* The shape of the ring: the cursors enclose at most one lap, committed slots carry
\* their own turn and are not free, the others carry the turn they get next or, while
\* they are recycled, their last one.
THEOREM RingKeepsShape ==
    ASSUME OneReaperEach
    PROVE  Spec /\ [][DiesOutside]_vars => []RingShape
  <1>1. Invariant => RingShape
    BY Zenon, Shape DEF Invariant, QueueInv
  <1> QED
    BY <1>1, RingInvariant, PTL

\* A position that a sender committed stays claimable until a receiver commits it,
\* whoever dies outside the windows and whoever repairs.
THEOREM CommittedSlotsStay ==
    ASSUME OneReaperEach
    PROVE  Spec /\ [][DiesOutside]_vars => []CommittedStaysClaimable
  <1>1. Invariant => CommittedStaysClaimable
    BY Zenon, CommittedIsHeld DEF Invariant, QueueInv, CommittedStaysClaimable, RingInv, SlotFits
  <1> QED
    BY <1>1, RingInvariant, PTL

\* Claim::take returns the value that was staged at the claimed position.
THEOREM TakesStagedValue ==
    ASSUME OneReaperEach
    PROVE  Spec /\ [][DiesOutside]_vars => []TakesWhatWasStaged
  <1>1. ASSUME Invariant PROVE TakesWhatWasStaged
    <2> SUFFICES ASSUME NEW h \in Consumers, pc[h] = "claimed", Runs(h)
                 PROVE  value[SlotOf(h)] = cur[h]
      BY Zenon DEF TakesWhatWasStaged
    <2>1. QueueInv /\ h \in Workers /\ Holds(h) /\ SlotOf(h) \in Slots
      BY Zenon, <1>1, OwnKind, OwnSlot DEF Invariant, Holds
    <2>2. /\ turn[SlotOf(h)] = cur[h] /\ Prior(SlotOf(h)) /\ seen[h] /\ SlotFits(SlotOf(h))
      BY Zenon, <1>1, <2>1 DEF Invariant, RingInv, ConsumerFits
    <2>3. control[SlotOf(h)].complete
      BY Zenon, <2>1, <2>2, OwnWord
    <2> QED
      BY Zenon, <2>2, <2>3 DEF SlotFits
  <1> QED
    BY <1>1, RingInvariant, PTL

\* "terminal queue closure excludes later publication from the closed epoch": once
\* the send field is finished no committed slot is still in the hands of a sender.
THEOREM FinishedSendersLeft ==
    ASSUME OneReaperEach
    PROVE  Spec /\ [][DiesOutside]_vars => []ClosedSendersLeft
  <1>1. Invariant => ClosedSendersLeft
    BY Zenon, CommittedIsHeld DEF Invariant, QueueInv, ClosedSendersLeft, RingInv, Shut, Clear
  <1> QED
    BY <1>1, RingInvariant, PTL

\* reserve answers Full only when the ring is full, claim answers Empty only when it
\* is empty, although both compare a fresh cursor with an old one.
THEOREM RefusalsTellTheTruth ==
    ASSUME OneReaperEach
    PROVE  Spec /\ [][DiesOutside]_vars => RefusalsAreTruthful
  <1> DEFINE Truthful == /\ \A h \in Producers : ReserveFull(h) => tail = NextLap(head)
                         /\ \A h \in Consumers : ClaimEmpty(h) => head = tail
  <1>1. ASSUME Invariant, Next PROVE Truthful
    <2>0. /\ TypeOK /\ RingInv /\ head \in Cursor /\ tail \in Cursor /\ NextLap(head) \in Cursor
          /\ AtMost(head, tail) /\ AtMost(tail, NextLap(head))
      BY Zenon, <1>1, Window, CursorTypes DEF Invariant, QueueInv, TypeOK
    <2>1. ASSUME NEW h \in Workers, Return(h, "probe")
          PROVE  pc[h] = "probe" /\ Runs(h) /\ cur[h] \in Cursor
      <3>1. pc[h] = "probe" /\ pc'[h] = "idle"
        <4>1. h \in DOMAIN pc
          BY Zenon, <2>0 DEF TypeOK, PcOK, Handles
        <4> QED
          BY <2>1, <4>1 DEF Return, Goto
      <3> QED
        BY Zenon, <1>1, <2>0, <3>1, OwnStep DEF TypeOK
    <2>2. ASSUME NEW h \in Producers, ReserveFull(h) PROVE tail = NextLap(head)
      <3>1. pc[h] = "probe" /\ Runs(h) /\ cur[h] = NextLap(head)
        BY Zenon, <2>1, <2>2, OwnKind DEF ReserveFull
      <3>2. AtMost(NextLap(head), tail)
        BY Zenon, <2>0, <3>1 DEF RingInv, ProducerFits
      <3> QED
        BY Zenon, <2>0, <3>2, Order
    <2>3. ASSUME NEW h \in Consumers, ClaimEmpty(h) PROVE head = tail
      <3>1. pc[h] = "probe" /\ Runs(h) /\ cur[h] = tail
        BY Zenon, <2>1, <2>3, OwnKind DEF ClaimEmpty
      <3>2. AtMost(tail, head)
        BY Zenon, <2>0, <3>1 DEF RingInv, ConsumerFits
      <3> QED
        BY Zenon, <2>0, <3>2, Order
    <2> QED
      BY Zenon, <2>2, <2>3
  <1>2. Invariant /\ [Next]_vars => [Truthful]_vars
    BY Zenon, <1>1
  <1> QED
    BY <1>2, RingInvariant, PTL DEF Spec, RefusalsAreTruthful

\* A value reaches one receiver: take never returns a value that was taken before or
\* that a repair released, whoever dies outside the windows.
THEOREM NothingIsRedelivered ==
    ASSUME OneReaperEach
    PROVE  Spec /\ [][DiesOutside]_vars => NoRedelivery
  <1> DEFINE Fresh == \A h \in Consumers : Take(h) => value[SlotOf(h)] \notin settled
  <1>1. ASSUME Invariant, Next PROVE Fresh
    <2> SUFFICES ASSUME NEW h \in Consumers, Take(h) PROVE value[SlotOf(h)] \notin settled
      BY Zenon
    <2>0. TypeOK /\ QueueInv /\ RingInv /\ h \in Workers
      BY Zenon, <1>1, OwnKind DEF Invariant, QueueInv
    <2>1. pc[h] = "claimed" /\ pc'[h] = "recycle"
      <3>1. h \in DOMAIN pc
        BY Zenon, <2>0 DEF TypeOK, PcOK, Handles
      <3> QED
        BY <3>1 DEF Take, Goto
    <2>2. Runs(h)
      BY Zenon, <1>1, <2>0, <2>1, OwnStep
    <2>3. Holds(h) /\ SlotOf(h) \in Slots
      BY Zenon, <2>0, <2>1, <2>2, OwnSlot DEF Holds
    <2>4. /\ turn[SlotOf(h)] = cur[h] /\ Prior(SlotOf(h)) /\ seen[h] /\ SlotFits(SlotOf(h))
          /\ cur[h] \notin settled
      BY Zenon, <2>0, <2>1, <2>2, <2>3 DEF RingInv, ConsumerFits
    <2>5. control[SlotOf(h)].complete
      BY Zenon, <2>0, <2>2, <2>3, <2>4, OwnWord
    <2> QED
      BY Zenon, <2>4, <2>5 DEF SlotFits
  <1>2. Invariant /\ [Next]_vars => [Fresh]_vars
    BY Zenon, <1>1
  <1> QED
    BY <1>2, RingInvariant, PTL DEF Spec, NoRedelivery

\* Once Queue::terminal holds nothing is ever committed again.
THEOREM TerminalIsForGood ==
    ASSUME OneReaperEach
    PROVE  Spec /\ [][DiesOutside]_vars => ClosedForGood
  <1>1. ASSUME Invariant, Next, Terminal PROVE tail' = tail
    <2> SUFFICES ASSUME tail' # tail PROVE FALSE
      BY Zenon
    <2>1. PICK h \in Producers : Runs(h) /\ pc[h] = "commit"
      BY Zenon, <1>1, OnlySendersCommit
    <2>2. SlotOf(h) \in Slots
      BY Zenon, <1>1, OwnKind, CursorParts DEF Invariant, QueueInv, TypeOK, SlotOf
    <2> QED
      BY Zenon, <1>1, <2>1, <2>2 DEF Invariant, RingInv, Shut, Clear, Terminal
  <1>2. Invariant /\ [Next]_vars => [Terminal => tail' = tail]_vars
    BY Zenon, <1>1
  <1> QED
    BY <1>2, RingInvariant, PTL DEF Spec, ClosedForGood
=============================================================================
