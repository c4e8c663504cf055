--------------------------- MODULE QueueProofs ----------------------------
(***************************************************************************)
(* Proofs about the words of the ring of Queue, for any number of          *)
(* participants, handles and slots and any pattern of deaths: the type     *)
(* invariant, the exclusive ownership of slots, and the safety of repair.  *)
(* First the steps of senders, receivers and closers, then those of a      *)
(* reaper; last the lemmas about cursors and lines that RingStepProofs.tla *)
(* and FifoProofs.tla build on.                                            *)
(***************************************************************************)
EXTENDS Queue, TLAPS, Sequences

\* The words that the operations write are words of the control field.
LEMMA WordTypes ==
    /\ Empty \in Control /\ Canonical(Empty)
    /\ \A b \in BOOLEAN : Available(b) \in Control /\ Canonical(Available(b))
    /\ \A s \in {"PRODUCER", "CONSUMER"}, b \in BOOLEAN, p \in Participants :
         Owned(s, b, p) \in Control /\ Canonical(Owned(s, b, p))
  BY Zenon, QueueAssumption DEF Empty, Available, Owned, Control, Bases, Canonical

\* Those words name nobody as reaper, and at most the given owner as source.
LEMMA WordFields ==
    /\ Empty.reaper = NoOne /\ Empty.source = NoOne
    /\ \A b : Available(b).reaper = NoOne /\ Available(b).source = NoOne
    /\ \A s, b, p : Owned(s, b, p).reaper = NoOne /\ Owned(s, b, p).source = p
  BY Zenon DEF Empty, Available, Owned

\* Moving a cursor as reserve, claim and recycle do gives a cursor.
LEMMA CursorTypes ==
    /\ Zero \in Cursor
    /\ \A c \in Cursor : NextCursor(c) \in Cursor /\ NextLap(c) \in Cursor
  BY QueueAssumption DEF Zero, Cursor, NextCursor, NextLap, Slots

\* The initial state satisfies the inductive invariant.
LEMMA InitQueueInv == Init => QueueInv
  <1> SUFFICES ASSUME Init PROVE QueueInv
    BY Zenon
  <1>1. TypeOK
    <2>1. \A i \in Slots : [lap |-> 0, index |-> i] \in Cursor
      BY Zenon DEF Cursor
    <2>2. 0 \in Slots
      BY QueueAssumption DEF Slots
    <2> QED
      BY <2>1, <2>2, WordTypes, CursorTypes, QueueAssumption
      DEF Init, TypeOK, PcOK, Handles, Workers, ProducerPcs, ConsumerPcs, CloserPcs, ReaperPcs
  <1>2. SlotExclusion
    BY Zenon DEF Init, SlotExclusion, Holds, Handles, Workers
  <1>3. MarkedIsDead
    BY Zenon DEF Init, MarkedIsDead, Empty
  <1>4. VictimIsDead /\ ReadyToMark /\ Repairing /\ Resolved /\ Cleared
    BY Zenon DEF Init, VictimIsDead, ReadyToMark, Repairing, Resolved, Cleared, Idle, Handles
  <1> QED
    BY Zenon, <1>1, <1>2, <1>3, <1>4 DEF QueueInv

\* A step of one worker that writes no control word, and after which the worker
\* owns a slot only if it owned the same slot with the same word before.
LEMMA QuietStep ==
    ASSUME NEW h \in Workers, QueueInv, TypeOK',
           alive' = alive, at' = at, victim' = victim, word' = word, control' = control,
           \A g \in Handles \ {h} : pc'[g] = pc[g],
           \A g \in Workers \ {h} : cur'[g] = cur[g] /\ seen'[g] = seen[g],
           Holds(h)' => Holds(h) /\ SlotOf(h)' = SlotOf(h) /\ HeldBy(h)' = HeldBy(h)
    PROVE  QueueInv'
  <1>1. \A g \in Workers \ {h} :
          (Holds(g)' <=> Holds(g)) /\ SlotOf(g)' = SlotOf(g) /\ HeldBy(g)' = HeldBy(g)
    BY Zenon DEF Holds, SlotOf, HeldBy, Handles, Workers
  <1>2. \A g \in Workers : Runs(g)' <=> Runs(g)
    BY Zenon DEF Runs
  <1>3. SlotExclusion'
    BY Zenon, <1>1, <1>2 DEF QueueInv, SlotExclusion
  <1>4. \A r \in Reapers : pc'[r] = pc[r]
    BY Zenon, QueueAssumption DEF Handles, Workers
  <1>5. MarkedIsDead' /\ VictimIsDead'
    BY Zenon, <1>4 DEF QueueInv, MarkedIsDead, VictimIsDead, Idle
  <1>6. ReadyToMark'
    BY Zenon, <1>4 DEF QueueInv, ReadyToMark, Runs
  <1>7. Repairing' /\ Resolved'
    BY Zenon, <1>4 DEF QueueInv, Repairing, Resolved, Runs
  <1>8. Cleared'
    BY Zenon, <1>4 DEF QueueInv, Cleared, Idle
  <1> QED
    BY Zenon, <1>3, <1>5, <1>6, <1>7, <1>8 DEF QueueInv

\* A step of one running worker that writes the control word of one slot, which
\* was free or the worker's own, with a word that names the worker or nobody.
LEMMA WritingStep ==
    ASSUME NEW h \in Workers, NEW i \in Slots, NEW w, QueueInv, TypeOK', Runs(h),
           alive' = alive, at' = at, victim' = victim, word' = word,
           control' = [control EXCEPT ![i] = w],
           w.reaper = NoOne, w.source \in {NoOne, OwnerOf[h]},
           control[i].reaper = NoOne,
           control[i].source = NoOne \/ (Holds(h) /\ SlotOf(h) = i),
           \A g \in Handles \ {h} : pc'[g] = pc[g],
           \A g \in Workers \ {h} : cur'[g] = cur[g] /\ seen'[g] = seen[g],
           Holds(h)' => SlotOf(h)' = i /\ HeldBy(h)' = w
    PROVE  QueueInv'
  <1>0. /\ NoOne \notin Participants /\ alive \subseteq Participants
        /\ control \in [Slots -> Control] /\ control'[i] = w
        /\ \A j \in Slots \ {i} : control'[j] = control[j]
    BY Zenon, QueueAssumption DEF QueueInv, TypeOK
  <1>1. \A g \in Workers \ {h} :
          (Holds(g)' <=> Holds(g)) /\ SlotOf(g)' = SlotOf(g) /\ HeldBy(g)' = HeldBy(g)
    BY Zenon DEF Holds, SlotOf, HeldBy, Handles, Workers
  <1>2. \A g \in Workers : (Runs(g)' <=> Runs(g)) /\ SlotOf(g) \in Slots
    BY Zenon DEF Runs, QueueInv, TypeOK, SlotOf, Cursor
  <1>3. \A g \in Workers \ {h} : Holds(g) /\ Runs(g) => SlotOf(g) # i
    <2> SUFFICES ASSUME NEW g \in Workers \ {h}, Holds(g), Runs(g) PROVE SlotOf(g) # i
      BY Zenon
    <2>1. control[SlotOf(g)] = HeldBy(g)
      BY Zenon DEF QueueInv, SlotExclusion
    <2>2. HeldBy(g).source = OwnerOf[g] /\ OwnerOf[g] # NoOne
      BY Zenon, QueueAssumption DEF HeldBy, Owned
    <2>3. CASE control[i].source = NoOne
      BY Zenon, <2>1, <2>2, <2>3
    <2>4. CASE Holds(h) /\ SlotOf(h) = i
      BY Zenon, <2>4 DEF QueueInv, SlotExclusion
    <2> QED
      BY Zenon, <2>3, <2>4
  <1>4. SlotExclusion'
    BY <1>0, <1>1, <1>2, <1>3 DEF QueueInv, SlotExclusion
  <1>5. \A r \in Reapers : pc'[r] = pc[r]
    BY Zenon, QueueAssumption DEF Handles, Workers
  <1>6. MarkedIsDead'
    BY Zenon, <1>0 DEF QueueInv, MarkedIsDead
  <1>7. VictimIsDead' /\ ReadyToMark' /\ Resolved'
    BY Zenon, <1>5 DEF QueueInv, VictimIsDead, ReadyToMark, Resolved, Idle
  <1>8. Repairing'
    <2> SUFFICES ASSUME NEW r \in Reapers, Runs(r)', pc'[r] \in {"act", "release", "turn", "store"}
                 PROVE  /\ control'[at[r]].source \in Participants \ alive
                        /\ control'[at[r]].reaper = OwnerOf[r]
      BY Zenon DEF Repairing
    <2>1. control[at[r]].source \in Participants \ alive /\ control[at[r]].reaper = OwnerOf[r]
      BY Zenon, <1>5 DEF QueueInv, Repairing, Runs
    <2>2. at[r] \in Slots /\ OwnerOf[r] \in Participants
      BY Zenon, QueueAssumption DEF QueueInv, TypeOK
    <2>3. at[r] # i
      BY <1>0, <2>1, <2>2
    <2> QED
      BY Zenon, <1>0, <2>1, <2>2, <2>3
  <1>9. Cleared'
    <2> SUFFICES ASSUME NEW r \in Reapers, NEW j \in Slots, ~Idle(r)',
                        j < at[r] \/ pc'[r] = "roles"
                 PROVE  control'[j].source # victim[r] /\ control'[j].reaper # victim[r]
      BY DEF Cleared
    <2>1. ~Idle(r) /\ (j < at[r] \/ pc[r] = "roles")
      BY Zenon, <1>5 DEF Idle
    <2>2. /\ victim[r] \in Participants \ alive
          /\ control[j].source # victim[r] /\ control[j].reaper # victim[r]
      BY Zenon, <2>1 DEF QueueInv, VictimIsDead, Cleared
    <2>3. OwnerOf[h] \in alive
      BY Zenon DEF Runs
    <2> QED
      BY Zenon, <1>0, <2>2, <2>3
  <1> QED
    BY Zenon, <1>4, <1>6, <1>7, <1>8, <1>9 DEF QueueInv

\* The slot a worker owns carries its word, in which nobody is a reaper.
LEMMA OwnSlot ==
    ASSUME NEW h \in Workers, QueueInv, Holds(h), Runs(h)
    PROVE  SlotOf(h) \in Slots /\ control[SlotOf(h)].reaper = NoOne
  <1>1. SlotOf(h) \in Slots
    BY Zenon DEF QueueInv, TypeOK, SlotOf, Cursor
  <1>2. control[SlotOf(h)] = HeldBy(h)
    BY Zenon DEF QueueInv, SlotExclusion
  <1>3. HeldBy(h).reaper = NoOne
    BY Zenon DEF HeldBy, Owned
  <1> QED
    BY Zenon, <1>1, <1>2, <1>3

\* Every step of a sender keeps the inductive invariant.
LEMMA ProducerKeeps ==
    ASSUME NEW h \in Producers, QueueInv, ProducerStart(h) \/ ProducerStep(h)
    PROVE  QueueInv'
  <1> USE QueueAssumption
  <1> PICK i \in Slots : i = SlotOf(h)
    BY Zenon DEF Workers, QueueInv, TypeOK, SlotOf, Cursor
  <1>0. /\ h \in Workers /\ h \notin Consumers /\ h \in Handles
        /\ Runs(h) /\ Elsewhere /\ OwnerOf[h] \in Participants
        /\ SlotOf(h) = i /\ cur[h] \in Cursor /\ seen[h] \in BOOLEAN
    BY Zenon DEF ProducerStart, ProducerStep, Workers, Handles, QueueInv, TypeOK
  <1> DEFINE Moves(x) ==
        /\ pc' = [pc EXCEPT ![h] = x]
        /\ \A g \in Handles \ {h} : pc'[g] = pc[g]
        /\ pc'[h] = x
  <1>1. \A here, there : Goto(h, here, there) => pc[h] = here /\ Moves(there)
    BY Zenon, <1>0 DEF Goto, QueueInv, TypeOK, PcOK
  <1>2. \A x \in ProducerPcs : Moves(x) => PcOK'
    BY <1>0 DEF QueueInv, TypeOK, PcOK, Handles, Workers
  <1> HIDE DEF Moves
  <1>3. \A x : Moves(x) => pc'[h] = x /\ \A g \in Handles \ {h} : pc'[g] = pc[g]
    BY Zenon DEF Moves
  <1>4. CASE ReserveStart(h)
    <2>1. pc[h] = "idle" /\ Moves("load")
      BY Zenon, <1>1, <1>4 DEF ReserveStart
    <2>2. PcOK'
      BY Zenon, <1>2, <2>1 DEF ProducerPcs
    <2>3. TypeOK'
      BY Zenon, <1>0, <1>4, <2>2, CursorTypes
      DEF ReserveStart, Elsewhere, ring, repairState, QueueInv, TypeOK
    <2>4. \A g \in Workers \ {h} : cur'[g] = cur[g] /\ seen'[g] = seen[g]
      BY Zenon, <1>0, <1>4 DEF ReserveStart, QueueInv, TypeOK
    <2>5. Holds(h)' => Holds(h) /\ SlotOf(h)' = SlotOf(h) /\ HeldBy(h)' = HeldBy(h)
      BY <1>0, <1>3, <1>4, <2>1 DEF ReserveStart, Holds, SlotOf, HeldBy
    <2> QED
      BY Zenon, <1>0, <1>3, <1>4, <2>1, <2>3, <2>4, <2>5, QuietStep
      DEF ReserveStart, Elsewhere, ring, repairState
  <1>5. CASE ReserveLoad(h)
    <2>1. pc[h] = "load" /\ Moves("own")
      BY Zenon, <1>1, <1>5 DEF ReserveLoad
    <2>2. PcOK'
      BY Zenon, <1>2, <2>1 DEF ProducerPcs
    <2>3. TypeOK'
      BY Zenon, <1>0, <1>5, <2>2, CursorTypes
      DEF ReserveLoad, Elsewhere, ring, repairState, QueueInv, TypeOK
    <2>4. \A g \in Workers \ {h} : cur'[g] = cur[g] /\ seen'[g] = seen[g]
      BY Zenon, <1>0, <1>5 DEF ReserveLoad, QueueInv, TypeOK
    <2>5. Holds(h)' => Holds(h) /\ SlotOf(h)' = SlotOf(h) /\ HeldBy(h)' = HeldBy(h)
      BY <1>0, <1>3, <1>5, <2>1 DEF ReserveLoad, Holds, SlotOf, HeldBy
    <2> QED
      BY Zenon, <1>0, <1>3, <1>5, <2>1, <2>3, <2>4, <2>5, QuietStep
      DEF ReserveLoad, Elsewhere, ring, repairState
  <1>6. CASE ReserveFull(h)
    <2>1. pc[h] = "probe" /\ Moves("idle")
      BY Zenon, <1>1, <1>6 DEF ReserveFull, Return
    <2>2. PcOK'
      BY Zenon, <1>2, <2>1 DEF ProducerPcs
    <2>3. TypeOK'
      BY Zenon, <1>0, <1>6, <2>2, CursorTypes
      DEF ReserveFull, Return, Elsewhere, ring, repairState, QueueInv, TypeOK
    <2>4. \A g \in Workers \ {h} : cur'[g] = cur[g] /\ seen'[g] = seen[g]
      BY Zenon, <1>0, <1>6 DEF ReserveFull, Return, QueueInv, TypeOK
    <2>5. Holds(h)' => Holds(h) /\ SlotOf(h)' = SlotOf(h) /\ HeldBy(h)' = HeldBy(h)
      BY <1>0, <1>3, <1>6, <2>1 DEF ReserveFull, Return, Holds, SlotOf, HeldBy
    <2> QED
      BY Zenon, <1>0, <1>3, <1>6, <2>1, <2>3, <2>4, <2>5, QuietStep
      DEF ReserveFull, Elsewhere, ring, repairState
  <1>7. CASE ReserveBusy(h)
    <2>1. pc[h] = "probe" /\ Moves("idle")
      BY Zenon, <1>1, <1>7 DEF ReserveBusy, Return
    <2>2. PcOK'
      BY Zenon, <1>2, <2>1 DEF ProducerPcs
    <2>3. TypeOK'
      BY Zenon, <1>0, <1>7, <2>2, CursorTypes
      DEF ReserveBusy, Return, Elsewhere, ring, repairState, QueueInv, TypeOK
    <2>4. \A g \in Workers \ {h} : cur'[g] = cur[g] /\ seen'[g] = seen[g]
      BY Zenon, <1>0, <1>7 DEF ReserveBusy, Return, QueueInv, TypeOK
    <2>5. Holds(h)' => Holds(h) /\ SlotOf(h)' = SlotOf(h) /\ HeldBy(h)' = HeldBy(h)
      BY <1>0, <1>3, <1>7, <2>1 DEF ReserveBusy, Return, Holds, SlotOf, HeldBy
    <2> QED
      BY Zenon, <1>0, <1>3, <1>7, <2>1, <2>3, <2>4, <2>5, QuietStep
      DEF ReserveBusy, Elsewhere, ring, repairState
  <1>8. CASE ReserveCheck(h)
    <2>1. pc[h] = "check" /\ (Moves("admit") \/ Moves("undo"))
      BY Zenon, <1>1, <1>8 DEF ReserveCheck
    <2>2. PcOK'
      BY Zenon, <1>2, <2>1 DEF ProducerPcs
    <2>3. TypeOK'
      BY Zenon, <1>0, <1>8, <2>2, CursorTypes
      DEF ReserveCheck, Elsewhere, ring, repairState, QueueInv, TypeOK
    <2>4. \A g \in Workers \ {h} : cur'[g] = cur[g] /\ seen'[g] = seen[g]
      BY Zenon, <1>0, <1>8 DEF ReserveCheck, QueueInv, TypeOK
    <2>5. Holds(h)' => Holds(h) /\ SlotOf(h)' = SlotOf(h) /\ HeldBy(h)' = HeldBy(h)
      BY <1>0, <1>3, <1>8, <2>1 DEF ReserveCheck, Holds, SlotOf, HeldBy
    <2> QED
      BY Zenon, <1>0, <1>3, <1>8, <2>1, <2>3, <2>4, <2>5, QuietStep
      DEF ReserveCheck, Elsewhere, ring, repairState
  <1>9. CASE ReserveAdmit(h)
    <2>1. pc[h] = "admit" /\ (Moves("commit") \/ Moves("undo"))
      BY Zenon, <1>1, <1>9 DEF ReserveAdmit
    <2>2. PcOK'
      BY Zenon, <1>2, <2>1 DEF ProducerPcs
    <2>3. TypeOK'
      BY Zenon, <1>0, <1>9, <2>2, CursorTypes
      DEF ReserveAdmit, Elsewhere, ring, repairState, QueueInv, TypeOK
    <2>4. \A g \in Workers \ {h} : cur'[g] = cur[g] /\ seen'[g] = seen[g]
      BY Zenon, <1>0, <1>9 DEF ReserveAdmit, QueueInv, TypeOK
    <2>5. Holds(h)' => Holds(h) /\ SlotOf(h)' = SlotOf(h) /\ HeldBy(h)' = HeldBy(h)
      BY <1>0, <1>3, <1>9, <2>1 DEF ReserveAdmit, Holds, SlotOf, HeldBy
    <2> QED
      BY Zenon, <1>0, <1>3, <1>9, <2>1, <2>3, <2>4, <2>5, QuietStep
      DEF ReserveAdmit, Elsewhere, ring, repairState
  <1>10. CASE ReserveCommit(h)
    <2>1. pc[h] = "commit" /\ (Moves("reserved") \/ Moves("undo"))
      BY Zenon, <1>1, <1>10 DEF ReserveCommit
    <2>2. PcOK'
      BY Zenon, <1>2, <2>1 DEF ProducerPcs
    <2>3. TypeOK'
      BY <1>0, <1>10, <2>2, CursorTypes
      DEF ReserveCommit, Elsewhere, ring, repairState, QueueInv, TypeOK
    <2>4. \A g \in Workers \ {h} : cur'[g] = cur[g] /\ seen'[g] = seen[g]
      BY Zenon, <1>0, <1>10 DEF ReserveCommit, QueueInv, TypeOK
    <2>5. Holds(h)' => Holds(h) /\ SlotOf(h)' = SlotOf(h) /\ HeldBy(h)' = HeldBy(h)
      BY <1>0, <1>3, <1>10, <2>1 DEF ReserveCommit, Holds, SlotOf, HeldBy
    <2> QED
      BY Zenon, <1>0, <1>3, <1>10, <2>1, <2>3, <2>4, <2>5, QuietStep
      DEF ReserveCommit, Elsewhere, ring, repairState
  <1>11. CASE ReserveOwn(h)
    <2>1. CASE control[i] = Empty
      <3>1. pc[h] = "own" /\ Moves("check")
        BY Zenon, <1>0, <1>1, <1>11, <2>1 DEF ReserveOwn
      <3>2. PICK w : w = Owned("PRODUCER", FALSE, OwnerOf[h])
        BY Zenon
      <3>3. w.reaper = NoOne /\ w.source = OwnerOf[h] /\ w \in Control /\ Canonical(w)
        BY Zenon, <1>0, <3>2 DEF Owned, Control, Bases, Canonical
      <3>4. control' = [control EXCEPT ![i] = w] /\ cur' = cur /\ seen' = seen
        BY Zenon, <1>0, <1>11, <2>1, <3>2 DEF ReserveOwn, SetControl
      <3>5. PcOK'
        BY Zenon, <1>2, <3>1 DEF ProducerPcs
      <3>6. TypeOK'
        BY Zenon, <1>0, <1>11, <3>3, <3>4, <3>5
        DEF ReserveOwn, Elsewhere, repairState, QueueInv, TypeOK
      <3>7. (pc'[h] = "staged") = FALSE
        BY <1>3, <3>1
      <3>8. SlotOf(h)' = i /\ HeldBy(h)' = w
        BY Zenon, <1>0, <3>2, <3>4, <3>7 DEF SlotOf, HeldBy, Owned
      <3>9. control[i].reaper = NoOne /\ control[i].source = NoOne
        BY Zenon, <2>1, WordFields
      <3> QED
        BY Zenon, <1>0, <1>3, <3>1, <3>3, <3>4, <3>6, <3>8, <3>9, WritingStep
        DEF Elsewhere, repairState
    <2>2. CASE control[i] # Empty
      <3>1. pc[h] = "own" /\ Moves("probe") /\ control' = control
        BY Zenon, <1>0, <1>1, <1>11, <2>2 DEF ReserveOwn, Return
      <3>2. PcOK'
        BY Zenon, <1>2, <3>1 DEF ProducerPcs
      <3>3. cur' \in [Workers -> Cursor] /\ seen' \in [Workers -> BOOLEAN]
        BY Zenon, <1>0, <1>11, <2>2, CursorTypes DEF ReserveOwn, QueueInv, TypeOK
      <3>4. TypeOK'
        BY Zenon, <1>0, <1>11, <2>2, <3>1, <3>2, <3>3
        DEF ReserveOwn, Elsewhere, repairState, QueueInv, TypeOK
      <3>5. \A g \in Workers \ {h} : cur'[g] = cur[g] /\ seen'[g] = seen[g]
        BY Zenon, <1>0, <1>11, <2>2 DEF ReserveOwn, QueueInv, TypeOK
      <3>6. ~Holds(h)'
        BY <1>0, <1>3, <3>1 DEF Holds
      <3> QED
        BY Zenon, <1>0, <1>3, <3>1, <3>4, <3>5, <3>6, QuietStep
        DEF Elsewhere, repairState
    <2> QED
      BY Zenon, <2>1, <2>2
  <1>12. CASE ReserveUndo(h)
    <2>1. pc[h] = "undo" /\ Moves("idle")
      BY Zenon, <1>1, <1>12 DEF ReserveUndo, Return
    <2>2. PICK w : w = Empty
      BY Zenon
    <2>3. w.reaper = NoOne /\ w.source \in {NoOne, OwnerOf[h]} /\ w \in Control /\ Canonical(w)
      BY Zenon, <1>0, <2>2 DEF Empty, Available, Owned, Control, Bases, Canonical
    <2>4. control' = [control EXCEPT ![i] = w]
      BY Zenon, <1>0, <1>12, <2>2 DEF ReserveUndo, SetControl
    <2>5. PcOK'
      BY Zenon, <1>2, <2>1 DEF ProducerPcs
    <2>6. cur' \in [Workers -> Cursor] /\ seen' \in [Workers -> BOOLEAN]
      BY Zenon, <1>0, <1>12, CursorTypes DEF ReserveUndo, Return, QueueInv, TypeOK
    <2>7. TypeOK'
      BY Zenon, <1>0, <1>12, <2>3, <2>4, <2>5, <2>6
      DEF ReserveUndo, Elsewhere, repairState, QueueInv, TypeOK
    <2>8. \A g \in Workers \ {h} : cur'[g] = cur[g] /\ seen'[g] = seen[g]
      BY Zenon, <1>0, <1>12 DEF ReserveUndo, Return, QueueInv, TypeOK
    <2>9. ~Holds(h)'
      BY <1>0, <1>3, <2>1 DEF Holds
    <2>10. Holds(h) /\ control[i].reaper = NoOne
      BY Zenon, <1>0, <2>1, OwnSlot DEF Holds
    <2> QED
      BY Zenon, <1>0, <1>3, <2>1, <2>3, <2>4, <2>7, <2>8, <2>9, <2>10, WritingStep
      DEF Elsewhere, repairState
  <1>13. CASE Stage(h)
    <2>1. pc[h] = "reserved" /\ Moves("staged")
      BY Zenon, <1>1, <1>13 DEF Stage
    <2>2. PICK w : w = Owned("PRODUCER", TRUE, OwnerOf[h])
      BY Zenon
    <2>3. w.reaper = NoOne /\ w.source \in {NoOne, OwnerOf[h]} /\ w \in Control /\ Canonical(w)
      BY Zenon, <1>0, <2>2 DEF Empty, Available, Owned, Control, Bases, Canonical
    <2>4. control' = [control EXCEPT ![i] = w]
      BY Zenon, <1>0, <1>13, <2>2 DEF Stage, SetControl
    <2>5. PcOK'
      BY Zenon, <1>2, <2>1 DEF ProducerPcs
    <2>6. cur' \in [Workers -> Cursor] /\ seen' \in [Workers -> BOOLEAN]
      BY Zenon, <1>0, <1>13, CursorTypes DEF Stage, QueueInv, TypeOK
    <2>7. TypeOK'
      BY Zenon, <1>0, <1>13, <2>3, <2>4, <2>5, <2>6
      DEF Stage, Elsewhere, repairState, QueueInv, TypeOK
    <2>8. \A g \in Workers \ {h} : cur'[g] = cur[g] /\ seen'[g] = seen[g]
      BY Zenon, <1>0, <1>13 DEF Stage, QueueInv, TypeOK
    <2>9. SlotOf(h)' = i /\ HeldBy(h)' = w
      BY Zenon, <1>0, <1>3, <1>13, <2>1, <2>2 DEF Stage, SlotOf, HeldBy
    <2>10. Holds(h) /\ control[i].reaper = NoOne
      BY Zenon, <1>0, <2>1, OwnSlot DEF Holds
    <2> QED
      BY Zenon, <1>0, <1>3, <2>1, <2>3, <2>4, <2>7, <2>8, <2>9, <2>10, WritingStep
      DEF Elsewhere, repairState
  <1>14. CASE Publish(h)
    <2>1. pc[h] = "staged" /\ Moves("idle")
      BY Zenon, <1>1, <1>14 DEF Publish, Return
    <2>2. PICK w : w = Available(TRUE)
      BY Zenon
    <2>3. w.reaper = NoOne /\ w.source \in {NoOne, OwnerOf[h]} /\ w \in Control /\ Canonical(w)
      BY Zenon, <1>0, <2>2 DEF Empty, Available, Owned, Control, Bases, Canonical
    <2>4. control' = [control EXCEPT ![i] = w]
      BY Zenon, <1>0, <1>14, <2>2 DEF Publish, SetControl
    <2>5. PcOK'
      BY Zenon, <1>2, <2>1 DEF ProducerPcs
    <2>6. cur' \in [Workers -> Cursor] /\ seen' \in [Workers -> BOOLEAN]
      BY Zenon, <1>0, <1>14, CursorTypes DEF Publish, Return, QueueInv, TypeOK
    <2>7. TypeOK'
      BY Zenon, <1>0, <1>14, <2>3, <2>4, <2>5, <2>6
      DEF Publish, Elsewhere, repairState, QueueInv, TypeOK
    <2>8. \A g \in Workers \ {h} : cur'[g] = cur[g] /\ seen'[g] = seen[g]
      BY Zenon, <1>0, <1>14 DEF Publish, Return, QueueInv, TypeOK
    <2>9. ~Holds(h)'
      BY <1>0, <1>3, <2>1 DEF Holds
    <2>10. Holds(h) /\ control[i].reaper = NoOne
      BY Zenon, <1>0, <2>1, OwnSlot DEF Holds
    <2> QED
      BY Zenon, <1>0, <1>3, <2>1, <2>3, <2>4, <2>7, <2>8, <2>9, <2>10, WritingStep
      DEF Elsewhere, repairState
  <1>15. CASE Skip(h)
    <2>1. pc[h] \in {"reserved", "staged"} /\ Moves("idle")
      BY Zenon, <1>1, <1>15 DEF Skip, Return
    <2>2. PICK w : w = Available(FALSE)
      BY Zenon
    <2>3. w.reaper = NoOne /\ w.source \in {NoOne, OwnerOf[h]} /\ w \in Control /\ Canonical(w)
      BY Zenon, <1>0, <2>2 DEF Empty, Available, Owned, Control, Bases, Canonical
    <2>4. control' = [control EXCEPT ![i] = w]
      BY Zenon, <1>0, <1>15, <2>2 DEF Skip, SetControl
    <2>5. PcOK'
      BY Zenon, <1>2, <2>1 DEF ProducerPcs
    <2>6. cur' \in [Workers -> Cursor] /\ seen' \in [Workers -> BOOLEAN]
      <3>1. cur' = [cur EXCEPT ![h] = Zero] /\ seen' = [seen EXCEPT ![h] = FALSE]
        BY Zenon, <1>15 DEF Skip, Return
      <3> QED
        BY Zenon, <3>1, CursorTypes DEF QueueInv, TypeOK
    <2>7. TypeOK'
      BY Zenon, <1>0, <1>15, <2>3, <2>4, <2>5, <2>6
      DEF Skip, Elsewhere, repairState, QueueInv, TypeOK
    <2>8. \A g \in Workers \ {h} : cur'[g] = cur[g] /\ seen'[g] = seen[g]
      BY Zenon, <1>0, <1>15 DEF Skip, Return, QueueInv, TypeOK
    <2>9. ~Holds(h)'
      BY <1>0, <1>3, <2>1 DEF Holds
    <2>10. Holds(h) /\ control[i].reaper = NoOne
      BY Zenon, <1>0, <2>1, OwnSlot DEF Holds
    <2> QED
      BY Zenon, <1>0, <1>3, <2>1, <2>3, <2>4, <2>7, <2>8, <2>9, <2>10, WritingStep
      DEF Elsewhere, repairState
  <1> QED
    BY Zenon, <1>4, <1>5, <1>6, <1>7, <1>8, <1>9, <1>10, <1>11, <1>12, <1>13, <1>14, <1>15
    DEF ProducerStart, ProducerStep

\* Every step of a receiver keeps the inductive invariant.
LEMMA ConsumerKeeps ==
    ASSUME NEW h \in Consumers, QueueInv, ConsumerStep(h)
    PROVE  QueueInv'
  <1> USE QueueAssumption
  <1> PICK i \in Slots : i = SlotOf(h)
    BY Zenon DEF Workers, QueueInv, TypeOK, SlotOf, Cursor
  <1>0. /\ h \in Workers /\ h \notin Producers /\ h \in Handles
        /\ Runs(h) /\ Elsewhere /\ OwnerOf[h] \in Participants
        /\ SlotOf(h) = i /\ cur[h] \in Cursor /\ seen[h] \in BOOLEAN
    BY Zenon DEF ConsumerStep, Workers, Handles, QueueInv, TypeOK
  <1> DEFINE Moves(x) ==
        /\ pc' = [pc EXCEPT ![h] = x]
        /\ \A g \in Handles \ {h} : pc'[g] = pc[g]
        /\ pc'[h] = x
  <1>1. \A here, there : Goto(h, here, there) => pc[h] = here /\ Moves(there)
    BY Zenon, <1>0 DEF Goto, QueueInv, TypeOK, PcOK
  <1>2. \A x \in ConsumerPcs : Moves(x) => PcOK'
    BY <1>0 DEF QueueInv, TypeOK, PcOK, Handles, Workers
  <1> HIDE DEF Moves
  <1>3. \A x : Moves(x) => pc'[h] = x /\ \A g \in Handles \ {h} : pc'[g] = pc[g]
    BY Zenon DEF Moves
  <1>4. CASE ClaimStart(h)
    <2>1. pc[h] = "idle" /\ Moves("load")
      BY Zenon, <1>1, <1>4 DEF ClaimStart
    <2>2. PcOK'
      BY Zenon, <1>2, <2>1 DEF ConsumerPcs
    <2>3. TypeOK'
      BY Zenon, <1>0, <1>4, <2>2, CursorTypes
      DEF ClaimStart, Elsewhere, ring, repairState, QueueInv, TypeOK
    <2>4. \A g \in Workers \ {h} : cur'[g] = cur[g] /\ seen'[g] = seen[g]
      BY Zenon, <1>0, <1>4 DEF ClaimStart, QueueInv, TypeOK
    <2>5. Holds(h)' => Holds(h) /\ SlotOf(h)' = SlotOf(h) /\ HeldBy(h)' = HeldBy(h)
      BY <1>0, <1>3, <1>4, <2>1 DEF ClaimStart, Holds, SlotOf, HeldBy
    <2> QED
      BY Zenon, <1>0, <1>3, <1>4, <2>1, <2>3, <2>4, <2>5, QuietStep
      DEF ClaimStart, Elsewhere, ring, repairState
  <1>5. CASE ClaimLoad(h)
    <2>1. pc[h] = "load" /\ Moves("look")
      BY Zenon, <1>1, <1>5 DEF ClaimLoad
    <2>2. PcOK'
      BY Zenon, <1>2, <2>1 DEF ConsumerPcs
    <2>3. TypeOK'
      BY Zenon, <1>0, <1>5, <2>2, CursorTypes
      DEF ClaimLoad, Elsewhere, ring, repairState, QueueInv, TypeOK
    <2>4. \A g \in Workers \ {h} : cur'[g] = cur[g] /\ seen'[g] = seen[g]
      BY Zenon, <1>0, <1>5 DEF ClaimLoad, QueueInv, TypeOK
    <2>5. Holds(h)' => Holds(h) /\ SlotOf(h)' = SlotOf(h) /\ HeldBy(h)' = HeldBy(h)
      BY <1>0, <1>3, <1>5, <2>1 DEF ClaimLoad, Holds, SlotOf, HeldBy
    <2> QED
      BY Zenon, <1>0, <1>3, <1>5, <2>1, <2>3, <2>4, <2>5, QuietStep
      DEF ClaimLoad, Elsewhere, ring, repairState
  <1>6. CASE ClaimLook(h)
    <2>1. pc[h] = "look" /\ (Moves("own") \/ Moves("probe"))
      BY Zenon, <1>1, <1>6 DEF ClaimLook
    <2>2. PcOK'
      BY Zenon, <1>2, <2>1 DEF ConsumerPcs
    <2>3. control[i].complete \in BOOLEAN
      BY Zenon, <1>0 DEF QueueInv, TypeOK, Control, SlotOf, Cursor
    <2>4. TypeOK'
      BY <1>0, <1>6, <2>2, <2>3, CursorTypes
      DEF ClaimLook, Elsewhere, ring, repairState, QueueInv, TypeOK
    <2>5. \A g \in Workers \ {h} : cur'[g] = cur[g] /\ seen'[g] = seen[g]
      BY Zenon, <1>0, <1>6 DEF ClaimLook, QueueInv, TypeOK
    <2>6. Holds(h)' => Holds(h) /\ SlotOf(h)' = SlotOf(h) /\ HeldBy(h)' = HeldBy(h)
      BY <1>0, <1>3, <1>6, <2>1 DEF ClaimLook, Holds, SlotOf, HeldBy
    <2> QED
      BY Zenon, <1>0, <1>3, <1>6, <2>1, <2>4, <2>5, <2>6, QuietStep
      DEF ClaimLook, Elsewhere, ring, repairState
  <1>7. CASE ClaimEmpty(h)
    <2>1. pc[h] = "probe" /\ Moves("idle")
      BY Zenon, <1>1, <1>7 DEF ClaimEmpty, Return
    <2>2. PcOK'
      BY Zenon, <1>2, <2>1 DEF ConsumerPcs
    <2>3. TypeOK'
      BY Zenon, <1>0, <1>7, <2>2, CursorTypes
      DEF ClaimEmpty, Return, Elsewhere, ring, repairState, QueueInv, TypeOK
    <2>4. \A g \in Workers \ {h} : cur'[g] = cur[g] /\ seen'[g] = seen[g]
      BY Zenon, <1>0, <1>7 DEF ClaimEmpty, Return, QueueInv, TypeOK
    <2>5. Holds(h)' => Holds(h) /\ SlotOf(h)' = SlotOf(h) /\ HeldBy(h)' = HeldBy(h)
      BY <1>0, <1>3, <1>7, <2>1 DEF ClaimEmpty, Return, Holds, SlotOf, HeldBy
    <2> QED
      BY Zenon, <1>0, <1>3, <1>7, <2>1, <2>3, <2>4, <2>5, QuietStep
      DEF ClaimEmpty, Elsewhere, ring, repairState
  <1>8. CASE ClaimBusy(h)
    <2>1. pc[h] = "probe" /\ Moves("idle")
      BY Zenon, <1>1, <1>8 DEF ClaimBusy, Return
    <2>2. PcOK'
      BY Zenon, <1>2, <2>1 DEF ConsumerPcs
    <2>3. TypeOK'
      BY Zenon, <1>0, <1>8, <2>2, CursorTypes
      DEF ClaimBusy, Return, Elsewhere, ring, repairState, QueueInv, TypeOK
    <2>4. \A g \in Workers \ {h} : cur'[g] = cur[g] /\ seen'[g] = seen[g]
      BY Zenon, <1>0, <1>8 DEF ClaimBusy, Return, QueueInv, TypeOK
    <2>5. Holds(h)' => Holds(h) /\ SlotOf(h)' = SlotOf(h) /\ HeldBy(h)' = HeldBy(h)
      BY <1>0, <1>3, <1>8, <2>1 DEF ClaimBusy, Return, Holds, SlotOf, HeldBy
    <2> QED
      BY Zenon, <1>0, <1>3, <1>8, <2>1, <2>3, <2>4, <2>5, QuietStep
      DEF ClaimBusy, Elsewhere, ring, repairState
  <1>9. CASE ClaimOwn(h)
    <2>1. CASE control[i] = Available(seen[h])
      <3>1. pc[h] = "own" /\ Moves("check")
        BY Zenon, <1>0, <1>1, <1>9, <2>1 DEF ClaimOwn
      <3>2. PICK w : w = Owned("CONSUMER", seen[h], OwnerOf[h])
        BY Zenon
      <3>3. w.reaper = NoOne /\ w.source = OwnerOf[h] /\ w \in Control /\ Canonical(w)
        BY Zenon, <1>0, <3>2 DEF Owned, Control, Bases, Canonical
      <3>4. control' = [control EXCEPT ![i] = w] /\ cur' = cur /\ seen' = seen
        BY Zenon, <1>0, <1>9, <2>1, <3>2 DEF ClaimOwn, SetControl
      <3>5. PcOK'
        BY Zenon, <1>2, <3>1 DEF ConsumerPcs
      <3>6. TypeOK'
        BY Zenon, <1>0, <1>9, <3>3, <3>4, <3>5
        DEF ClaimOwn, Elsewhere, repairState, QueueInv, TypeOK
      <3>7. (pc'[h] = "staged") = FALSE
        BY <1>3, <3>1
      <3>8. SlotOf(h)' = i /\ HeldBy(h)' = w
        BY Zenon, <1>0, <3>2, <3>4, <3>7 DEF SlotOf, HeldBy, Owned
      <3>9. control[i].reaper = NoOne /\ control[i].source = NoOne
        BY Zenon, <2>1, WordFields
      <3> QED
        BY Zenon, <1>0, <1>3, <3>1, <3>3, <3>4, <3>6, <3>8, <3>9, WritingStep
        DEF Elsewhere, repairState
    <2>2. CASE control[i] # Available(seen[h])
      <3>1. pc[h] = "own" /\ Moves("idle") /\ control' = control
        BY Zenon, <1>0, <1>1, <1>9, <2>2 DEF ClaimOwn, Return
      <3>2. PcOK'
        BY Zenon, <1>2, <3>1 DEF ConsumerPcs
      <3>3. cur' \in [Workers -> Cursor] /\ seen' \in [Workers -> BOOLEAN]
        <4>1. cur' = [cur EXCEPT ![h] = Zero] /\ seen' = [seen EXCEPT ![h] = FALSE]
          BY Zenon, <1>0, <1>9, <2>2 DEF ClaimOwn, Return
        <4> QED
          BY Zenon, <4>1, CursorTypes DEF QueueInv, TypeOK
      <3>4. TypeOK'
        BY Zenon, <1>0, <1>9, <2>2, <3>1, <3>2, <3>3
        DEF ClaimOwn, Elsewhere, repairState, QueueInv, TypeOK
      <3>5. \A g \in Workers \ {h} : cur'[g] = cur[g] /\ seen'[g] = seen[g]
        BY <1>0, <1>9, <2>2 DEF ClaimOwn, Return, QueueInv, TypeOK
      <3>6. ~Holds(h)'
        BY <1>0, <1>3, <3>1 DEF Holds
      <3> QED
        BY Zenon, <1>0, <1>3, <3>1, <3>4, <3>5, <3>6, QuietStep
        DEF Elsewhere, repairState
    <2> QED
      BY Zenon, <2>1, <2>2
  <1>10. CASE ClaimCheck(h)
    <2>1. pc[h] = "check" /\ (Moves("commit") \/ Moves("undo"))
      BY Zenon, <1>1, <1>10 DEF ClaimCheck
    <2>2. PcOK'
      BY Zenon, <1>2, <2>1 DEF ConsumerPcs
    <2>3. TypeOK'
      BY Zenon, <1>0, <1>10, <2>2, CursorTypes
      DEF ClaimCheck, Elsewhere, ring, repairState, QueueInv, TypeOK
    <2>4. \A g \in Workers \ {h} : cur'[g] = cur[g] /\ seen'[g] = seen[g]
      BY Zenon, <1>0, <1>10 DEF ClaimCheck, QueueInv, TypeOK
    <2>5. Holds(h)' => Holds(h) /\ SlotOf(h)' = SlotOf(h) /\ HeldBy(h)' = HeldBy(h)
      BY Zenon, <1>0, <1>3, <1>10, <2>1 DEF ClaimCheck, Holds, SlotOf, HeldBy
    <2> QED
      BY Zenon, <1>0, <1>3, <1>10, <2>1, <2>3, <2>4, <2>5, QuietStep
      DEF ClaimCheck, Elsewhere, ring, repairState
  <1>11. CASE ClaimCommit(h)
    <2>1. pc[h] = "commit" /\ (Moves("claimed") \/ Moves("recycle") \/ Moves("undo"))
      BY Zenon, <1>1, <1>11 DEF ClaimCommit
    <2>2. PcOK'
      BY Zenon, <1>2, <2>1 DEF ConsumerPcs
    <2>3. TypeOK'
      BY <1>0, <1>11, <2>2, CursorTypes
      DEF ClaimCommit, Elsewhere, ring, repairState, QueueInv, TypeOK
    <2>4. \A g \in Workers \ {h} : cur'[g] = cur[g] /\ seen'[g] = seen[g]
      BY Zenon, <1>0, <1>11 DEF ClaimCommit, QueueInv, TypeOK
    <2>5. Holds(h)' => Holds(h) /\ SlotOf(h)' = SlotOf(h) /\ HeldBy(h)' = HeldBy(h)
      BY Zenon, <1>0, <1>3, <1>11, <2>1 DEF ClaimCommit, Holds, SlotOf, HeldBy
    <2> QED
      BY Zenon, <1>0, <1>3, <1>11, <2>1, <2>3, <2>4, <2>5, QuietStep
      DEF ClaimCommit, Elsewhere, ring, repairState
  <1>12. CASE ClaimUndo(h)
    <2>1. pc[h] = "undo" /\ Moves("idle")
      BY Zenon, <1>1, <1>12 DEF ClaimUndo, Return
    <2>2. PICK w : w = Available(seen[h])
      BY Zenon
    <2>3. w.reaper = NoOne /\ w.source \in {NoOne, OwnerOf[h]} /\ w \in Control /\ Canonical(w)
      BY Zenon, <1>0, <2>2 DEF Empty, Available, Owned, Control, Bases, Canonical
    <2>4. control' = [control EXCEPT ![i] = w]
      BY Zenon, <1>0, <1>12, <2>2 DEF ClaimUndo, SetControl
    <2>5. PcOK'
      BY Zenon, <1>2, <2>1 DEF ConsumerPcs
    <2>6. cur' \in [Workers -> Cursor] /\ seen' \in [Workers -> BOOLEAN]
      BY Zenon, <1>0, <1>12, CursorTypes DEF ClaimUndo, Return, QueueInv, TypeOK
    <2>7. TypeOK'
      BY Zenon, <1>0, <1>12, <2>3, <2>4, <2>5, <2>6
      DEF ClaimUndo, Elsewhere, repairState, QueueInv, TypeOK
    <2>8. \A g \in Workers \ {h} : cur'[g] = cur[g] /\ seen'[g] = seen[g]
      BY Zenon, <1>0, <1>12 DEF ClaimUndo, Return, QueueInv, TypeOK
    <2>9. ~Holds(h)'
      BY <1>0, <1>3, <2>1 DEF Holds
    <2>10. Holds(h) /\ control[i].reaper = NoOne
      BY Zenon, <1>0, <2>1, OwnSlot DEF Holds
    <2> QED
      BY Zenon, <1>0, <1>3, <2>1, <2>3, <2>4, <2>7, <2>8, <2>9, <2>10, WritingStep
      DEF Elsewhere, repairState
  <1>13. CASE Take(h)
    <2>1. pc[h] = "claimed" /\ Moves("recycle")
      BY Zenon, <1>1, <1>13 DEF Take
    <2>2. PcOK'
      BY Zenon, <1>2, <2>1 DEF ConsumerPcs
    <2>3. value[i] \in Cursor
      BY Zenon, <1>0 DEF QueueInv, TypeOK, Control, SlotOf, Cursor
    <2>4. TypeOK'
      BY Zenon, <1>0, <1>13, <2>2, <2>3, CursorTypes
      DEF Take, Elsewhere, ring, repairState, QueueInv, TypeOK
    <2>5. \A g \in Workers \ {h} : cur'[g] = cur[g] /\ seen'[g] = seen[g]
      BY Zenon, <1>0, <1>13 DEF Take, QueueInv, TypeOK
    <2>6. Holds(h)' => Holds(h) /\ SlotOf(h)' = SlotOf(h) /\ HeldBy(h)' = HeldBy(h)
      BY Zenon, <1>0, <1>3, <1>13, <2>1 DEF Take, Holds, SlotOf, HeldBy
    <2> QED
      BY Zenon, <1>0, <1>3, <1>13, <2>1, <2>4, <2>5, <2>6, QuietStep
      DEF Take, Elsewhere, ring, repairState
  <1>14. CASE RecycleTurn(h)
    <2>1. pc[h] = "recycle" /\ Moves("free")
      BY Zenon, <1>1, <1>14 DEF RecycleTurn
    <2>2. PcOK'
      BY Zenon, <1>2, <2>1 DEF ConsumerPcs
    <2>3. TypeOK'
      BY Zenon, <1>0, <1>14, <2>2, CursorTypes
      DEF RecycleTurn, Elsewhere, ring, repairState, QueueInv, TypeOK
    <2>4. \A g \in Workers \ {h} : cur'[g] = cur[g] /\ seen'[g] = seen[g]
      BY Zenon, <1>0, <1>14 DEF RecycleTurn, QueueInv, TypeOK
    <2>5. Holds(h)' => Holds(h) /\ SlotOf(h)' = SlotOf(h) /\ HeldBy(h)' = HeldBy(h)
      BY Zenon, <1>0, <1>3, <1>14, <2>1 DEF RecycleTurn, Holds, SlotOf, HeldBy
    <2> QED
      BY Zenon, <1>0, <1>3, <1>14, <2>1, <2>3, <2>4, <2>5, QuietStep
      DEF RecycleTurn, Elsewhere, ring, repairState
  <1>15. CASE RecycleFree(h)
    <2>1. pc[h] = "free" /\ Moves("idle")
      BY Zenon, <1>1, <1>15 DEF RecycleFree, Return
    <2>2. PICK w : w = Empty
      BY Zenon
    <2>3. w.reaper = NoOne /\ w.source \in {NoOne, OwnerOf[h]} /\ w \in Control /\ Canonical(w)
      BY Zenon, <1>0, <2>2 DEF Empty, Available, Owned, Control, Bases, Canonical
    <2>4. control' = [control EXCEPT ![i] = w]
      BY Zenon, <1>0, <1>15, <2>2 DEF RecycleFree, SetControl
    <2>5. PcOK'
      BY Zenon, <1>2, <2>1 DEF ConsumerPcs
    <2>6. cur' \in [Workers -> Cursor] /\ seen' \in [Workers -> BOOLEAN]
      BY Zenon, <1>0, <1>15, CursorTypes DEF RecycleFree, Return, QueueInv, TypeOK
    <2>7. TypeOK'
      BY Zenon, <1>0, <1>15, <2>3, <2>4, <2>5, <2>6
      DEF RecycleFree, Elsewhere, repairState, QueueInv, TypeOK
    <2>8. \A g \in Workers \ {h} : cur'[g] = cur[g] /\ seen'[g] = seen[g]
      BY Zenon, <1>0, <1>15 DEF RecycleFree, Return, QueueInv, TypeOK
    <2>9. ~Holds(h)'
      BY <1>0, <1>3, <2>1 DEF Holds
    <2>10. Holds(h) /\ control[i].reaper = NoOne
      BY Zenon, <1>0, <2>1, OwnSlot DEF Holds
    <2> QED
      BY Zenon, <1>0, <1>3, <2>1, <2>3, <2>4, <2>7, <2>8, <2>9, <2>10, WritingStep
      DEF Elsewhere, repairState
  <1> QED
    BY Zenon, <1>4, <1>5, <1>6, <1>7, <1>8, <1>9, <1>10, <1>11, <1>12, <1>13, <1>14, <1>15
    DEF ConsumerStep

\* A step that leaves the workers, the reapers and the control words alone, and
\* revives nobody: closing and finishing a field, a death, an adoption.
LEMMA SideStep ==
    ASSUME QueueInv, TypeOK', alive' \subseteq alive, control' = control, cur' = cur, seen' = seen,
           victim' = victim, word' = word,
           \A g \in Workers \cup Reapers : pc'[g] = pc[g],
           \A r \in Reapers : at'[r] = at[r]
    PROVE  QueueInv'
  <1>1. \A g \in Workers : /\ (Holds(g)' <=> Holds(g)) /\ SlotOf(g)' = SlotOf(g)
                           /\ HeldBy(g)' = HeldBy(g) /\ (Runs(g)' => Runs(g))
    BY Zenon DEF Holds, SlotOf, HeldBy, Runs, Workers
  <1>2. SlotExclusion'
    BY Zenon, <1>1 DEF QueueInv, SlotExclusion
  <1>3. MarkedIsDead' /\ VictimIsDead' /\ ReadyToMark'
    BY Zenon DEF QueueInv, MarkedIsDead, VictimIsDead, ReadyToMark, Idle
  <1>4. Repairing' /\ Resolved'
    BY Zenon DEF QueueInv, Repairing, Resolved, Runs
  <1>5. Cleared'
    BY Zenon DEF QueueInv, Cleared, Idle
  <1> QED
    BY Zenon, <1>2, <1>3, <1>4, <1>5 DEF QueueInv

\* A death keeps the inductive invariant.
LEMMA DieKeeps == ASSUME NEW p \in Participants, QueueInv, Die(p) PROVE QueueInv'
  <1>1. TypeOK'
    BY Zenon DEF Die, ring, repairState, QueueInv, TypeOK, PcOK
  <1> QED
    BY Zenon, <1>1, SideStep DEF Die, ring, repairState

\* Closing a field keeps the inductive invariant.
LEMMA CloseKeeps ==
    ASSUME NEW f \in {"send", "recv"}, QueueInv, CloseField(f) PROVE QueueInv'
  <1>1. TypeOK'
    BY Zenon DEF CloseField, ring, repairState, QueueInv, TypeOK, PcOK
  <1> QED
    BY Zenon, <1>1, SideStep DEF CloseField, ring, repairState

\* Adopting a role keeps the inductive invariant.
LEMMA AdoptKeeps == ASSUME NEW h \in Workers, QueueInv, Adopt(h) PROVE QueueInv'
  <1>1. TypeOK'
    BY Zenon, QueueAssumption DEF Adopt, ring, repairState, QueueInv, TypeOK, PcOK
  <1> QED
    BY Zenon, <1>1, SideStep DEF Adopt, ring, repairState

\* Finishing a field keeps the inductive invariant.
LEMMA CloserKeeps == ASSUME NEW h \in Closers, QueueInv, CloserStep(h) PROVE QueueInv'
  <1> USE QueueAssumption
  <1>0. /\ h \in Handles /\ h \notin Workers /\ h \notin Reapers
        /\ 0 \in 0 .. Capacity /\ at[h] \in 0 .. Capacity /\ field[h] \in {"send", "recv"}
    BY DEF Handles, QueueInv, TypeOK
  <1>1. /\ UNCHANGED <<ring, holder, alive, cur, seen, repairState, settled>>
        /\ \/ pc' = pc
           \/ \E x \in CloserPcs : pc' = [pc EXCEPT ![h] = x]
        /\ \E k \in 0 .. Capacity : at' = [at EXCEPT ![h] = k]
    <2>1. CASE \E f \in {"send", "recv"} : FinishStart(h, f)
      BY Zenon, <1>0, <2>1 DEF FinishStart, Goto, CloserPcs
    <2>2. CASE FinishScan(h)
      <3>1. at[h] + 1 \in 0 .. Capacity /\ 0 \in 0 .. Capacity
        BY <1>0, <2>2 DEF FinishScan
      <3> QED
        BY Zenon, <2>2, <3>1 DEF FinishScan, Goto, CloserPcs
    <2>3. CASE FinishSet(h)
      BY Zenon, <1>0, <2>3 DEF FinishSet, Goto, CloserPcs
    <2> QED
      BY Zenon, <2>1, <2>2, <2>3 DEF CloserStep
  <1>2. PcOK' /\ \A g \in Workers \cup Reapers : pc'[g] = pc[g]
    BY Zenon, <1>0, <1>1 DEF QueueInv, TypeOK, PcOK, Handles, Workers
  <1>3. at' \in [Closers \cup Reapers -> 0 .. Capacity] /\ \A r \in Reapers : at'[r] = at[r]
    BY <1>0, <1>1 DEF QueueInv, TypeOK
  <1>4. gate' \in [{"send", "recv"} -> {0, 1, 3}] /\ field' \in [Closers -> {"send", "recv"}]
    BY <1>0 DEF CloserStep, FinishStart, FinishScan, FinishSet, QueueInv, TypeOK
  <1>5. TypeOK'
    BY Zenon, <1>1, <1>2, <1>3, <1>4 DEF ring, repairState, QueueInv, TypeOK
  <1> QED
    BY Zenon, <1>1, <1>2, <1>3, <1>5, SideStep DEF ring, repairState

---------------------------------------------------------------------------
(* The steps of a reaper.                                                  *)


\* the part of the invariant about one reaper
ReaperInv(r) ==
    /\ ~Idle(r) => victim[r] \in Participants \ alive
    /\ pc[r] = "mark" => /\ word[r].base \in {"PRODUCER", "CONSUMER"}
                         /\ word[r].source \in Participants \ alive
                         /\ word[r].reaper \notin alive
    /\ Runs(r) /\ pc[r] \in {"act", "release", "turn", "store"} =>
         /\ control[at[r]].source \in Participants \ alive
         /\ control[at[r]].reaper = OwnerOf[r]
    /\ pc[r] \in {"release", "turn", "store"} =>
         word[r] \in {Empty, Available(TRUE), Available(FALSE)}
    /\ \A i \in Slots : ~Idle(r) /\ (i < at[r] \/ pc[r] = "roles") =>
         control[i].source # victim[r] /\ control[i].reaper # victim[r]

\* The inductive invariant, reaper by reaper.
LEMMA PerReaper ==
    QueueInv <=> TypeOK /\ SlotExclusion /\ MarkedIsDead /\ \A r \in Reapers : ReaperInv(r)
  BY Zenon DEF QueueInv, ReaperInv, VictimIsDead, ReadyToMark, Repairing, Resolved, Cleared

\* The same after a step.
LEMMA PerReaperNext ==
    ASSUME TypeOK', SlotExclusion', MarkedIsDead', \A r \in Reapers : ReaperInv(r)'
    PROVE  QueueInv'
  <1>1. VictimIsDead' /\ ReadyToMark'
    BY Zenon DEF ReaperInv, VictimIsDead, ReadyToMark
  <1>2. Repairing' /\ Resolved'
    BY Zenon DEF ReaperInv, Repairing, Resolved
  <1>3. Cleared'
    BY Zenon DEF ReaperInv, Cleared
  <1> QED
    BY Zenon, <1>1, <1>2, <1>3 DEF QueueInv

\* A step of one reaper that writes no control word keeps the invariant if it
\* keeps what the invariant says about that reaper.
LEMMA ReaperQuiet ==
    ASSUME NEW r \in Reapers, QueueInv, TypeOK',
           alive' = alive, cur' = cur, seen' = seen, control' = control,
           \A g \in Handles \ {r} : pc'[g] = pc[g],
           \A q \in Reapers \ {r} : at'[q] = at[q] /\ victim'[q] = victim[q] /\ word'[q] = word[q],
           ReaperInv(r)'
    PROVE  QueueInv'
  <1>1. \A g \in Workers : pc'[g] = pc[g]
    BY Zenon, QueueAssumption DEF Handles
  <1>2. \A g \in Workers : /\ (Holds(g)' <=> Holds(g)) /\ SlotOf(g)' = SlotOf(g)
                           /\ HeldBy(g)' = HeldBy(g) /\ (Runs(g)' <=> Runs(g))
    BY Zenon, <1>1 DEF Holds, SlotOf, HeldBy, Runs, Workers
  <1>3. SlotExclusion' /\ MarkedIsDead'
    BY Zenon, <1>2 DEF QueueInv, SlotExclusion, MarkedIsDead
  <1>4. \A q \in Reapers \ {r} : ReaperInv(q)'
    <2> SUFFICES ASSUME NEW q \in Reapers \ {r} PROVE ReaperInv(q)'
      BY Zenon
    <2>1. ReaperInv(q) /\ pc'[q] = pc[q]
      BY Zenon, PerReaper DEF Handles
    <2> QED
      BY Zenon, <2>1 DEF ReaperInv, Idle, Runs
  <1> QED
    BY Zenon, <1>3, <1>4, PerReaperNext

\* A step of a running reaper that writes the word of the slot it looks at, which
\* names a dead owner and no other living reaper, keeps the invariant if it keeps
\* what the invariant says about that reaper.
LEMMA ReaperWrite ==
    ASSUME OneReaperEach, NEW r \in Reapers, NEW i \in Slots, NEW w, QueueInv, TypeOK', Runs(r),
           alive' = alive, cur' = cur, seen' = seen, control' = [control EXCEPT ![i] = w],
           control[i].source \in Participants \ alive,
           control[i].reaper = OwnerOf[r] \/ control[i].reaper \notin alive,
           w.reaper = NoOne \/ (w.reaper = OwnerOf[r] /\ w.source = control[i].source),
           w.source = NoOne \/ w.source = control[i].source,
           \A g \in Handles \ {r} : pc'[g] = pc[g],
           \A q \in Reapers \ {r} : at'[q] = at[q] /\ victim'[q] = victim[q] /\ word'[q] = word[q],
           ReaperInv(r)'
    PROVE  QueueInv'
  <1>0. /\ NoOne \notin Participants /\ control'[i] = w
        /\ \A j \in Slots \ {i} : control'[j] = control[j]
        /\ OwnerOf[r] \in alive
    BY Zenon, QueueAssumption DEF QueueInv, TypeOK, Runs
  <1>1. \A g \in Workers : pc'[g] = pc[g]
    BY Zenon, QueueAssumption DEF Handles
  <1>2. \A g \in Workers : /\ (Holds(g)' <=> Holds(g)) /\ SlotOf(g)' = SlotOf(g)
                           /\ HeldBy(g)' = HeldBy(g) /\ (Runs(g)' <=> Runs(g))
                           /\ SlotOf(g) \in Slots
    BY Zenon, <1>1 DEF Holds, SlotOf, HeldBy, Runs, Workers, QueueInv, TypeOK, Cursor
  <1>3. \A g \in Workers : Holds(g) /\ Runs(g) => SlotOf(g) # i
    <2> SUFFICES ASSUME NEW g \in Workers, Holds(g), Runs(g) PROVE SlotOf(g) # i
      BY Zenon
    <2>1. control[SlotOf(g)] = HeldBy(g)
      BY Zenon DEF QueueInv, SlotExclusion
    <2>2. HeldBy(g).source = OwnerOf[g]
      BY Zenon DEF HeldBy, Owned
    <2> QED
      BY Zenon, <2>1, <2>2 DEF Runs
  <1>4. SlotExclusion'
    <2>1. SlotExclusion
      BY Zenon DEF QueueInv
    <2>2. ASSUME NEW g \in Workers, Holds(g)', Runs(g)'
          PROVE  control'[SlotOf(g)'] = HeldBy(g)'
      <3>1. Holds(g) /\ Runs(g) /\ SlotOf(g)' = SlotOf(g) /\ HeldBy(g)' = HeldBy(g)
        BY Zenon, <1>2, <2>2
      <3>2. control[SlotOf(g)] = HeldBy(g)
        BY Zenon, <2>1, <3>1 DEF SlotExclusion
      <3>3. SlotOf(g) \in Slots \ {i}
        BY Zenon, <1>2, <1>3, <3>1
      <3>4. control'[SlotOf(g)] = control[SlotOf(g)]
        BY Zenon, <1>0, <3>3
      <3> QED
        BY Zenon, <3>1, <3>2, <3>4
    <2>3. ASSUME NEW g \in Workers, Holds(g)', Runs(g)',
                 NEW k \in Workers \ {g}, Holds(k)', Runs(k)'
          PROVE  SlotOf(k)' # SlotOf(g)'
      BY Zenon, <1>2, <2>1, <2>3 DEF SlotExclusion
    <2> QED
      BY Zenon, <2>2, <2>3 DEF SlotExclusion
  <1>5. MarkedIsDead'
    BY <1>0 DEF QueueInv, MarkedIsDead
  <1>6. \A q \in Reapers \ {r} : ReaperInv(q)'
    <2> SUFFICES ASSUME NEW q \in Reapers \ {r} PROVE ReaperInv(q)'
      BY Zenon
    <2>1. ReaperInv(q) /\ pc'[q] = pc[q] /\ at[q] \in Slots
      BY Zenon, PerReaper DEF Handles, QueueInv, TypeOK
    <2>2. Runs(q) /\ pc[q] \in {"act", "release", "turn", "store"} => at[q] # i
      <3> SUFFICES ASSUME Runs(q), pc[q] \in {"act", "release", "turn", "store"}, at[q] = i
                   PROVE  FALSE
        BY Zenon
      <3>1. control[i].reaper = OwnerOf[q] /\ OwnerOf[q] \in alive
        BY Zenon, <2>1 DEF ReaperInv, Runs
      <3> QED
        BY Zenon, <3>1 DEF OneReaperEach
    <2>3. Runs(q)' /\ pc'[q] \in {"act", "release", "turn", "store"} =>
            /\ control'[at'[q]].source \in Participants \ alive'
            /\ control'[at'[q]].reaper = OwnerOf[q]
      BY <1>0, <2>1, <2>2 DEF ReaperInv, Runs
    <2>4. ASSUME NEW j \in Slots, ~Idle(q)', j < at'[q] \/ pc'[q] = "roles"
          PROVE  control'[j].source # victim'[q] /\ control'[j].reaper # victim'[q]
      <3>1. /\ victim[q] \in Participants \ alive
            /\ control[j].source # victim[q] /\ control[j].reaper # victim[q]
        BY Zenon, <2>1, <2>4 DEF ReaperInv, Idle
      <3>2. CASE j = i
        BY <1>0, <3>1, <3>2
      <3>3. CASE j # i
        BY Zenon, <1>0, <3>1, <3>3
      <3> QED
        BY Zenon, <3>2, <3>3
    <2> QED
      BY Zenon, <2>1, <2>3, <2>4 DEF ReaperInv, Idle
  <1> QED
    BY Zenon, <1>4, <1>5, <1>6, PerReaperNext

\* what a step of reaper r does to the handles and to the locals of the reapers
ReaperMoves(r, here, there) ==
    /\ pc[r] = here /\ pc'[r] = there
    /\ PcOK'
    /\ \A g \in Handles \ {r} : pc'[g] = pc[g]

ReaperLocals(r, k, d, w) ==
    /\ at' = [at EXCEPT ![r] = k] /\ k \in Slots
    /\ victim' = [victim EXCEPT ![r] = d] /\ d \in Participants \cup {NoOne}
    /\ word' = [word EXCEPT ![r] = w] /\ w \in Control

\* A jump of a reaper moves that reaper only.
LEMMA ReaperGoto ==
    ASSUME NEW r \in Reapers, QueueInv, NEW here, NEW there \in ReaperPcs, Goto(r, here, there)
    PROVE  ReaperMoves(r, here, there)
  <1>1. r \in Handles /\ r \notin Workers /\ r \notin Closers
    BY Zenon, QueueAssumption DEF Handles
  <1>2. /\ pc[r] = here /\ pc'[r] = there /\ DOMAIN pc' = Handles
        /\ \A g \in Handles \ {r} : pc'[g] = pc[g]
    BY Zenon, <1>1 DEF Goto, QueueInv, TypeOK, PcOK
  <1>3. PcOK'
    BY Zenon, <1>1, <1>2 DEF PcOK, QueueInv, TypeOK, Handles, Workers
  <1> QED
    BY Zenon, <1>2, <1>3 DEF ReaperMoves

\* What the locals of the reapers are after such a step.
LEMMA ReaperFrame ==
    ASSUME NEW r \in Reapers, QueueInv, NEW k, NEW d, NEW w, ReaperLocals(r, k, d, w)
    PROVE  /\ at'[r] = k /\ victim'[r] = d /\ word'[r] = w
           /\ \A q \in Reapers \ {r} : at'[q] = at[q] /\ victim'[q] = victim[q] /\ word'[q] = word[q]
           /\ at' \in [Closers \cup Reapers -> 0 .. Capacity]
           /\ \A q \in Reapers : at'[q] \in Slots
           /\ victim' \in [Reapers -> Participants \cup {NoOne}]
           /\ word' \in [Reapers -> Control]
  <1>1. k \in 0 .. Capacity
    BY QueueAssumption DEF ReaperLocals, Slots
  <1> QED
    BY Zenon, <1>1 DEF ReaperLocals, QueueInv, TypeOK

\* recover returning leaves the reaper idle.
LEMMA StopMoves ==
    ASSUME NEW r \in Reapers, QueueInv, NEW here, Stop(r, here)
    PROVE  ReaperMoves(r, here, "idle") /\ ReaperLocals(r, 0, NoOne, Empty)
  <1>1. ReaperMoves(r, here, "idle")
    BY Zenon, ReaperGoto DEF Stop, ReaperPcs
  <1>2. 0 \in Slots /\ Empty \in Control
    BY QueueAssumption, WordTypes DEF Slots
  <1> QED
    BY Zenon, <1>1, <1>2 DEF Stop, ReaperLocals

\* An idle reaper satisfies its part of the invariant.
LEMMA IdleReaper == ASSUME NEW r \in Reapers, pc'[r] = "idle" PROVE ReaperInv(r)'
  BY Zenon DEF ReaperInv, Idle

\* The slot and the word a reaper looks at, and the part of the invariant about it.
LEMMA ReaperFacts ==
    ASSUME NEW r \in Reapers, QueueInv
    PROVE  /\ at[r] \in Slots /\ control[at[r]] \in Control /\ Canonical(control[at[r]])
           /\ victim[r] \in Participants \cup {NoOne} /\ word[r] \in Control
           /\ OwnerOf[r] \in Participants /\ NoOne \notin Participants
           /\ turn[at[r]] \in Cursor /\ value[at[r]] \in Cursor
           /\ ReaperInv(r)
  BY Zenon, QueueAssumption, PerReaper DEF QueueInv, TypeOK

\* Passing to the next slot, or to the roles after the last one, keeps the
\* reaper's part of the invariant when the slot left behind is clear of the victim.
LEMMA AdvanceMoves ==
    ASSUME NEW r \in Reapers, QueueInv, NEW here, here # "idle", Advance(r, here), alive' = alive,
           control'[at[r]].source # victim[r], control'[at[r]].reaper # victim[r],
           \A j \in Slots \ {at[r]} : control'[j] = control[j]
    PROVE  /\ \E there \in ReaperPcs : ReaperMoves(r, here, there)
           /\ \E k \in Slots : ReaperLocals(r, k, victim[r], Empty)
           /\ ReaperInv(r)'
  <1>0. at[r] \in Slots /\ victim[r] \in Participants \cup {NoOne} /\ ReaperInv(r) /\ Empty \in Control
    BY Zenon, ReaperFacts, WordTypes
  <1> DEFINE there == IF at[r] + 1 < Capacity THEN "read" ELSE "roles"
             k == IF at[r] + 1 < Capacity THEN at[r] + 1 ELSE at[r]
  <1>1. PICK x \in {"read", "roles"} : x = there
    BY Zenon
  <1>2. PICK n \in Slots : n = k
    BY <1>0, QueueAssumption DEF Slots
  <1>3. ReaperMoves(r, here, x)
    <2>1. Goto(r, here, x) /\ x \in ReaperPcs
      BY Zenon, <1>1 DEF Advance, ReaperPcs
    <2> QED
      BY Zenon, <2>1, ReaperGoto
  <1>4. ReaperLocals(r, n, victim[r], Empty)
    <2>1. victim' = [victim EXCEPT ![r] = victim[r]]
      BY Zenon DEF Advance, QueueInv, TypeOK
    <2>2. at' = [at EXCEPT ![r] = n]
      BY Zenon, <1>2 DEF Advance
    <2> QED
      BY Zenon, <1>0, <2>1, <2>2 DEF Advance, ReaperLocals
  <1>5. at'[r] = n /\ victim'[r] = victim[r] /\ pc[r] = here /\ pc'[r] = x
    BY Zenon, <1>3, <1>4 DEF ReaperLocals, ReaperMoves, QueueInv, TypeOK
  <1>6. \A j \in Slots : j < n \/ x = "roles" => j < at[r] \/ j = at[r]
    BY <1>0, <1>1, <1>2, QueueAssumption DEF Slots
  <1>7. ReaperInv(r)'
    BY Zenon, <1>0, <1>1, <1>5, <1>6 DEF ReaperInv, Idle
  <1> QED
    BY Zenon, <1>1, <1>3, <1>4, <1>7 DEF ReaperPcs

\* Every step of a reaper keeps the inductive invariant.
LEMMA ReaperKeeps ==
    ASSUME OneReaperEach, NEW r \in Reapers, QueueInv, ReaperStep(r)
    PROVE  QueueInv'
  <1> PICK i \in Slots, d \in Participants \cup {NoOne}, v \in Control :
        i = at[r] /\ d = victim[r] /\ v = word[r]
    BY Zenon, ReaperFacts
  <1>0. /\ i = at[r] /\ d = victim[r] /\ v = word[r]
        /\ control[i] \in Control /\ Canonical(control[i])
        /\ OwnerOf[r] \in Participants /\ NoOne \notin Participants
        /\ turn[i] \in Cursor /\ value[i] \in Cursor
        /\ ReaperInv(r) /\ Runs(r)
        /\ UNCHANGED <<gate, alive, cur, seen, field>>
    BY Zenon, ReaperFacts DEF ReaperStep
  <1>1. /\ at' = at => at' = [at EXCEPT ![r] = i]
        /\ victim' = victim => victim' = [victim EXCEPT ![r] = d]
        /\ word' = word => word' = [word EXCEPT ![r] = v]
    BY Zenon, <1>0 DEF QueueInv, TypeOK
  \* a step without a store: typing and the frame are common to all of them
  <1>2. ASSUME NEW here, NEW there, ReaperMoves(r, here, there),
               NEW k, NEW x, NEW w, ReaperLocals(r, k, x, w),
               UNCHANGED <<head, tail, control, value>>, turn' \in [Slots -> Cursor],
               holder' \in [{"send", "recv"} -> Participants \cup {NoOne}],
               settled' \subseteq Cursor, ReaperInv(r)'
        PROVE  QueueInv'
    <2>1. TypeOK'
      BY Zenon, <1>0, <1>2, ReaperFrame DEF ReaperMoves, QueueInv, TypeOK
    <2> QED
      BY Zenon, <1>0, <1>2, <2>1, ReaperFrame, ReaperQuiet DEF ReaperMoves
  <1>3. /\ turn \in [Slots -> Cursor] /\ settled \subseteq Cursor
        /\ holder \in [{"send", "recv"} -> Participants \cup {NoOne}]
    BY Zenon DEF QueueInv, TypeOK
  \* a return from recover
  <1>4. ASSUME NEW here, Stop(r, here), UNCHANGED <<head, tail, control, value>>,
               turn' \in [Slots -> Cursor], settled' \subseteq Cursor,
               holder' \in [{"send", "recv"} -> Participants \cup {NoOne}]
        PROVE  QueueInv'
    <2>1. ReaperMoves(r, here, "idle") /\ ReaperLocals(r, 0, NoOne, Empty)
      BY Zenon, <1>4, StopMoves
    <2>2. ReaperInv(r)'
      BY Zenon, <2>1, IdleReaper DEF ReaperMoves
    <2> QED
      BY Zenon, <1>2, <1>4, <2>1, <2>2
  <1>5. CASE RepairStart(r) /\ UNCHANGED holder
    <2>1. ReaperMoves(r, "idle", "read")
      BY Zenon, <1>5, ReaperGoto DEF RepairStart, ReaperPcs
    <2>2. PICK x \in Participants \ alive : victim' = [victim EXCEPT ![r] = x]
      BY Zenon, <1>5 DEF RepairStart
    <2>3. 0 \in Slots /\ \A j \in Slots : ~(j < 0)
      BY QueueAssumption DEF Slots
    <2>4. ReaperLocals(r, 0, x, v)
      BY Zenon, <1>1, <1>5, <2>2, <2>3 DEF RepairStart, ReaperLocals
    <2>5. at'[r] = 0 /\ victim'[r] = x
      BY <2>4, ReaperFrame
    <2>6. ReaperInv(r)'
      BY Zenon, <1>0, <2>1, <2>2, <2>3, <2>5 DEF ReaperInv, ReaperMoves, Idle
    <2> QED
      BY Zenon, <1>2, <1>3, <1>5, <2>1, <2>4, <2>6 DEF RepairStart, ring
  <1>6. CASE RepairNone(r) /\ UNCHANGED holder
    <2>1. pc[r] = "read" /\ d \in Participants \ alive
      BY Zenon, <1>0, <1>6 DEF RepairNone, Advance, Goto, ReaperInv, Idle
    <2>2. control[i].source # d /\ control[i].reaper # d
      BY <1>0, <1>6, <2>1 DEF RepairNone, Replaces, Canonical, Empty, Control, Bases
    <2>3. Advance(r, "read") /\ control' = control
      BY Zenon, <1>6 DEF RepairNone, ring
    <2>4. /\ \E there \in ReaperPcs : ReaperMoves(r, "read", there)
          /\ \E k \in Slots : ReaperLocals(r, k, d, Empty)
          /\ ReaperInv(r)'
      BY Zenon, <1>0, <2>2, <2>3, AdvanceMoves
    <2> QED
      BY Zenon, <1>2, <1>3, <1>6, <2>4 DEF RepairNone, ring
  <1>7. CASE RepairBusy(r) /\ UNCHANGED holder
    BY Zenon, <1>3, <1>4, <1>7 DEF RepairBusy, ring
  <1>8. CASE RepairRead(r) /\ UNCHANGED holder
    <2> PICK u \in Control : u = control[i]
      BY Zenon, <1>0
    <2>1. PICK there \in {"act", "mark"} :
            /\ there = IF Resumes(r, u) THEN "act" ELSE "mark"
            /\ Goto(r, "read", there)
      BY Zenon, <1>0, <1>8 DEF RepairRead
    <2>2. ReaperMoves(r, "read", there)
      BY Zenon, <2>1, ReaperGoto DEF ReaperPcs
    <2>3. ReaperLocals(r, i, d, u)
      BY Zenon, <1>0, <1>1, <1>8 DEF RepairRead, ReaperLocals
    <2>4. d \in Participants \ alive
      BY Zenon, <1>0, <2>2 DEF ReaperInv, ReaperMoves, Idle
    <2>5. CASE there = "act"
      <3>1. u.source = d /\ u.reaper = OwnerOf[r]
        BY Zenon, <1>0, <2>1, <2>5 DEF Resumes
      <3> QED
        BY Zenon, <1>0, <1>2, <1>3, <1>8, <2>2, <2>3, <2>4, <2>5, <3>1, ReaperFrame
        DEF RepairRead, ring, ReaperInv, ReaperMoves, Idle
    <2>6. CASE there = "mark"
      <3>1. u.base \in {"PRODUCER", "CONSUMER"} /\ (Replaces(r, u) \/ Begins(r, u))
        BY Zenon, <1>0, <1>8, <2>1, <2>6 DEF RepairRead
      <3>2. u.source \in Participants \ alive /\ u.reaper \notin alive
        <4>1. u.source \in Participants \cup {NoOne} /\ u.source # NoOne
          BY <1>0, <3>1 DEF Canonical, Control, Empty
        <4>2. CASE Replaces(r, u)
          BY Zenon, <1>0, <2>4, <4>1, <4>2 DEF Replaces, QueueInv, MarkedIsDead
        <4>3. CASE Begins(r, u)
          BY Zenon, <1>0, <2>4, <4>3 DEF Begins, QueueInv, TypeOK
        <4> QED
          BY Zenon, <3>1, <4>2, <4>3
      <3> QED
        BY <1>0, <1>2, <1>3, <1>8, <2>2, <2>3, <2>4, <2>6, <3>1, <3>2, ReaperFrame
        DEF RepairRead, ring, ReaperInv, ReaperMoves, Idle
    <2> QED
      BY Zenon, <2>5, <2>6
  <1>9. CASE RepairMark(r) /\ UNCHANGED holder
    <2>1. CASE control[i] = v
      <3>1. Goto(r, "mark", "act") /\ UNCHANGED <<at, victim, word>>
        BY Zenon, <1>0, <1>9, <2>1 DEF RepairMark, repairState
      <3>2. ReaperMoves(r, "mark", "act") /\ ReaperLocals(r, i, d, v)
        BY Zenon, <1>1, <3>1, ReaperGoto DEF ReaperPcs, ReaperLocals
      <3>3. PICK w \in Control : w = [v EXCEPT !.reaper = OwnerOf[r]]
        BY Zenon, <1>0 DEF Control
      <3>4. /\ v.base \in {"PRODUCER", "CONSUMER"} /\ v.source \in Participants \ alive
            /\ v.reaper \notin alive /\ d \in Participants \ alive
        BY Zenon, <1>0, <3>2 DEF ReaperMoves, ReaperInv, Idle
      <3>5. w.base = v.base /\ w.source = v.source /\ w.reaper = OwnerOf[r] /\ Canonical(w)
        BY Zenon, <1>0, <3>3, <3>4 DEF Control, Canonical
      <3>6. control' = [control EXCEPT ![i] = w]
        BY Zenon, <1>0, <1>9, <2>1, <3>3 DEF RepairMark, SetControl
      <3>7. TypeOK'
        BY Zenon, <1>0, <1>9, <3>2, <3>5, <3>6, ReaperFrame
        DEF RepairMark, ReaperMoves, QueueInv, TypeOK
      <3>8. ReaperInv(r)'
        <4>0. at'[r] = i /\ victim'[r] = d /\ word'[r] = v
          BY Zenon, <3>2, ReaperFrame
        <4>1. at'[r] = i /\ victim'[r] = d /\ word'[r] = v /\ pc'[r] = "act" /\ pc[r] = "mark"
          BY Zenon, <3>2, <4>0 DEF ReaperMoves
        <4>2. /\ control'[i] = w /\ \A j \in Slots : j < i => j # i
              /\ \A j \in Slots \ {i} : control'[j] = control[j]
          BY <3>6 DEF QueueInv, TypeOK, Slots
        <4> QED
          BY Zenon, <1>0, <3>4, <3>5, <4>1, <4>2 DEF ReaperInv, Idle
      <3> QED
        BY Zenon, <1>0, <2>1, <3>2, <3>4, <3>5, <3>6, <3>7, <3>8, ReaperFrame, ReaperWrite
        DEF ReaperMoves
    <2>2. CASE control[i] # v
      BY Zenon, <1>0, <1>3, <1>4, <1>9, <2>2 DEF RepairMark
    <2> QED
      BY Zenon, <2>1, <2>2
  \* a decision about the word to store
  <1>10. ASSUME NEW there \in {"release", "turn", "store"},
                NEW w \in {Empty, Available(TRUE), Available(FALSE)},
                Resolve(r, there, w), UNCHANGED holder
         PROVE  QueueInv'
    <2>1. ReaperMoves(r, "act", there)
      BY Zenon, <1>10, ReaperGoto DEF Resolve, ReaperPcs
    <2>2. w \in Control
      BY Zenon, <1>10, WordTypes
    <2>3. ReaperLocals(r, i, d, w)
      BY Zenon, <1>1, <1>10, <2>2 DEF Resolve, ReaperLocals
    <2>4. at'[r] = i /\ victim'[r] = d /\ word'[r] = w /\ control' = control
      BY Zenon, <1>10, <2>3, ReaperFrame DEF Resolve, ring
    <2>5. ReaperInv(r)'
      BY Zenon, <1>0, <1>10, <2>1, <2>4 DEF ReaperInv, ReaperMoves, Idle, Runs
    <2> QED
      BY Zenon, <1>2, <1>3, <1>10, <2>1, <2>3, <2>5 DEF Resolve, ring
  <1>11. CASE RepairProducer(r) /\ UNCHANGED holder
    BY Zenon, <1>10, <1>11 DEF RepairProducer
  <1>12. CASE RepairConsumer(r) /\ UNCHANGED holder
    <2>1. v.complete \in BOOLEAN
      BY Zenon DEF Control
    <2>2. PICK w : w = Available(v.complete)
      BY Zenon
    <2>3. w \in {Available(TRUE), Available(FALSE)}
      BY Zenon, <2>1, <2>2 DEF Available
    <2>4. CASE head = turn[i]
      BY Zenon, <1>0, <1>10, <1>12, <2>2, <2>3, <2>4 DEF RepairConsumer
    <2>5. CASE head # turn[i]
      BY Zenon, <1>0, <1>10, <1>12, <2>5 DEF RepairConsumer
    <2> QED
      BY Zenon, <2>4, <2>5
  <1>13. CASE RepairCorrupted(r) /\ UNCHANGED holder
    BY Zenon, <1>3, <1>4, <1>13 DEF RepairCorrupted, ring
  \* a step between the decision and the store
  <1>14. ASSUME NEW here \in {"release", "turn"}, NEW there \in {"turn", "store"},
                Goto(r, here, there), UNCHANGED <<head, tail, control, value, at, victim, word, holder>>,
                turn' \in [Slots -> Cursor], settled' \subseteq Cursor
         PROVE  QueueInv'
    <2>1. ReaperMoves(r, here, there)
      BY Zenon, <1>14, ReaperGoto DEF ReaperPcs
    <2>2. ReaperLocals(r, i, d, v)
      BY Zenon, <1>1, <1>14 DEF ReaperLocals
    <2>3. ReaperInv(r)'
      BY Zenon, <1>0, <1>14, <2>1 DEF ReaperInv, ReaperMoves, Idle, Runs
    <2> QED
      BY Zenon, <1>2, <1>3, <1>14, <2>1, <2>2, <2>3
  <1>15. CASE RepairRelease(r) /\ UNCHANGED holder
    <2>1. CASE Stop(r, "release") /\ UNCHANGED settled
      BY Zenon, <1>3, <1>4, <1>15, <2>1 DEF RepairRelease, ring
    <2>2. CASE /\ Goto(r, "release", IF word[r] = Empty THEN "turn" ELSE "store")
               /\ settled' = settled \cup {value[at[r]]} /\ UNCHANGED <<at, repairState>>
      BY Zenon, <1>0, <1>3, <1>14, <1>15, <2>2 DEF RepairRelease, ring, repairState
    <2> QED
      BY Zenon, <1>15, <2>1, <2>2 DEF RepairRelease
  <1>16. CASE RepairTurn(r) /\ UNCHANGED holder
    <2>1. turn' \in [Slots -> Cursor]
      BY Zenon, <1>0, <1>3, <1>16, CursorTypes DEF RepairTurn
    <2> QED
      BY Zenon, <1>3, <1>14, <1>16, <2>1 DEF RepairTurn, repairState
  <1>17. CASE RepairStore(r) /\ UNCHANGED holder
    <2>1. Advance(r, "store") /\ control' = [control EXCEPT ![i] = v]
      BY Zenon, <1>0, <1>17 DEF RepairStore, SetControl
    <2>2. /\ control[i].source \in Participants \ alive /\ control[i].reaper = OwnerOf[r]
          /\ v \in {Empty, Available(TRUE), Available(FALSE)} /\ d \in Participants \ alive
      BY Zenon, <1>0, <2>1 DEF Advance, Goto, ReaperInv, Idle
    <2>3. v.source = NoOne /\ v.reaper = NoOne /\ Canonical(v)
      BY Zenon, <2>2, WordTypes, WordFields
    <2>4. control'[i] = v /\ \A j \in Slots \ {i} : control'[j] = control[j]
      BY Zenon, <2>1 DEF QueueInv, TypeOK
    <2>5. /\ \E there \in ReaperPcs : ReaperMoves(r, "store", there)
          /\ \E k \in Slots : ReaperLocals(r, k, d, Empty)
          /\ ReaperInv(r)'
      BY Zenon, <1>0, <2>1, <2>2, <2>3, <2>4, AdvanceMoves
    <2>6. PICK there \in ReaperPcs : ReaperMoves(r, "store", there)
      BY Zenon, <2>5
    <2>7. PICK k \in Slots : ReaperLocals(r, k, d, Empty)
      BY Zenon, <2>5
    <2>8. TypeOK'
      BY Zenon, <1>0, <1>17, <2>1, <2>3, <2>6, <2>7, ReaperFrame
      DEF RepairStore, ReaperMoves, QueueInv, TypeOK
    <2> QED
      BY Zenon, <1>0, <2>1, <2>2, <2>3, <2>5, <2>6, <2>7, <2>8, ReaperFrame, ReaperWrite
      DEF ReaperMoves
  <1>18. CASE RecoverRoles(r)
    BY Zenon, <1>3, <1>4, <1>18 DEF RecoverRoles, ring
  <1> QED
    BY Zenon, <1>5, <1>6, <1>7, <1>8, <1>9, <1>11, <1>12, <1>13, <1>15, <1>16, <1>17, <1>18
    DEF ReaperStep

\* Every step of the ring keeps the inductive invariant.
LEMMA NextKeeps == ASSUME OneReaperEach, QueueInv, [Next]_vars PROVE QueueInv'
  <1>1. CASE Next
    <2>1. CASE \E h \in Producers : ProducerStart(h) \/ ProducerStep(h)
      BY Zenon, <2>1, ProducerKeeps
    <2>2. CASE \E h \in Consumers : ConsumerStep(h)
      BY Zenon, <2>2, ConsumerKeeps
    <2>3. CASE \E f \in {"send", "recv"} : Closers # {} /\ CloseField(f)
      BY Zenon, <2>3, CloseKeeps
    <2>4. CASE \E h \in Closers : CloserStep(h)
      BY Zenon, <2>4, CloserKeeps
    <2>5. CASE \E p \in Participants : Die(p)
      BY Zenon, <2>5, DieKeeps
    <2>6. CASE \E r \in Reapers : ReaperStep(r)
      BY Zenon, <2>6, ReaperKeeps
    <2>7. CASE \E h \in Workers : Adopt(h)
      BY Zenon, <2>7, AdoptKeeps
    <2> QED
      BY Zenon, <1>1, <2>1, <2>2, <2>3, <2>4, <2>5, <2>6, <2>7 DEF Next
  <1>2. CASE UNCHANGED vars
    <2>1. TypeOK'
      BY Zenon, <1>2 DEF vars, ring, repairState, QueueInv, TypeOK, PcOK
    <2> QED
      BY Zenon, <1>2, <2>1, SideStep DEF vars, ring, repairState
  <1> QED
    BY Zenon, <1>1, <1>2

\* The inductive invariant holds in every state when at most one handle of each
\* participant repairs.
THEOREM QueueInvariant == ASSUME OneReaperEach PROVE Spec => []QueueInv
  <1>1. QueueInv /\ [Next]_vars => QueueInv'
    BY Zenon, NextKeeps
  <1> QED
    BY <1>1, InitQueueInv, PTL DEF Spec

\* The state stays well typed and every control word canonical, whoever dies.
THEOREM TypeCorrect == ASSUME OneReaperEach PROVE Spec => []TypeOK
  <1>1. QueueInv => TypeOK
    BY Zenon DEF QueueInv
  <1> QED
    BY <1>1, QueueInvariant, PTL

\* "Control owns bytes before either cursor moves": reserve, claim, close and the
\* repair of the dead never take a slot from the running handle that owns it.
THEOREM SlotsAreExclusive == ASSUME OneReaperEach PROVE Spec => []SlotExclusion
  <1>1. QueueInv => SlotExclusion
    BY Zenon DEF QueueInv
  <1> QED
    BY <1>1, QueueInvariant, PTL

\* When recover offers the dead participant's roles again, no control word of the
\* ring names it as owner or as reaper.
THEOREM RepairCompletes == ASSUME OneReaperEach PROVE Spec => []RepairIsComplete
  <1>1. QueueInv => RepairIsComplete
    BY Zenon DEF QueueInv, RepairIsComplete, Cleared, Idle
  <1> QED
    BY <1>1, QueueInvariant, PTL

\* The blind store that ends a repair only ever replaces a dead owner's word that
\* carries the storing reaper's own mark.
THEOREM StoresOwnMark == ASSUME OneReaperEach PROVE Spec => RepairStoresOwnMark
  <1> DEFINE Safe == \A r \in Reapers : Runs(r) /\ RepairStore(r) =>
               control[at[r]].source \notin alive /\ control[at[r]].reaper = OwnerOf[r]
  <1>1. QueueInv /\ [Next]_vars => [Safe]_vars
    BY Zenon DEF QueueInv, Repairing, RepairStore, Advance, Goto
  <1> QED
    BY <1>1, QueueInvariant, PTL DEF Spec, RepairStoresOwnMark

-----------------------------------------------------------------------------
(* Cursors, their positions, and the line of the positions between two     *)
(* cursors: what the arithmetic of laps and slots gives for every          *)
(* capacity.                                                               *)

\* the lap of the first position from cursor c on that lies in slot i
LapAt(c, i) == IF i < c.index THEN c.lap + 1 ELSE c.lap
AtMost(c, d) == c.lap < d.lap \/ (c.lap = d.lap /\ c.index <= d.index)

\* A cursor is its lap and its index.
LEMMA CursorParts ==
    /\ \A c \in Cursor : c.lap \in Nat /\ c.index \in Slots
    /\ \A c, d \in Cursor : c.lap = d.lap /\ c.index = d.index => c = d
  BY DEF Cursor

\* The order of cursors is a total order.
LEMMA Order ==
    /\ \A c \in Cursor : AtMost(c, c)
    /\ \A c, d \in Cursor : AtMost(c, d) \/ AtMost(d, c)
    /\ \A c, d \in Cursor : AtMost(c, d) /\ AtMost(d, c) => c = d
    /\ \A c, d, e \in Cursor : AtMost(c, d) /\ AtMost(d, e) => AtMost(c, e)
    /\ \A c, d \in Cursor : Before(c, d) <=> ~AtMost(d, c)
  <1>1. \A c \in Cursor : c.lap \in Nat /\ c.index \in Nat
    BY DEF Cursor, Slots
  <1>2. \A c, d \in Cursor : AtMost(c, d) /\ AtMost(d, c) => c = d
    BY <1>1, CursorParts DEF AtMost
  <1> QED
    BY <1>1, <1>2 DEF AtMost, Before

\* The lap at which a cursor meets a slot: whether a position is before the cursor.
LEMMA Laps ==
    /\ \A c \in Cursor, i \in Slots : LapAt(c, i) \in Nat
    /\ \A c \in Cursor : LapAt(c, c.index) = c.lap
    /\ \A t, c \in Cursor : Before(t, c) <=> t.lap < LapAt(c, t.index)
  <1>1. \A c \in Cursor : c.lap \in Nat /\ c.index \in Nat
    BY DEF Cursor, Slots
  <1> QED
    BY <1>1 DEF LapAt, Before, Slots

\* The next cursor meets the slot of the cursor one lap later, and the others alike.
LEMMA Advancing ==
    ASSUME NEW c \in Cursor
    PROVE  /\ NextCursor(c) \in Cursor
           /\ AtMost(c, NextCursor(c)) /\ ~AtMost(NextCursor(c), c)
           /\ LapAt(NextCursor(c), c.index) = c.lap + 1
           /\ \A i \in Slots \ {c.index} : LapAt(NextCursor(c), i) = LapAt(c, i)
  <1>1. c.lap \in Nat /\ c.index \in 0 .. Capacity - 1 /\ Capacity \in Nat
    BY QueueAssumption DEF Cursor, Slots
  <1>2. PICK n : n = NextCursor(c)
    BY Zenon
  <1>3. n \in Cursor
    BY Zenon, <1>2, CursorTypes
  <1>4. \/ n.lap = c.lap /\ n.index = c.index + 1
        \/ n.lap = c.lap + 1 /\ n.index = 0 /\ c.index = Capacity - 1
    BY <1>1, <1>2 DEF NextCursor
  <1>5. AtMost(c, n) /\ ~AtMost(n, c) /\ LapAt(n, c.index) = c.lap + 1
    BY <1>1, <1>4 DEF AtMost, LapAt
  <1>6. ASSUME NEW i \in Slots, i # c.index PROVE LapAt(n, i) = LapAt(c, i)
    BY <1>1, <1>4, <1>6 DEF LapAt, Slots
  <1> QED
    BY Zenon, <1>2, <1>3, <1>5, <1>6

\* The order of cursors is the order of their positions.
LEMMA Positions ==
    /\ \A c \in Cursor : Pos(c) \in Nat /\ Pos(NextLap(c)) = Pos(c) + Capacity
    /\ \A c, d \in Cursor : Pos(c) < Pos(d) <=> Before(c, d)
    /\ \A c, d \in Cursor : Pos(c) <= Pos(d) <=> AtMost(c, d)
  <1>0. Capacity \in Nat /\ Capacity > 0
    BY QueueAssumption
  <1>1. \A m, n \in Nat : m < n => m * Capacity + Capacity <= n * Capacity
    <2> SUFFICES ASSUME NEW m \in Nat, NEW n \in Nat, m < n
                 PROVE  m * Capacity + Capacity <= n * Capacity
      OBVIOUS
    <2>1. PICK k \in Nat : n = m + 1 + k
      <3>1. n - m - 1 \in Nat /\ n = m + 1 + (n - m - 1)
        OBVIOUS
      <3> QED
        BY Zenon, <3>1
    <2>2. n * Capacity = m * Capacity + Capacity + k * Capacity /\ k * Capacity \in Nat
      BY <1>0, <2>1
    <2>3. m * Capacity \in Nat
      BY <1>0
    <2> QED
      BY <1>0, <2>2, <2>3
  <1>2. \A m \in Nat : m * Capacity \in Nat /\ (m + 1) * Capacity = m * Capacity + Capacity
    BY <1>0
  <1>3. \A c \in Cursor : c.lap \in Nat /\ c.index \in Nat /\ c.index < Capacity
    BY <1>0 DEF Cursor, Slots
  <1>4. ASSUME NEW c \in Cursor PROVE Pos(c) \in Nat /\ Pos(NextLap(c)) = Pos(c) + Capacity
    <2>1. NextLap(c).lap = c.lap + 1 /\ NextLap(c).index = c.index
      BY DEF NextLap
    <2>2. PICK m \in Nat : m = c.lap * Capacity /\ (c.lap + 1) * Capacity = m + Capacity
      BY <1>2, <1>3
    <2>3. Pos(c) = m + c.index /\ Pos(NextLap(c)) = m + Capacity + c.index
      BY Zenon, <2>1, <2>2 DEF Pos
    <2> QED
      BY <1>0, <1>3, <2>3
  <1>5. ASSUME NEW c \in Cursor, NEW d \in Cursor
        PROVE  /\ Pos(c) < Pos(d) <=> Before(c, d)
               /\ Pos(c) <= Pos(d) <=> AtMost(c, d)
    <2>1. PICK m \in Nat, n \in Nat : m = c.lap * Capacity /\ n = d.lap * Capacity
      BY Zenon, <1>2, <1>3
    <2>2. /\ c.lap < d.lap => m + Capacity <= n
          /\ d.lap < c.lap => n + Capacity <= m
          /\ c.lap = d.lap => m = n
      BY Zenon, <1>1, <1>3, <2>1
    <2>3. Pos(c) = m + c.index /\ Pos(d) = n + d.index
      BY Zenon, <2>1 DEF Pos
    <2> QED
      BY <1>0, <1>3, <2>2, <2>3 DEF Before, AtMost
  <1> QED
    BY Zenon, <1>4, <1>5

\* A position and its slot.
LEMMA SlotOfPos ==
    ASSUME NEW l \in Nat, NEW i \in Slots
    PROVE  (l * Capacity + i) % Capacity = i
  BY QueueAssumption DEF Slots

\* The lap at which a cursor meets a slot: whether a position is at or after the cursor.
LEMMA AtLap ==
    \A c, t \in Cursor : AtMost(c, t) <=> LapAt(c, t.index) <= t.lap
  <1>1. \A c, t \in Cursor : AtMost(c, t) <=> ~(t.lap < LapAt(c, t.index))
    BY Zenon, Laps, Order
  <1>2. \A c, t \in Cursor : t.lap \in Nat /\ LapAt(c, t.index) \in Nat
    BY Zenon, CursorParts, Laps
  <1> QED
    BY <1>1, <1>2

\* A function on 1 .. n is a sequence of length n.
LEMMA LineIsSeq ==
    ASSUME NEW S, NEW n \in Nat, NEW s \in [1 .. n -> S]
    PROVE  s \in Seq(S) /\ Len(s) = n
  OBVIOUS

\* A line that is one longer is the old one with an element appended.
LEMMA Lengthens ==
    ASSUME NEW S, NEW n \in Nat, NEW s \in [1 .. n -> S], NEW t \in [1 .. n + 1 -> S],
           \A k \in 1 .. n : t[k] = s[k]
    PROVE  t = Append(s, t[n + 1])
  <1>1. s \in Seq(S) /\ Len(s) = n /\ t[n + 1] \in S
    BY LineIsSeq
  <1> QED
    BY <1>1

\* A line without its first element.
LEMMA Shortens ==
    ASSUME NEW S, NEW n \in Nat, NEW s \in [1 .. n + 1 -> S], NEW t \in [1 .. n -> S],
           \A k \in 1 .. n : t[k] = s[k + 1]
    PROVE  s # <<>> /\ Head(s) = s[1] /\ t = Tail(s)
  <1>1. s \in Seq(S) /\ Len(s) = n + 1
    BY LineIsSeq
  <1>2. t \in Seq(S) /\ Len(t) = n
    BY LineIsSeq
  <1> QED
    BY <1>1, <1>2

\* the slot k positions after cursor c
Around(c, k) == IF c.index + k < Capacity THEN c.index + k ELSE c.index + k - Capacity
Steps == 0 .. Capacity - 1

\* The positions of a lap from a cursor on, and those of the lap before it, go once
\* around the slots.
LEMMA SlotsAround ==
    ASSUME NEW c \in Cursor
    PROVE  /\ \A k \in Steps : /\ Around(c, k) \in Slots
                               /\ (Pos(c) + k) % Capacity = Around(c, k)
                               /\ (Pos(c) - Capacity + k) % Capacity = Around(c, k)
           /\ \A k, m \in Steps : Around(c, k) = Around(c, m) => k = m
           /\ \A i \in Slots : \E k \in Steps : Around(c, k) = i
  <1>0. /\ Capacity \in Nat /\ Capacity > 0
        /\ c.lap \in Nat /\ c.index \in Nat /\ c.index < Capacity
    BY QueueAssumption DEF Cursor, Slots
  <1>1. \A l \in Int, i \in Slots : (l * Capacity + i) % Capacity = i
    BY <1>0 DEF Slots
  <1>2. ASSUME NEW k \in Steps
        PROVE  /\ Around(c, k) \in Slots
               /\ (Pos(c) + k) % Capacity = Around(c, k)
               /\ (Pos(c) - Capacity + k) % Capacity = Around(c, k)
    <2>1. /\ Around(c, k) \in Slots /\ Around(c, k) \in Int /\ k \in Int
          /\ \/ Around(c, k) = c.index + k
             \/ Around(c, k) = c.index + k - Capacity
      BY <1>0 DEF Around, Slots, Steps
    <2>2. PICK m \in Int : /\ m = c.lap * Capacity /\ (c.lap + 1) * Capacity = m + Capacity
                           /\ (c.lap - 1) * Capacity = m - Capacity
      BY <1>0
    <2>3. Pos(c) = m + c.index
      BY Zenon, <2>2 DEF Pos
    <2>4. /\ \/ Pos(c) + k = c.lap * Capacity + Around(c, k)
             \/ Pos(c) + k = (c.lap + 1) * Capacity + Around(c, k)
          /\ \/ Pos(c) - Capacity + k = (c.lap - 1) * Capacity + Around(c, k)
             \/ Pos(c) - Capacity + k = c.lap * Capacity + Around(c, k)
      BY <1>0, <2>1, <2>2, <2>3
    <2>5. c.lap \in Int /\ c.lap + 1 \in Int /\ c.lap - 1 \in Int
      BY <1>0
    <2>6. \A p : (\E l \in Int : p = l * Capacity + Around(c, k)) => p % Capacity = Around(c, k)
      BY Zenon, <1>1, <2>1
    <2>7. \E l \in Int : Pos(c) + k = l * Capacity + Around(c, k)
      BY Zenon, <2>4, <2>5
    <2>8. \E l \in Int : Pos(c) - Capacity + k = l * Capacity + Around(c, k)
      BY Zenon, <2>4, <2>5
    <2> QED
      BY Zenon, <2>1, <2>6, <2>7, <2>8
  <1>3. ASSUME NEW k \in Steps, NEW m \in Steps, Around(c, k) = Around(c, m) PROVE k = m
    BY <1>0, <1>3 DEF Around, Steps
  <1>4. ASSUME NEW i \in Slots PROVE \E k \in Steps : Around(c, k) = i
    <2>1. CASE i < c.index
      <3>1. i + Capacity - c.index \in Steps /\ Around(c, i + Capacity - c.index) = i
        BY <1>0, <2>1 DEF Around, Slots, Steps
      <3> QED
        BY Zenon, <3>1
    <2>2. CASE ~(i < c.index)
      <3>1. i - c.index \in Steps /\ Around(c, i - c.index) = i
        BY <1>0, <2>2 DEF Around, Slots, Steps
      <3> QED
        BY Zenon, <3>1
    <2> QED
      BY Zenon, <2>1, <2>2
  <1> QED
    BY Zenon, <1>2, <1>3, <1>4

\* The next cursor is one position further.
LEMMA NextPosition ==
    ASSUME NEW c \in Cursor
    PROVE  Pos(NextCursor(c)) = Pos(c) + 1 /\ Pos(c) % Capacity = c.index
  <1>0. /\ Capacity \in Nat /\ Capacity > 0
        /\ c.lap \in Nat /\ c.index \in Nat /\ c.index < Capacity
    BY QueueAssumption DEF Cursor, Slots
  <1>1. PICK m \in Nat : m = c.lap * Capacity /\ (c.lap + 1) * Capacity = m + Capacity
    BY <1>0
  <1>2. PICK d : d = NextCursor(c)
    BY Zenon
  <1>3. \/ d.lap = c.lap /\ d.index = c.index + 1
        \/ d.lap = c.lap + 1 /\ d.index = 0 /\ c.index + 1 = Capacity
    BY <1>0, <1>2 DEF NextCursor
  <1>4. Pos(d) = Pos(c) + 1
    BY <1>0, <1>1, <1>3 DEF Pos
  <1>5. Pos(c) % Capacity = c.index
    BY Zenon, <1>0, SlotOfPos, CursorParts DEF Pos
  <1> QED
    BY Zenon, <1>2, <1>4, <1>5

-----------------------------------------------------------------------------
(* The line and the positions taken, from the cursors and the words.       *)

Stages == {"reserved", "ready", "skipped"}

\* slot i has a position from c on and before d
Within(c, d, i) == \E p \in Pos(c) .. Pos(d) - 1 : p % Capacity = i

LineOf(c, d, w) ==
    [k \in 1 .. Pos(d) - Pos(c) |-> StageOf(w[(Pos(c) + k - 1) % Capacity])]
LastOf(c, i) == CHOOSE p \in Pos(c) - Capacity .. Pos(c) - 1 : p % Capacity = i
OutOf(c, d, w) ==
    {LastOf(c, i) : i \in {j \in Slots : ~Within(c, d, j) /\ w[j].base = "CONSUMER"}}

\* words that differ in slot i alone; that are of the same stages; that agree on which
\* slots receivers have taken
OnlyAt(i, v, w) == \A j \in Slots \ {i} : w[j] = v[j]
SameStages(c, d, v, w) == \A i \in Slots : Within(c, d, i) => StageOf(v[i]) = StageOf(w[i])
SameTaken(c, d, v, w) ==
    \A i \in Slots : ~Within(c, d, i) => (v[i].base = "CONSUMER" <=> w[i].base = "CONSUMER")

\* line t is line s with y in the place of an x
Replaced(s, t, x, y) == \E k \in DOMAIN s : s[k] = x /\ t = [s EXCEPT ![k] = y]

\* cursors at most one lap apart
Room(c, d) == c \in Cursor /\ d \in Cursor /\ Pos(c) <= Pos(d) /\ Pos(d) <= Pos(c) + Capacity

\* What the line shows at each place, and which slots have one.
LEMMA Places ==
    ASSUME NEW c, NEW d, Room(c, d)
    PROVE  /\ Pos(d) - Pos(c) \in Nat
           /\ \A k \in 1 .. Pos(d) - Pos(c) :
                k - 1 \in Steps /\ Around(c, k - 1) \in Slots /\ Within(c, d, Around(c, k - 1))
           /\ \A i \in Slots : Within(c, d, i) =>
                \E k \in 1 .. Pos(d) - Pos(c) : Around(c, k - 1) = i
  <1>0. /\ c \in Cursor /\ d \in Cursor /\ Capacity \in Nat /\ Capacity > 0
        /\ Pos(c) \in Nat /\ Pos(d) \in Nat /\ Pos(c) <= Pos(d) /\ Pos(d) <= Pos(c) + Capacity
    BY QueueAssumption, Positions DEF Room
  <1>1. PICK n \in Nat : n = Pos(d) - Pos(c) /\ n <= Capacity
    BY <1>0
  <1>4. ASSUME NEW k \in 1 .. n
        PROVE  k - 1 \in Steps /\ Around(c, k - 1) \in Slots /\ Within(c, d, Around(c, k - 1))
    <2>1. k - 1 \in Steps /\ Pos(c) + (k - 1) \in Pos(c) .. Pos(d) - 1
      BY <1>0, <1>1 DEF Steps
    <2>2. Around(c, k - 1) \in Slots /\ (Pos(c) + (k - 1)) % Capacity = Around(c, k - 1)
      BY Zenon, <1>0, <2>1, SlotsAround
    <2> QED
      BY Zenon, <2>1, <2>2 DEF Within
  <1>5. ASSUME NEW i \in Slots, Within(c, d, i) PROVE \E k \in 1 .. n : Around(c, k - 1) = i
    <2>1. PICK p \in Pos(c) .. Pos(d) - 1 : p % Capacity = i
      BY Zenon, <1>5 DEF Within
    <2>2. PICK k \in 1 .. n : p = Pos(c) + (k - 1)
      <3>1. p - Pos(c) + 1 \in 1 .. n /\ p = Pos(c) + ((p - Pos(c) + 1) - 1)
        BY <1>0, <1>1
      <3> QED
        BY Zenon, <3>1
    <2>3. (Pos(c) + (k - 1)) % Capacity = Around(c, k - 1)
      BY Zenon, <1>0, <1>4, SlotsAround
    <2> QED
      BY Zenon, <2>1, <2>2, <2>3
  <1> QED
    BY Zenon, <1>1, <1>4, <1>5

\* The stage that the line shows at each place.
LEMMA Shows ==
    ASSUME NEW c, NEW d, Room(c, d), NEW v
    PROVE  /\ LineOf(c, d, v) \in [1 .. Pos(d) - Pos(c) -> Stages]
           /\ \A k \in 1 .. Pos(d) - Pos(c) : LineOf(c, d, v)[k] = StageOf(v[Around(c, k - 1)])
  <1>1. \A w : StageOf(w) \in Stages
    BY Zenon DEF StageOf, Stages
  <1>2. LineOf(c, d, v) \in [1 .. Pos(d) - Pos(c) -> Stages]
    BY Zenon, <1>1 DEF LineOf
  <1>3. ASSUME NEW k \in 1 .. Pos(d) - Pos(c)
        PROVE  LineOf(c, d, v)[k] = StageOf(v[Around(c, k - 1)])
    <2>1. LineOf(c, d, v)[k] = StageOf(v[(Pos(c) + k - 1) % Capacity])
      BY Zenon DEF LineOf
    <2>2. Pos(c) + k - 1 = Pos(c) + (k - 1)
      BY Positions DEF Room
    <2>3. (Pos(c) + (k - 1)) % Capacity = Around(c, k - 1)
      BY Zenon, Places, SlotsAround DEF Room
    <2> QED
      BY Zenon, <2>1, <2>2, <2>3
  <1> QED
    BY Zenon, <1>2, <1>3

\* Words of the same stages make the same line.
LEMMA LinesAgree ==
    ASSUME NEW c, NEW d, Room(c, d), NEW v, NEW w, SameStages(c, d, v, w)
    PROVE  LineOf(c, d, v) = LineOf(c, d, w)
  <1>0. PICK n \in Nat : n = Pos(d) - Pos(c)
    BY Zenon, Places
  <1>1. PICK s, t : s = LineOf(c, d, v) /\ t = LineOf(c, d, w)
    BY Zenon
  <1>2. s \in [1 .. n -> Stages] /\ t \in [1 .. n -> Stages]
    BY <1>0, <1>1, Shows
  <1>3. ASSUME NEW m \in 1 .. n
        PROVE  s[m] = StageOf(v[Around(c, m - 1)]) /\ t[m] = StageOf(w[Around(c, m - 1)])
    BY <1>0, <1>1, Shows
  <1>4. \A k \in 1 .. n : s[k] = t[k]
    BY Zenon, <1>0, <1>3, Places DEF SameStages
  <1>5. s = t
    BY <1>2, <1>4
  <1> QED
    BY Zenon, <1>1, <1>5

\* Another word in a slot with a position changes one place of the line.
LEMMA LineFills ==
    ASSUME NEW c, NEW d, Room(c, d), NEW v, NEW w, NEW i \in Slots, Within(c, d, i), OnlyAt(i, v, w)
    PROVE  Replaced(LineOf(c, d, v), LineOf(c, d, w), StageOf(v[i]), StageOf(w[i]))
  <1>0. PICK n \in Nat : n = Pos(d) - Pos(c)
    BY Zenon, Places
  <1>1. PICK s, t : s = LineOf(c, d, v) /\ t = LineOf(c, d, w)
    BY Zenon
  <1>2. s \in [1 .. n -> Stages] /\ t \in [1 .. n -> Stages]
    BY <1>0, <1>1, Shows
  <1>3. ASSUME NEW m \in 1 .. n
        PROVE  s[m] = StageOf(v[Around(c, m - 1)]) /\ t[m] = StageOf(w[Around(c, m - 1)])
    BY <1>0, <1>1, Shows
  <1>4. PICK k \in 1 .. n : Around(c, k - 1) = i
    BY Zenon, <1>0, Places
  <1>5. ASSUME NEW m \in 1 .. n, m # k PROVE t[m] = s[m]
    <2>1. m - 1 # k - 1
      BY <1>5
    <2>2. m - 1 \in Steps /\ k - 1 \in Steps /\ Around(c, m - 1) \in Slots
      BY Zenon, <1>0, Places
    <2>3. Around(c, m - 1) # i
      BY Zenon, <1>4, <2>1, <2>2, SlotsAround DEF Room
    <2> QED
      BY Zenon, <1>3, <2>2, <2>3 DEF OnlyAt
  <1>6. t = [s EXCEPT ![k] = StageOf(w[i])]
    <2>1. t[k] = StageOf(w[i])
      BY Zenon, <1>3, <1>4
    <2> QED
      BY <1>2, <1>5, <2>1
  <1>7. k \in DOMAIN s /\ s[k] = StageOf(v[i])
    BY Zenon, <1>2, <1>3, <1>4
  <1> QED
    BY Zenon, <1>1, <1>6, <1>7 DEF Replaced

\* When the tail moves on, the line gets one place more.
LEMMA LineGrows ==
    ASSUME NEW c, NEW d, Room(c, d), Room(c, NextCursor(d)), NEW v
    PROVE  /\ Len(LineOf(c, d, v)) = Pos(d) - Pos(c) /\ Pos(d) - Pos(c) < Capacity
           /\ LineOf(c, NextCursor(d), v) = Append(LineOf(c, d, v), StageOf(v[d.index]))
  <1>0. PICK n \in Nat : n = Pos(d) - Pos(c)
    BY Zenon, Places
  <1>1. PICK e : e = NextCursor(d)
    BY Zenon
  <1>2. /\ c \in Cursor /\ d \in Cursor /\ Pos(c) \in Nat /\ Pos(d) \in Nat /\ Capacity \in Nat
        /\ Pos(e) = Pos(d) + 1 /\ Pos(d) % Capacity = d.index /\ Pos(e) <= Pos(c) + Capacity
    BY <1>1, QueueAssumption, NextPosition, Positions DEF Room
  <1>3. Pos(e) - Pos(c) = n + 1 /\ n \in Steps /\ Pos(c) + n = Pos(d) /\ n < Capacity
    BY <1>0, <1>2 DEF Steps
  <1>4. PICK s, t : s = LineOf(c, d, v) /\ t = LineOf(c, e, v)
    BY Zenon
  <1>5. s \in [1 .. n -> Stages] /\ \A k \in 1 .. n : s[k] = StageOf(v[Around(c, k - 1)])
    BY <1>0, <1>4, Shows
  <1>6. /\ t \in [1 .. n + 1 -> Stages]
        /\ \A k \in 1 .. n + 1 : t[k] = StageOf(v[Around(c, k - 1)])
    BY <1>1, <1>3, <1>4, Shows
  <1>7. \A k \in 1 .. n : t[k] = s[k]
    BY <1>5, <1>6
  <1>8. t[n + 1] = StageOf(v[d.index])
    <2>1. Around(c, n) = d.index
      BY <1>2, <1>3, SlotsAround
    <2>2. n + 1 \in 1 .. n + 1 /\ (n + 1) - 1 = n
      BY <1>0
    <2> QED
      BY Zenon, <1>6, <2>1, <2>2
  <1>9. t = Append(s, t[n + 1])
    BY <1>0, <1>5, <1>6, <1>7, Lengthens
  <1>10. Len(s) = n
    BY Zenon, <1>0, <1>5, LineIsSeq
  <1> QED
    BY Zenon, <1>0, <1>1, <1>3, <1>4, <1>8, <1>9, <1>10

\* When the head moves on, the line loses its first place.
LEMMA LineShrinks ==
    ASSUME NEW c, NEW d, Room(c, d), Room(NextCursor(c), d), NEW v
    PROVE  /\ LineOf(c, d, v) # <<>> /\ Head(LineOf(c, d, v)) = StageOf(v[c.index])
           /\ LineOf(NextCursor(c), d, v) = Tail(LineOf(c, d, v))
  <1>1. PICK b : b = NextCursor(c)
    BY Zenon
  <1>0. PICK n \in Nat : n = Pos(d) - Pos(b)
    BY Zenon, <1>1, Places
  <1>2. /\ c \in Cursor /\ b \in Cursor /\ Pos(c) \in Nat /\ Pos(d) \in Nat /\ Capacity \in Nat
        /\ Pos(b) = Pos(c) + 1 /\ Pos(c) % Capacity = c.index /\ Pos(d) <= Pos(c) + Capacity
    BY <1>1, QueueAssumption, NextPosition, Positions DEF Room
  <1>3. Pos(d) - Pos(c) = n + 1 /\ 0 \in Steps /\ Pos(c) + 0 = Pos(c) /\ n < Capacity
    BY <1>0, <1>2 DEF Steps
  <1>4. PICK s, t : s = LineOf(c, d, v) /\ t = LineOf(b, d, v)
    BY Zenon
  <1>5. t \in [1 .. n -> Stages] /\ \A k \in 1 .. n : t[k] = StageOf(v[Around(b, k - 1)])
    BY <1>0, <1>1, <1>4, Shows
  <1>6. /\ s \in [1 .. n + 1 -> Stages]
        /\ \A k \in 1 .. n + 1 : s[k] = StageOf(v[Around(c, k - 1)])
    BY <1>3, <1>4, Shows
  <1>7. ASSUME NEW k \in 1 .. n PROVE t[k] = s[k + 1]
    <2>1. /\ k + 1 \in 1 .. n + 1 /\ (k + 1) - 1 = k /\ k \in Steps /\ k - 1 \in Steps
          /\ Pos(b) + (k - 1) = Pos(c) + k
      BY <1>2, <1>3 DEF Steps
    <2>2. (Pos(b) + (k - 1)) % Capacity = Around(b, k - 1)
      BY Zenon, <1>2, <2>1, SlotsAround
    <2>3. (Pos(c) + k) % Capacity = Around(c, k)
      BY Zenon, <1>2, <2>1, SlotsAround
    <2>4. t[k] = StageOf(v[Around(b, k - 1)])
      BY Zenon, <1>5, <1>7
    <2>5. s[k + 1] = StageOf(v[Around(c, k)])
      BY Zenon, <1>6, <2>1
    <2> QED
      BY Zenon, <2>1, <2>2, <2>3, <2>4, <2>5
  <1>8. s[1] = StageOf(v[c.index])
    <2>1. Around(c, 0) = c.index
      BY Zenon, <1>2, <1>3, SlotsAround
    <2>2. 1 \in 1 .. n + 1 /\ 1 - 1 = 0
      BY <1>0
    <2> QED
      BY Zenon, <1>6, <2>1, <2>2
  <1>9. s # <<>> /\ Head(s) = s[1] /\ t = Tail(s)
    BY <1>0, <1>5, <1>6, <1>7, Shortens
  <1> QED
    BY Zenon, <1>1, <1>4, <1>8, <1>9

\* The last position of a slot before a cursor.
LEMMA LastPlace ==
    ASSUME NEW c \in Cursor, NEW i \in Slots
    PROVE  /\ LastOf(c, i) \in Pos(c) - Capacity .. Pos(c) - 1 /\ LastOf(c, i) % Capacity = i
           /\ \A p \in Pos(c) - Capacity .. Pos(c) - 1 : p % Capacity = i => p = LastOf(c, i)
  <1>0. Pos(c) \in Nat /\ Capacity \in Nat /\ Capacity > 0
    BY QueueAssumption, Positions
  <1>1. \E p \in Pos(c) - Capacity .. Pos(c) - 1 : p % Capacity = i
    <2>1. PICK k \in Steps : Around(c, k) = i
      BY Zenon, SlotsAround
    <2>2. Pos(c) - Capacity + k \in Pos(c) - Capacity .. Pos(c) - 1
      BY <1>0 DEF Steps
    <2>3. (Pos(c) - Capacity + k) % Capacity = i
      BY Zenon, <2>1, SlotsAround
    <2> QED
      BY Zenon, <2>2, <2>3
  <1>2. LastOf(c, i) \in Pos(c) - Capacity .. Pos(c) - 1 /\ LastOf(c, i) % Capacity = i
    BY Zenon, <1>1 DEF LastOf
  <1>3. ASSUME NEW p \in Pos(c) - Capacity .. Pos(c) - 1, p % Capacity = i,
               NEW q \in Pos(c) - Capacity .. Pos(c) - 1, q % Capacity = i
        PROVE  p = q
    <2>1. PICK k \in Steps, m \in Steps : p = Pos(c) - Capacity + k /\ q = Pos(c) - Capacity + m
      <3>1. /\ p - Pos(c) + Capacity \in Steps /\ q - Pos(c) + Capacity \in Steps
            /\ p = Pos(c) - Capacity + (p - Pos(c) + Capacity)
            /\ q = Pos(c) - Capacity + (q - Pos(c) + Capacity)
        BY <1>0 DEF Steps
      <3> QED
        BY Zenon, <3>1
    <2>2. \A n \in Steps : (Pos(c) - Capacity + n) % Capacity = Around(c, n)
      BY Zenon, SlotsAround
    <2>3. Around(c, k) = i /\ Around(c, m) = i
      <3>1. p % Capacity = (Pos(c) - Capacity + k) % Capacity
        BY Zenon, <2>1
      <3>2. q % Capacity = (Pos(c) - Capacity + m) % Capacity
        BY Zenon, <2>1
      <3> QED
        BY Zenon, <1>3, <2>2, <3>1, <3>2
    <2>4. Around(c, k) = Around(c, m)
      BY Zenon, <2>3
    <2>5. k = m
      BY Zenon, <2>4, SlotsAround
    <2> QED
      BY Zenon, <2>1, <2>5
  <1> QED
    BY Zenon, <1>2, <1>3

\* When the head moves on, the slot it leaves has its last position there.
LEMMA LastMoves ==
    ASSUME NEW c \in Cursor, NextCursor(c) \in Cursor, NEW i \in Slots
    PROVE  LastOf(NextCursor(c), i) = IF i = c.index THEN Pos(c) ELSE LastOf(c, i)
  <1>0. /\ Pos(c) \in Nat /\ Capacity \in Nat /\ Capacity > 0
        /\ Pos(NextCursor(c)) = Pos(c) + 1 /\ Pos(c) % Capacity = c.index
    BY QueueAssumption, Positions, NextPosition
  <1>1. \A p \in Pos(c) - Capacity + 1 .. Pos(c) : p % Capacity = i => p = LastOf(NextCursor(c), i)
    <2>1. \A p \in Pos(c) - Capacity + 1 .. Pos(c) :
              p \in Pos(NextCursor(c)) - Capacity .. Pos(NextCursor(c)) - 1
      BY <1>0
    <2> QED
      BY Zenon, <2>1, LastPlace
  <1>2. CASE i = c.index
    <2>1. Pos(c) \in Pos(c) - Capacity + 1 .. Pos(c)
      BY <1>0
    <2> QED
      BY Zenon, <1>0, <1>1, <1>2, <2>1
  <1>3. CASE i # c.index
    <2>1. PICK p \in Pos(c) - Capacity .. Pos(c) - 1 : p = LastOf(c, i) /\ p % Capacity = i
      BY Zenon, LastPlace
    <2>2. (Pos(c) - Capacity + 0) % Capacity = (Pos(c) + 0) % Capacity
      <3>1. 0 \in Steps
        BY <1>0 DEF Steps
      <3>2. \A k \in Steps : /\ (Pos(c) + k) % Capacity = Around(c, k)
                             /\ (Pos(c) - Capacity + k) % Capacity = Around(c, k)
        BY Zenon, SlotsAround
      <3> QED
        BY Zenon, <3>1, <3>2
    <2>3. p # Pos(c) - Capacity
      <3>1. Pos(c) - Capacity + 0 = Pos(c) - Capacity /\ Pos(c) + 0 = Pos(c)
        BY <1>0
      <3> QED
        BY Zenon, <1>0, <1>3, <2>1, <2>2, <3>1
    <2>4. p \in Pos(c) - Capacity + 1 .. Pos(c)
      BY <1>0, <2>1, <2>3
    <2> QED
      BY Zenon, <1>1, <1>3, <2>1, <2>4
  <1> QED
    BY Zenon, <1>2, <1>3

\* When a cursor moves on, only the slot it leaves comes to have a position, or not.
LEMMA WithinMoves ==
    ASSUME NEW c, NEW d, Room(c, d), NEW i \in Slots
    PROVE  /\ i # c.index => (Within(NextCursor(c), d, i) <=> Within(c, d, i))
           /\ ~Within(NextCursor(c), d, c.index)
           /\ i # d.index => (Within(c, NextCursor(d), i) <=> Within(c, d, i))
  <1>0. /\ c \in Cursor /\ d \in Cursor /\ Pos(c) \in Nat /\ Pos(d) \in Nat
        /\ Capacity \in Nat /\ Capacity > 0 /\ Pos(d) <= Pos(c) + Capacity /\ Pos(c) <= Pos(d)
        /\ Pos(NextCursor(c)) = Pos(c) + 1 /\ Pos(c) % Capacity = c.index
        /\ Pos(NextCursor(d)) = Pos(d) + 1 /\ Pos(d) % Capacity = d.index
    BY QueueAssumption, Positions, NextPosition DEF Room
  <1>1. ASSUME i # c.index PROVE Within(NextCursor(c), d, i) <=> Within(c, d, i)
    <2>1. \A p \in Pos(NextCursor(c)) .. Pos(d) - 1 : p \in Pos(c) .. Pos(d) - 1
      BY <1>0
    <2>2. \A p \in Pos(c) .. Pos(d) - 1 : p # Pos(c) => p \in Pos(NextCursor(c)) .. Pos(d) - 1
      BY <1>0
    <2> QED
      BY Zenon, <1>0, <1>1, <2>1, <2>2 DEF Within
  <1>2. ASSUME Within(NextCursor(c), d, c.index) PROVE FALSE
    <2>1. PICK p \in Pos(NextCursor(c)) .. Pos(d) - 1 : p % Capacity = c.index
      BY Zenon, <1>2 DEF Within
    <2>2. PICK k \in Steps : p = Pos(c) + k /\ k # 0
      <3>1. p - Pos(c) \in Steps /\ p - Pos(c) # 0 /\ p = Pos(c) + (p - Pos(c))
        BY <1>0 DEF Steps
      <3> QED
        BY Zenon, <3>1
    <2>3. 0 \in Steps /\ Pos(c) + 0 = Pos(c)
      BY <1>0 DEF Steps
    <2>4. (Pos(c) + k) % Capacity = Around(c, k)
      BY Zenon, <1>0, SlotsAround
    <2>5. (Pos(c) + 0) % Capacity = Around(c, 0)
      BY Zenon, <1>0, <2>3, SlotsAround
    <2>6. Around(c, k) = Around(c, 0)
      BY Zenon, <1>0, <2>1, <2>2, <2>3, <2>4, <2>5
    <2> QED
      BY Zenon, <1>0, <2>2, <2>3, <2>6, SlotsAround
  <1>3. ASSUME i # d.index PROVE Within(c, NextCursor(d), i) <=> Within(c, d, i)
    <2>1. \A p \in Pos(c) .. Pos(d) - 1 : p \in Pos(c) .. Pos(NextCursor(d)) - 1
      BY <1>0
    <2>2. \A p \in Pos(c) .. Pos(NextCursor(d)) - 1 : p # Pos(d) => p \in Pos(c) .. Pos(d) - 1
      BY <1>0
    <2> QED
      BY Zenon, <1>0, <1>3, <2>1, <2>2 DEF Within
  <1> QED
    BY Zenon, <1>1, <1>2, <1>3

\* Words that agree on which slots a receiver took make the same set of positions.
LEMMA OutAgrees ==
    ASSUME NEW c, NEW d, NEW v, NEW w, SameTaken(c, d, v, w)
    PROVE  OutOf(c, d, v) = OutOf(c, d, w)
  <1>1. {j \in Slots : ~Within(c, d, j) /\ v[j].base = "CONSUMER"} =
            {j \in Slots : ~Within(c, d, j) /\ w[j].base = "CONSUMER"}
    BY Zenon DEF SameTaken
  <1> QED
    BY Zenon, <1>1 DEF OutOf

\* A slot given back takes its last position out of the set.
LEMMA OutLetsGo ==
    ASSUME NEW c \in Cursor, NEW d, NEW v, NEW w, NEW i \in Slots, ~Within(c, d, i),
           v[i].base = "CONSUMER", w[i].base # "CONSUMER", OnlyAt(i, v, w)
    PROVE  /\ LastOf(c, i) \in OutOf(c, d, v)
           /\ OutOf(c, d, w) = OutOf(c, d, v) \ {LastOf(c, i)}
  <1>1. \A j \in Slots \ {i} : LastOf(c, j) # LastOf(c, i)
    BY Zenon, LastPlace
  <1>2. LastOf(c, i) \in OutOf(c, d, v)
    BY Zenon DEF OutOf
  <1>3. ASSUME NEW p \in OutOf(c, d, w) PROVE p \in OutOf(c, d, v) \ {LastOf(c, i)}
    <2>1. PICK j \in Slots : p = LastOf(c, j) /\ ~Within(c, d, j) /\ w[j].base = "CONSUMER"
      BY Zenon, <1>3 DEF OutOf
    <2>2. j # i
      BY Zenon, <2>1
    <2> QED
      BY Zenon, <1>1, <2>1, <2>2 DEF OutOf, OnlyAt
  <1>4. ASSUME NEW p \in OutOf(c, d, v), p # LastOf(c, i) PROVE p \in OutOf(c, d, w)
    <2>1. PICK j \in Slots : p = LastOf(c, j) /\ ~Within(c, d, j) /\ v[j].base = "CONSUMER"
      BY Zenon, <1>4 DEF OutOf
    <2>2. j # i
      BY Zenon, <1>4, <2>1
    <2> QED
      BY Zenon, <2>1, <2>2 DEF OutOf, OnlyAt
  <1> QED
    BY Zenon, <1>2, <1>3, <1>4

\* When the head moves on, the position it leaves comes into the set.
LEMMA OutAccepts ==
    ASSUME NEW c, NEW d, Room(c, d), Room(NextCursor(c), d), NEW v,
           Within(c, d, c.index), v[c.index].base = "CONSUMER"
    PROVE  OutOf(NextCursor(c), d, v) = OutOf(c, d, v) \cup {Pos(c)}
  <1>0. c \in Cursor /\ NextCursor(c) \in Cursor /\ c.index \in Slots
    BY Zenon, CursorParts DEF Room
  <1>1. \A i \in Slots : /\ i # c.index => /\ Within(NextCursor(c), d, i) <=> Within(c, d, i)
                                           /\ LastOf(NextCursor(c), i) = LastOf(c, i)
                         /\ ~Within(NextCursor(c), d, c.index)
                         /\ LastOf(NextCursor(c), c.index) = Pos(c)
    BY Zenon, <1>0, WithinMoves, LastMoves
  <1>2. ASSUME NEW p \in OutOf(NextCursor(c), d, v) PROVE p \in OutOf(c, d, v) \cup {Pos(c)}
    <2>1. PICK j \in Slots : /\ p = LastOf(NextCursor(c), j) /\ ~Within(NextCursor(c), d, j)
                             /\ v[j].base = "CONSUMER"
      BY Zenon, <1>2 DEF OutOf
    <2> QED
      BY Zenon, <1>1, <2>1 DEF OutOf
  <1>3. ASSUME NEW p \in OutOf(c, d, v) PROVE p \in OutOf(NextCursor(c), d, v)
    <2>1. PICK j \in Slots : p = LastOf(c, j) /\ ~Within(c, d, j) /\ v[j].base = "CONSUMER"
      BY Zenon, <1>3 DEF OutOf
    <2>2. j # c.index
      BY Zenon, <2>1
    <2> QED
      BY Zenon, <1>1, <2>1, <2>2 DEF OutOf
  <1>4. Pos(c) \in OutOf(NextCursor(c), d, v)
    BY Zenon, <1>0, <1>1 DEF OutOf
  <1> QED
    BY Zenon, <1>2, <1>3, <1>4

\* When the tail moves on over a slot that no receiver has, the set stays the same, and
\* the position one lap earlier is not in it.
LEMMA OutAdmits ==
    ASSUME NEW c, NEW d, Room(c, d), NEW v, v[d.index].base # "CONSUMER"
    PROVE  /\ OutOf(c, NextCursor(d), v) = OutOf(c, d, v)
           /\ Pos(c) + (Pos(d) - Pos(c)) - Capacity \notin OutOf(c, d, v)
  <1>0. c \in Cursor /\ d \in Cursor /\ d.index \in Slots
    BY Zenon, CursorParts DEF Room
  <1>1. {j \in Slots : ~Within(c, d, j) /\ v[j].base = "CONSUMER"} =
            {j \in Slots : ~Within(c, NextCursor(d), j) /\ v[j].base = "CONSUMER"}
    <2>1. \A j \in Slots : j # d.index => (Within(c, NextCursor(d), j) <=> Within(c, d, j))
      BY Zenon, WithinMoves
    <2>2. \A j \in Slots : v[j].base = "CONSUMER" => j # d.index
      BY Zenon
    <2> QED
      BY Zenon, <2>1, <2>2
  <1>2. ASSUME Pos(d) - Capacity \in OutOf(c, d, v) PROVE FALSE
    <2>1. PICK j \in Slots : Pos(d) - Capacity = LastOf(c, j) /\ v[j].base = "CONSUMER"
      BY Zenon, <1>2 DEF OutOf
    <2>2. (Pos(d) - Capacity) % Capacity = j
      BY Zenon, <1>0, <2>1, LastPlace
    <2>3. 0 \in Steps /\ Pos(d) + 0 = Pos(d) /\ Pos(d) - Capacity + 0 = Pos(d) - Capacity
      BY QueueAssumption, <1>0, Positions DEF Steps
    <2>4. (Pos(d) - Capacity + 0) % Capacity = Around(d, 0)
      BY Zenon, <1>0, <2>3, SlotsAround
    <2>6. (Pos(d) + 0) % Capacity = Around(d, 0)
      BY Zenon, <1>0, <2>3, SlotsAround
    <2>5. Pos(d) % Capacity = d.index
      BY Zenon, <1>0, NextPosition
    <2> QED
      BY Zenon, <2>1, <2>2, <2>3, <2>4, <2>5, <2>6
  <1>3. Pos(c) + (Pos(d) - Pos(c)) - Capacity = Pos(d) - Capacity
    BY QueueAssumption, <1>0, Positions
  <1> QED
    BY Zenon, <1>1, <1>2, <1>3 DEF OutOf

===========================================================================
