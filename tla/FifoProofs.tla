----------------------------- MODULE FifoProofs -----------------------------
(***************************************************************************)
(* Proof that the ring of Queue implements the line of positions of Fifo,  *)
(* for any number of participants, handles and slots and any deaths        *)
(* outside the windows of RingProofs.tla.                                  *)
(***************************************************************************)
EXTENDS RingProofs

-----------------------------------------------------------------------------
(* Steps of the ring as steps of the line.                                 *)

FifoStep == [Abstract!FifoNext]_(Abstract!fifoVars)

\* The mapping of Queue in terms of the cursors and the words, before and after a step.
LEMMA View ==
    /\ abstractLine = LineOf(head, tail, control)
    /\ abstractLine' = LineOf(head', tail', control')
    /\ abstractOut = OutOf(head, tail, control)
    /\ abstractOut' = OutOf(head', tail', control')
  <1>1. abstractLine = LineOf(head, tail, control) /\ abstractLine' = LineOf(head', tail', control')
    BY Zenon DEF abstractLine, LineOf
  <1>2. abstractOut = OutOf(head, tail, control) /\ abstractOut' = OutOf(head', tail', control')
    BY Zenon DEF abstractOut, OutOf, LastPos, LastOf, Committed, Within
  <1> QED
    BY Zenon, <1>1, <1>2

\* The invariant keeps the cursors at most one lap apart, and tells the slots with a
\* position.
LEMMA Roomy ==
    Invariant => Room(head, tail) /\ \A i \in Slots : Within(head, tail, i) <=> Held(i)
  <1> SUFFICES ASSUME Invariant
               PROVE  Room(head, tail) /\ \A i \in Slots : Within(head, tail, i) <=> Held(i)
    BY Zenon
  <1>0. TypeOK /\ RingInv /\ head \in Cursor /\ tail \in Cursor /\ NextLap(head) \in Cursor
    BY Zenon, CursorTypes DEF Invariant, QueueInv, TypeOK
  <1>1. Pos(head) <= Pos(tail) /\ Pos(tail) <= Pos(head) + Capacity
    BY Zenon, <1>0, Window, Positions
  <1>2. \A i \in Slots : Within(head, tail, i) <=> Held(i)
    BY Zenon, <1>0, CommittedIsHeld DEF Committed, Within
  <1> QED
    BY Zenon, <1>0, <1>1, <1>2 DEF Room

\* A step that leaves cursors, words and the gate of the senders alone changes nothing.
LEMMA Rests ==
    ASSUME UNCHANGED <<head, tail, control>>, gate'["send"] = 3 <=> gate["send"] = 3
    PROVE  FifoStep
  <1>1. UNCHANGED <<Pos(head), abstractLine, abstractOut, gate["send"] = 3>>
    BY Zenon, View
  <1> QED
    BY Zenon, <1>1 DEF FifoStep, Abstract!fifoVars

\* what the word w may do to slot i: fill or skip a reserved position, or leave its
\* stage; give the slot back after its position was taken
Fits(i, w) ==
    /\ Held(i) => control[i].base = "PRODUCER" \/ StageOf(w) = StageOf(control[i])
    /\ ~Held(i) => control[i].base = "CONSUMER" \/ w.base # "CONSUMER"

\* Such a word makes a step of the line, or none.
LEMMA WriteSteps ==
    ASSUME Invariant, NEW i \in Slots, NEW w, Fits(i, w), control' = [control EXCEPT ![i] = w],
           UNCHANGED <<head, tail, gate>>
    PROVE  FifoStep
  <1>0. Room(head, tail) /\ \A j \in Slots : Within(head, tail, j) <=> Held(j)
    BY Zenon, Roomy
  <1>1. control'[i] = w /\ OnlyAt(i, control, control')
    BY DEF Invariant, QueueInv, TypeOK, OnlyAt
  <1>2. /\ abstractLine = LineOf(head, tail, control) /\ abstractLine' = LineOf(head, tail, control')
        /\ abstractOut = OutOf(head, tail, control) /\ abstractOut' = OutOf(head, tail, control')
    BY Zenon, View
  <1>3. UNCHANGED <<Pos(head), gate["send"] = 3>>
    BY Zenon
  <1>4. ASSUME Held(i) => StageOf(w) = StageOf(control[i]) PROVE abstractLine' = abstractLine
    <2>1. SameStages(head, tail, control, control')
      BY Zenon, <1>0, <1>1, <1>4 DEF SameStages, OnlyAt
    <2> QED
      BY Zenon, <1>0, <1>2, <2>1, LinesAgree
  <1>5. ASSUME ~Held(i) => (w.base = "CONSUMER" <=> control[i].base = "CONSUMER")
        PROVE  abstractOut' = abstractOut
    <2>1. SameTaken(head, tail, control, control')
      BY Zenon, <1>0, <1>1, <1>5 DEF SameTaken, OnlyAt
    <2> QED
      BY Zenon, <1>2, <2>1, OutAgrees
  <1>6. CASE Held(i) /\ StageOf(w) # StageOf(control[i])
    <2>1. StageOf(control[i]) = "reserved" /\ StageOf(w) \in {"ready", "skipped"}
      <3>1. StageOf(control[i]) = "reserved"
        BY Zenon, <1>6 DEF Fits, StageOf
      <3> QED
        BY Zenon, <1>6, <3>1 DEF StageOf
    <2>2. PICK k \in DOMAIN abstractLine :
              /\ abstractLine[k] = "reserved"
              /\ abstractLine' = [abstractLine EXCEPT ![k] = StageOf(w)]
      <3>1. Replaced(LineOf(head, tail, control), LineOf(head, tail, control'),
                     StageOf(control[i]), StageOf(control'[i]))
        BY Zenon, <1>0, <1>1, <1>6, LineFills
      <3> QED
        BY Zenon, <1>1, <1>2, <2>1, <3>1 DEF Replaced
    <2>3. abstractOut' = abstractOut
      BY Zenon, <1>5, <1>6
    <2>4. Abstract!Fill(k, StageOf(w))
      BY Zenon, <1>3, <2>2, <2>3 DEF Abstract!Fill
    <2> QED
      BY Zenon, <2>1, <2>2, <2>4 DEF FifoStep, Abstract!FifoNext
  <1>7. CASE ~Held(i) /\ control[i].base = "CONSUMER" /\ w.base # "CONSUMER"
    <2>1. /\ LastOf(head, i) \in abstractOut
          /\ abstractOut' = abstractOut \ {LastOf(head, i)}
      <3>1. head \in Cursor /\ ~Within(head, tail, i) /\ control'[i].base # "CONSUMER"
        BY Zenon, <1>0, <1>1, <1>7 DEF Room
      <3> QED
        BY Zenon, <1>1, <1>2, <1>7, <3>1, OutLetsGo
    <2>2. abstractLine' = abstractLine
      BY Zenon, <1>4, <1>7
    <2>3. Abstract!LetGo(LastOf(head, i))
      BY Zenon, <1>3, <2>1, <2>2 DEF Abstract!LetGo
    <2> QED
      BY Zenon, <2>1, <2>3 DEF FifoStep, Abstract!FifoNext
  <1>8. CASE /\ Held(i) => StageOf(w) = StageOf(control[i])
             /\ ~Held(i) => (w.base = "CONSUMER" <=> control[i].base = "CONSUMER")
    BY Zenon, <1>3, <1>4, <1>5, <1>8 DEF FifoStep, Abstract!fifoVars
  <1> QED
    BY Zenon, <1>6, <1>7, <1>8 DEF Fits

\* The commit of a sender admits it to the line.
LEMMA CommitAdmits ==
    ASSUME Invariant, Room(head', tail'), tail' = NextCursor(tail), UNCHANGED <<head, control, gate>>,
           control[tail.index].base = "PRODUCER", gate["send"] # 3
    PROVE  FifoStep
  <1>0. Room(head, tail) /\ Room(head, NextCursor(tail))
    BY Zenon, Roomy
  <1>1. StageOf(control[tail.index]) = "reserved" /\ control[tail.index].base # "CONSUMER"
    BY Zenon DEF StageOf
  <1>2. /\ Len(abstractLine) = Pos(tail) - Pos(head) /\ Pos(tail) - Pos(head) < Capacity
        /\ abstractLine' = Append(abstractLine, "reserved")
    BY Zenon, <1>0, <1>1, View, LineGrows
  <1>3. /\ abstractOut' = abstractOut
        /\ Pos(head) + Len(abstractLine) - Capacity \notin abstractOut
    BY Zenon, <1>0, <1>1, <1>2, View, OutAdmits
  <1>4. ~(gate["send"] = 3) /\ UNCHANGED <<Pos(head), gate["send"] = 3>>
    BY Zenon
  <1>5. Abstract!Admit
    BY Zenon, <1>2, <1>3, <1>4 DEF Abstract!Admit
  <1> QED
    BY Zenon, <1>5 DEF FifoStep, Abstract!FifoNext

\* The commit of a receiver takes the first position of the line.
LEMMA CommitAccepts ==
    ASSUME Invariant, Room(head', tail'), head' = NextCursor(head), UNCHANGED <<tail, control, gate>>,
           Held(head.index), control[head.index].base = "CONSUMER"
    PROVE  FifoStep
  <1>0. /\ Room(head, tail) /\ Room(NextCursor(head), tail) /\ head.index \in Slots
        /\ Within(head, tail, head.index) /\ head \in Cursor
    BY Zenon, Roomy, CursorParts DEF Room
  <1>1. StageOf(control[head.index]) # "reserved"
    BY Zenon DEF StageOf
  <1>2. abstractLine # <<>> /\ Head(abstractLine) # "reserved" /\ abstractLine' = Tail(abstractLine)
    BY Zenon, <1>0, <1>1, View, LineShrinks
  <1>3. abstractOut' = abstractOut \cup {Pos(head)}
    BY Zenon, <1>0, View, OutAccepts
  <1>4. Pos(head)' = Pos(head) + 1 /\ UNCHANGED (gate["send"] = 3)
    BY Zenon, <1>0, NextPosition
  <1>5. Abstract!Accept
    BY Zenon, <1>2, <1>3, <1>4 DEF Abstract!Accept
  <1> QED
    BY Zenon, <1>5 DEF FifoStep, Abstract!FifoNext

\* Setting the closed bit of the senders finishes the line.
LEMMA SetFinishes ==
    ASSUME Invariant, \A i \in Slots : Clear(i), UNCHANGED <<head, tail, control>>, gate'["send"] = 3
    PROVE  FifoStep
  <1>0. Room(head, tail) /\ \A i \in Slots : Within(head, tail, i) <=> Held(i)
    BY Zenon, Roomy
  <1>1. abstractLine' = abstractLine /\ abstractOut' = abstractOut /\ UNCHANGED Pos(head)
    BY Zenon, View
  <1>2. ASSUME NEW k \in DOMAIN abstractLine PROVE abstractLine[k] # "reserved"
    <2>1. k \in 1 .. Pos(tail) - Pos(head)
      BY Zenon, <1>0, <1>2 DEF abstractLine
    <2>2. Around(head, k - 1) \in Slots /\ Within(head, tail, Around(head, k - 1))
      BY Zenon, <1>0, <2>1, Places
    <2>3. abstractLine[k] = StageOf(control[Around(head, k - 1)])
      BY <1>0, <2>1, View, Shows
    <2>4. control[Around(head, k - 1)].base # "PRODUCER"
      BY Zenon, <1>0, <2>2 DEF Clear
    <2> QED
      BY Zenon, <2>3, <2>4 DEF StageOf
  <1>3. (gate["send"] = 3)' = TRUE
    BY Zenon
  <1>4. Abstract!Finish
    BY Zenon, <1>1, <1>2, <1>3 DEF Abstract!Finish
  <1> QED
    BY Zenon, <1>4 DEF FifoStep, Abstract!FifoNext

\* Every step of a sender.
LEMMA SenderSteps ==
    ASSUME Invariant, Room(head', tail'), NEW h \in Producers, ProducerStart(h) \/ ProducerStep(h)
    PROVE  FifoStep
  <1> PICK i \in Slots : i = SlotOf(h)
    BY Zenon, CursorParts DEF Invariant, QueueInv, TypeOK, SlotOf, Workers
  <1>0. /\ QueueInv /\ RingInv /\ h \in Workers /\ Runs(h) /\ gate' = gate /\ SlotOf(h) = i
    BY Zenon, OwnKind DEF Invariant, ProducerStart, ProducerStep, Elsewhere
  <1>1. ProducerFits(h) /\ SlotFits(i)
    BY Zenon, <1>0 DEF RingInv
  <1>2. UNCHANGED ring => FifoStep
    BY Zenon, <1>0, Rests DEF ring
  <1>3. \A here, there : Goto(h, here, there) => pc[h] = here
    BY Zenon DEF Goto
  <1>4. Holds(h) => control[i].base = "PRODUCER"
    BY Zenon, <1>0, OwnWord
  <1>5. ASSUME NEW w, SetControl(i, w), UNCHANGED <<head, tail>>, Fits(i, w) PROVE FifoStep
    BY Zenon, <1>0, <1>5, WriteSteps DEF SetControl
  <1>6. CASE \/ ReserveStart(h) \/ ReserveLoad(h) \/ ReserveFull(h) \/ ReserveBusy(h)
             \/ ReserveCheck(h) \/ ReserveAdmit(h)
    BY Zenon, <1>2, <1>6
    DEF ReserveStart, ReserveLoad, ReserveFull, ReserveBusy, ReserveCheck, ReserveAdmit
  <1>7. CASE ReserveOwn(h)
    <2>1. CASE control[i] = Empty
      <3>1. ~Held(i)
        BY Zenon, <1>1, <2>1, WordBits DEF SlotFits
      <3>2. PICK w : w = Owned("PRODUCER", FALSE, OwnerOf[h])
        BY Zenon
      <3>3. w.base # "CONSUMER"
        BY <3>2 DEF Owned
      <3>4. SetControl(i, w) /\ UNCHANGED <<head, tail>>
        BY Zenon, <1>0, <1>7, <2>1, <3>2 DEF ReserveOwn
      <3> QED
        BY Zenon, <1>5, <3>1, <3>3, <3>4 DEF Fits
    <2>2. CASE control[i] # Empty
      BY Zenon, <1>0, <1>2, <1>7, <2>2 DEF ReserveOwn, ring
    <2> QED
      BY Zenon, <2>1, <2>2
  <1>8. CASE ReserveCommit(h)
    <2>1. pc[h] = "commit" /\ Holds(h)
      BY Zenon, <1>3, <1>8 DEF ReserveCommit, Holds
    <2>2. tail = cur[h] /\ tail.index = i
      BY Zenon, <1>0, <1>1, <2>1 DEF ProducerFits, SlotOf
    <2>3. tail' = NextCursor(tail) /\ UNCHANGED <<head, control>>
      BY Zenon, <1>8, <2>2 DEF ReserveCommit
    <2>4. gate["send"] # 3
      BY Zenon, <1>0, <2>1 DEF RingInv, Shut, Clear
    <2> QED
      BY Zenon, <1>0, <1>4, <2>1, <2>2, <2>3, <2>4, CommitAdmits
  <1>9. CASE ReserveUndo(h)
    <2>1. pc[h] = "undo" /\ SetControl(i, Empty) /\ UNCHANGED <<head, tail>>
      BY Zenon, <1>0, <1>3, <1>9 DEF ReserveUndo, Return
    <2>2. ~Held(i)
      BY Zenon, <1>0, <1>1, <2>1 DEF ProducerFits
    <2> QED
      BY Zenon, <1>5, <2>1, <2>2, WordBits DEF Fits
  <1>10. CASE Stage(h) \/ Publish(h) \/ Skip(h)
    <2>1. /\ pc[h] \in {"reserved", "staged"} /\ UNCHANGED <<head, tail>>
          /\ \E w : SetControl(i, w)
      BY Zenon, <1>0, <1>3, <1>10 DEF Stage, Publish, Skip, Return
    <2>2. control[i].base = "PRODUCER" /\ Held(i)
      BY Zenon, <1>0, <1>1, <1>4, <2>1 DEF Holds, ProducerFits
    <2> QED
      BY Zenon, <1>5, <2>1, <2>2 DEF Fits
  <1> QED
    BY Zenon, <1>6, <1>7, <1>8, <1>9, <1>10 DEF ProducerStart, ProducerStep

\* Every step of a receiver.
LEMMA ReceiverSteps ==
    ASSUME Invariant, Room(head', tail'), NEW h \in Consumers, ConsumerStep(h)
    PROVE  FifoStep
  <1> PICK i \in Slots : i = SlotOf(h)
    BY Zenon, CursorParts DEF Invariant, QueueInv, TypeOK, SlotOf, Workers
  <1>0. /\ QueueInv /\ RingInv /\ h \in Workers /\ Runs(h) /\ gate' = gate /\ SlotOf(h) = i
    BY Zenon, OwnKind DEF Invariant, ConsumerStep, Elsewhere
  <1>1. ConsumerFits(h) /\ SlotFits(i)
    BY Zenon, <1>0 DEF RingInv
  <1>2. UNCHANGED ring => FifoStep
    BY Zenon, <1>0, Rests DEF ring
  <1>3. \A here, there : Goto(h, here, there) => pc[h] = here
    BY Zenon DEF Goto
  <1>4. Holds(h) => control[i].base = "CONSUMER" /\ control[i].complete = seen[h]
    BY Zenon, <1>0, OwnWord
  <1>5. ASSUME NEW w, SetControl(i, w), UNCHANGED <<head, tail>>, Fits(i, w) PROVE FifoStep
    BY Zenon, <1>0, <1>5, WriteSteps DEF SetControl
  <1>6. CASE \/ ClaimStart(h) \/ ClaimLoad(h) \/ ClaimLook(h) \/ ClaimEmpty(h) \/ ClaimBusy(h)
             \/ ClaimCheck(h) \/ Take(h)
    BY Zenon, <1>2, <1>6
    DEF ClaimStart, ClaimLoad, ClaimLook, ClaimEmpty, ClaimBusy, ClaimCheck, Take
  <1>7. CASE RecycleTurn(h)
    BY Zenon, <1>0, <1>7, Rests DEF RecycleTurn
  <1>8. CASE ClaimOwn(h)
    <2>1. CASE control[i] = Available(seen[h])
      <3>1. PICK v, w : v = Available(seen[h]) /\ w = Owned("CONSUMER", seen[h], OwnerOf[h])
        BY Zenon
      <3>2. /\ v.base = "AVAILABLE" /\ w.base = "CONSUMER"
            /\ v.complete = seen[h] /\ w.complete = seen[h]
        BY <3>1 DEF Available, Owned
      <3>3. Held(i)
        BY Zenon, <1>1, <2>1, <3>1, <3>2 DEF SlotFits
      <3>4. StageOf(w) = StageOf(v)
        BY <3>2 DEF StageOf
      <3>5. SetControl(i, w) /\ UNCHANGED <<head, tail>>
        BY Zenon, <1>0, <1>8, <2>1, <3>1 DEF ClaimOwn
      <3> QED
        BY Zenon, <1>5, <2>1, <3>1, <3>3, <3>4, <3>5 DEF Fits
    <2>2. CASE control[i] # Available(seen[h])
      BY Zenon, <1>0, <1>2, <1>8, <2>2 DEF ClaimOwn, ring
    <2> QED
      BY Zenon, <2>1, <2>2
  <1>9. CASE ClaimCommit(h)
    <2>1. pc[h] = "commit" /\ Holds(h)
      BY Zenon, <1>3, <1>9 DEF ClaimCommit, Holds
    <2>2. head = cur[h] /\ head.index = i /\ Held(i)
      BY Zenon, <1>0, <1>1, <2>1 DEF ConsumerFits, SlotOf
    <2>3. head' = NextCursor(head) /\ UNCHANGED <<tail, control>>
      BY Zenon, <1>9, <2>2 DEF ClaimCommit
    <2> QED
      BY Zenon, <1>0, <1>4, <2>1, <2>2, <2>3, CommitAccepts
  <1>10. CASE ClaimUndo(h)
    <2>1. PICK w : w = Available(seen[h])
      BY Zenon
    <2>2. pc[h] = "undo" /\ SetControl(i, w) /\ UNCHANGED <<head, tail>>
      BY Zenon, <1>0, <1>3, <1>10, <2>1 DEF ClaimUndo, Return
    <2>3. Held(i) /\ Holds(h)
      BY Zenon, <1>0, <1>1, <2>2 DEF ConsumerFits, Holds
    <2>4. w.base = "AVAILABLE" /\ w.complete = seen[h]
      BY Zenon, <2>1, WordBits
    <2>5. StageOf(w) = StageOf(control[i])
      BY Zenon, <1>4, <2>3, <2>4 DEF StageOf
    <2> QED
      BY Zenon, <1>5, <2>2, <2>3, <2>5 DEF Fits
  <1>11. CASE RecycleFree(h)
    <2>1. pc[h] = "free" /\ SetControl(i, Empty) /\ UNCHANGED <<head, tail>>
      BY Zenon, <1>0, <1>3, <1>11 DEF RecycleFree, Return
    <2>2. ~Held(i)
      BY Zenon, <1>0, <1>1, <2>1 DEF ConsumerFits
    <2> QED
      BY Zenon, <1>5, <2>1, <2>2, WordBits DEF Fits
  <1> QED
    BY Zenon, <1>6, <1>7, <1>8, <1>9, <1>10, <1>11 DEF ConsumerStep

\* Every step of a reaper.
LEMMA ReaperSteps ==
    ASSUME Invariant, NEW r \in Reapers, ReaperStep(r)
    PROVE  FifoStep
  <1> PICK i \in Slots : i = at[r]
    BY Zenon DEF Invariant, QueueInv, TypeOK
  <1>0. QueueInv /\ RingInv /\ Runs(r) /\ gate' = gate /\ at[r] = i
    BY Zenon DEF Invariant, ReaperStep
  <1>1. ReaperFits(r) /\ SlotFits(i)
    BY Zenon, <1>0 DEF RingInv
  <1>2. UNCHANGED ring => FifoStep
    BY Zenon, <1>0, Rests DEF ring
  <1>3. ASSUME NEW w, SetControl(i, w), UNCHANGED <<head, tail>>, Fits(i, w) PROVE FifoStep
    BY Zenon, <1>0, <1>3, WriteSteps DEF SetControl
  <1>4. CASE \/ RepairStart(r) \/ RepairNone(r) \/ RepairBusy(r) \/ RepairRead(r)
             \/ RepairProducer(r) \/ RepairConsumer(r) \/ RepairCorrupted(r)
             \/ RepairRelease(r) \/ RecoverRoles(r)
    BY Zenon, <1>2, <1>4
    DEF RepairStart, RepairNone, RepairBusy, RepairRead, RepairProducer, RepairConsumer,
        RepairCorrupted, RepairRelease, RecoverRoles, Resolve
  <1>5. CASE RepairTurn(r)
    BY Zenon, <1>0, <1>5, Rests DEF RepairTurn
  <1>6. CASE RepairMark(r)
    <2>1. CASE control[i] = word[r]
      <3>1. PICK w : w = [word[r] EXCEPT !.reaper = OwnerOf[r]]
        BY Zenon
      <3>2. SetControl(i, w) /\ UNCHANGED <<head, tail>>
        BY Zenon, <1>0, <1>6, <2>1, <3>1 DEF RepairMark
      <3>3. w.base = control[i].base /\ w.complete = control[i].complete
        <4>1. word[r] \in Control
          BY Zenon, <1>0 DEF QueueInv, TypeOK
        <4> QED
          BY <2>1, <3>1, <4>1 DEF Control
      <3>4. StageOf(w) = StageOf(control[i])
        BY <3>3 DEF StageOf
      <3> QED
        BY Zenon, <1>3, <3>2, <3>3, <3>4 DEF Fits
    <2>2. CASE control[i] # word[r]
      BY Zenon, <1>0, <1>2, <1>6, <2>2 DEF RepairMark, ring
    <2> QED
      BY Zenon, <2>1, <2>2
  <1>7. CASE RepairStore(r)
    <2>1. PICK w \in {Empty, Available(TRUE), Available(FALSE)} : w = word[r]
      BY Zenon, <1>0, <1>7 DEF RepairStore, Advance, Goto, QueueInv, Resolved
    <2>2. pc[r] = "store" /\ SetControl(i, w) /\ UNCHANGED <<head, tail>>
      BY Zenon, <1>0, <1>7, <2>1 DEF RepairStore, Advance, Goto
    <2>3. w = Empty => w.base = "EMPTY" /\ ~Held(i)
      BY Zenon, <1>0, <1>1, <2>1, <2>2, WordBits DEF ReaperFits
    <2>4. ASSUME w # Empty
          PROVE  Held(i) /\ (control[i].base = "PRODUCER" \/ StageOf(w) = StageOf(control[i]))
      <3>1. Held(i) /\ (control[i].base = "CONSUMER" => (w.complete <=> control[i].complete))
        BY Zenon, <1>0, <1>1, <2>1, <2>2, <2>4 DEF ReaperFits
      <3>2. w.base = "AVAILABLE"
        BY Zenon, <2>1, <2>4, WordBits
      <3>3. control[i].base \in {"PRODUCER", "CONSUMER"}
        <4>1. control[i].source \in Participants /\ NoOne \notin Participants
          BY Zenon, QueueAssumption, <1>0, <2>2 DEF QueueInv, Repairing
        <4>2. Canonical(control[i]) /\ Empty.source = NoOne
          BY Zenon, <1>0 DEF QueueInv, TypeOK, Empty
        <4> QED
          BY Zenon, <4>1, <4>2 DEF Canonical
      <3>4. control[i].base = "CONSUMER" => StageOf(w) = StageOf(control[i])
        BY <3>1, <3>2 DEF StageOf
      <3> QED
        BY Zenon, <3>1, <3>3, <3>4
    <2> QED
      BY Zenon, <1>3, <2>2, <2>3, <2>4 DEF Fits
  <1> QED
    BY Zenon, <1>4, <1>5, <1>6, <1>7 DEF ReaperStep

\* Closing and finishing a field.
LEMMA CloserSteps ==
    ASSUME Invariant,
           (\E f \in {"send", "recv"} : CloseField(f)) \/ (\E k \in Closers : CloserStep(k))
    PROVE  FifoStep
  <1>0. QueueInv /\ RingInv /\ TypeOK /\ Capacity \in Nat /\ gate \in [{"send", "recv"} -> {0, 1, 3}]
    BY Zenon, QueueAssumption DEF Invariant, QueueInv, TypeOK
  <1>1. ASSUME NEW f \in {"send", "recv"}, CloseField(f) PROVE FifoStep
    <2>1. UNCHANGED <<head, tail, control>> /\ gate[f] = 0 /\ gate' = [gate EXCEPT ![f] = 1]
      BY Zenon, <1>1 DEF CloseField, ring
    <2>2. gate'["send"] = 3 <=> gate["send"] = 3
      BY <1>0, <2>1
    <2> QED
      BY Zenon, <2>1, <2>2, Rests
  <1>2. ASSUME NEW k \in Closers, CloserStep(k), ~FinishSet(k) PROVE FifoStep
    BY Zenon, <1>2, Rests DEF CloserStep, FinishStart, FinishScan, ring
  <1>3. ASSUME NEW k \in Closers, FinishSet(k) PROVE FifoStep
    <2>1. /\ UNCHANGED <<head, tail, control>> /\ pc[k] = "scan" /\ at[k] = Capacity
          /\ gate' = [gate EXCEPT ![field[k]] = 3]
      BY Zenon, <1>3 DEF FinishSet, Goto, ring
    <2>2. CASE field[k] = "send"
      <3>1. \A i \in Slots : i < Capacity
        BY <1>0 DEF Slots
      <3>2. \A i \in Slots : Clear(i)
        BY Zenon, <1>0, <2>1, <2>2, <3>1 DEF RingInv, CloserFits
      <3>3. gate'["send"] = 3
        BY Zenon, <1>0, <2>1, <2>2
      <3> QED
        BY Zenon, <2>1, <3>2, <3>3, SetFinishes
    <2>3. CASE field[k] # "send"
      <3>1. gate'["send"] = gate["send"]
        BY Zenon, <1>0, <2>1, <2>3
      <3> QED
        BY Zenon, <2>1, <3>1, Rests
    <2> QED
      BY Zenon, <2>2, <2>3
  <1> QED
    BY Zenon, <1>1, <1>2, <1>3

\* Every step of the ring.
LEMMA NextSteps ==
    ASSUME Invariant, Room(head', tail'), [Next]_vars
    PROVE  FifoStep
  <1>1. ASSUME UNCHANGED vars \/ (\E p \in Participants : Die(p)) \/ (\E h \in Workers : Adopt(h))
        PROVE  FifoStep
    BY Zenon, <1>1, Rests DEF vars, ring, Die, Adopt
  <1>2. ASSUME NEW h \in Producers, ProducerStart(h) \/ ProducerStep(h) PROVE FifoStep
    BY Zenon, <1>2, SenderSteps
  <1>3. ASSUME NEW h \in Consumers, ConsumerStep(h) PROVE FifoStep
    BY Zenon, <1>3, ReceiverSteps
  <1>4. ASSUME NEW r \in Reapers, ReaperStep(r) PROVE FifoStep
    BY Zenon, <1>4, ReaperSteps
  <1>5. ASSUME (\E f \in {"send", "recv"} : CloseField(f)) \/ (\E k \in Closers : CloserStep(k))
        PROVE  FifoStep
    BY Zenon, <1>5, CloserSteps
  <1> QED
    BY Zenon, <1>1, <1>2, <1>3, <1>4, <1>5 DEF Next

\* A ring that was just laid out is an empty line.
LEMMA InitLine == Init => Abstract!FifoInit
  <1> SUFFICES ASSUME Init PROVE Abstract!FifoInit
    BY Zenon
  <1>0. Capacity \in Nat /\ Capacity > 0
    BY QueueAssumption
  <1>1. Pos(head) = 0 /\ Pos(tail) = 0
    BY <1>0 DEF Init, Zero, Pos
  <1>2. abstractLine = <<>>
    BY <1>1 DEF abstractLine
  <1>3. \A i \in Slots : control[i].base # "CONSUMER"
    BY DEF Init, Empty
  <1>4. abstractOut = {}
    BY Zenon, <1>3 DEF abstractOut
  <1>5. (gate["send"] = 3) = FALSE
    BY DEF Init
  <1> QED
    BY Zenon, <1>1, <1>2, <1>4, <1>5 DEF Abstract!FifoInit

-----------------------------------------------------------------------------
\* One direction of a channel is a bounded first-in first-out line: every step of
\* reserve, publish, skip, claim, recycle, close and repair is a step of Fifo or changes
\* nothing of it, whoever dies outside the windows.
THEOREM QueueImplementsFifo ==
    ASSUME OneReaperEach
    PROVE  Spec /\ [][DiesOutside]_vars => ImplementsFifo
  <1>1. Init => Abstract!FifoInit
    BY Zenon, InitLine
  <1>2. Invariant => Room(head, tail)
    BY Zenon, Roomy
  <1>3. Invariant /\ Room(head, tail)' /\ [Next]_vars => [Abstract!FifoNext]_(Abstract!fifoVars)
    BY Zenon, NextSteps DEF FifoStep
  <1> QED
    BY <1>1, <1>2, <1>3, RingInvariant, PTL DEF Spec, ImplementsFifo, Abstract!FifoSpec
=============================================================================
