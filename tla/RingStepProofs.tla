--------------------------- MODULE RingStepProofs ---------------------------
(***************************************************************************)
(* What the positions of the ring of Queue, its words and the calls under  *)
(* way have to do with each other (RingInv), and that the steps of         *)
(* senders, receivers and reapers keep it, for any number of participants, *)
(* handles and slots.  RingProofs.tla draws the theorems from it.          *)
(***************************************************************************)
EXTENDS QueueProofs

\* slot i has a committed position; its turn is its next position, or its last
Held(i) == LapAt(head, i) < LapAt(tail, i)
Current(i) == turn[i].lap = LapAt(head, i)
Prior(i) == turn[i].lap + 1 = LapAt(head, i)

\* what the cursors, the turn, the word and the value of a slot have in common
SlotFits(i) ==
    /\ LapAt(tail, i) = LapAt(head, i) \/ LapAt(tail, i) = LapAt(head, i) + 1
    /\ turn[i].index = i
    /\ Current(i) \/ (Prior(i) /\ ~Held(i) /\ control[i].base = "CONSUMER")
    /\ control[i].base = "EMPTY" => ~Held(i)
    /\ control[i].base = "AVAILABLE" => Held(i)
    /\ control[i].complete /\ (Held(i) \/ Prior(i)) => value[i] = turn[i]

\* a value that a receiver may still get was neither taken nor released
Unsettled(i) ==
    Held(i) /\ (IF control[i].base = "PRODUCER" THEN control[i].source \in alive
                ELSE control[i].complete)
        => turn[i] \notin settled

\* a running reaper is about to free slot i
Freeing(i) == \E r \in Reapers : Runs(r) /\ pc[r] = "store" /\ at[r] = i /\ word[r] = Empty

\* from the word of a dead receiver repair can tell whether it committed its claim
DeadFits(i) ==
    control[i].base = "CONSUMER" /\ control[i].source \notin alive =>
        \/ Held(i) /\ turn[i] = head
        \/ ~Held(i) /\ (Prior(i) \/ Freeing(i))

ProducerFits(h) ==
    /\ pc[h] \in {"own", "probe", "check", "admit", "commit", "undo"} => AtMost(cur[h], tail)
    /\ pc[h] \in {"check", "admit", "commit", "undo"} => ~Held(SlotOf(h))
    /\ pc[h] \in {"admit", "commit"} => turn[SlotOf(h)] = cur[h] /\ tail = cur[h]
    /\ pc[h] \in {"reserved", "staged"} => Held(SlotOf(h)) /\ turn[SlotOf(h)] = cur[h]

ConsumerFits(h) ==
    /\ pc[h] \in {"look", "probe", "own", "check", "commit", "undo"} => AtMost(cur[h], head)
    /\ pc[h] \in {"check", "commit", "undo"} => Held(SlotOf(h))
    /\ pc[h] = "commit" => turn[SlotOf(h)] = cur[h] /\ head = cur[h]
    /\ pc[h] \in {"claimed", "recycle"} =>
         ~Held(SlotOf(h)) /\ turn[SlotOf(h)] = cur[h] /\ Prior(SlotOf(h))
    /\ pc[h] = "free" => ~Held(SlotOf(h)) /\ Current(SlotOf(h))
    /\ pc[h] = "claimed" => seen[h] /\ cur[h] \notin settled

\* the word a reaper is about to store suits the slot it repairs
ReaperFits(r) ==
    /\ pc[r] = "act" => /\ word[r].base = control[at[r]].base
                        /\ word[r].complete = control[at[r]].complete
    /\ pc[r] = "release" => /\ control[at[r]].complete
                            /\ word[r] # Empty => control[at[r]].base = "PRODUCER"
    /\ pc[r] \in {"release", "turn", "store"} /\ word[r] # Empty =>
         /\ Held(at[r])
         /\ word[r].complete => control[at[r]].complete /\ control[at[r]].base = "CONSUMER"
         /\ control[at[r]].base = "CONSUMER" => (word[r].complete <=> control[at[r]].complete)
    /\ pc[r] \in {"release", "turn"} /\ word[r] = Empty =>
         ~Held(at[r]) /\ Prior(at[r]) /\ control[at[r]].base = "CONSUMER"
    /\ pc[r] = "store" /\ word[r] = Empty => ~Held(at[r]) /\ Current(at[r])
    /\ pc[r] = "turn" => word[r] = Empty

\* what was settled was committed before
Past == \A c \in settled : ~AtMost(tail, c)

\* no admitted sender is at slot i, and none is about to commit it
Clear(i) ==
    /\ Held(i) => control[i].base # "PRODUCER"
    /\ \A h \in Producers : Runs(h) /\ pc[h] = "commit" => SlotOf(h) # i

CloserFits(k) ==
    pc[k] = "scan" =>
        /\ gate[field[k]] # 0
        /\ field[k] = "send" => \A i \in Slots : i < at[k] => Clear(i)

Shut == gate["send"] = 3 => \A i \in Slots : Clear(i)

RingInv ==
    /\ \A i \in Slots : SlotFits(i) /\ Unsettled(i) /\ DeadFits(i)
    /\ \A h \in Producers : Runs(h) => ProducerFits(h)
    /\ \A h \in Consumers : Runs(h) => ConsumerFits(h)
    /\ \A r \in Reapers : Runs(r) => ReaperFits(r)
    /\ \A k \in Closers : CloserFits(k)
    /\ Past /\ Shut

\* Participant p may die now: no receiver of it is between the two stores of recycle,
\* or owns a slot by a stale head; no reaper of it is between the stores of a repair
\* that finishes a recycle.
Outside(p) ==
    /\ \A h \in Consumers : OwnerOf[h] = p =>
         /\ pc[h] # "free"
         /\ pc[h] \in {"check", "undo"} => turn[SlotOf(h)] = head
    /\ \A r \in Reapers : OwnerOf[r] = p /\ pc[r] = "store" /\ word[r] = Empty =>
         control[at[r]].base # "CONSUMER"

DiesOutside == \A p \in alive \ alive' : Outside(p)
-----------------------------------------------------------------------------
(* What a step of one handle has to show.                                  *)

RepairPcs == {"act", "release", "turn", "store"}

\* handle m moves, and changes nothing but its own locals and the slots in I
Touches(m, I) ==
    /\ \A j \in Slots \ I :
         /\ turn'[j] = turn[j] /\ control'[j] = control[j] /\ value'[j] = value[j]
         /\ LapAt(head', j) = LapAt(head, j) /\ LapAt(tail', j) = LapAt(tail, j)
    /\ head' = head \/ (head.index \in I /\ AtMost(head, head'))
    /\ tail' = tail \/ (tail.index \in I /\ AtMost(tail, tail'))
    /\ settled \subseteq settled'
    /\ \A c \in settled' \ settled : c.index \in I /\ ~AtMost(tail', c)
    /\ alive' = alive /\ gate' = gate
    /\ \A g \in Handles \ {m} : pc'[g] = pc[g]
    /\ \A g \in Workers \ {m} : cur'[g] = cur[g] /\ seen'[g] = seen[g]
    /\ \A g \in (Closers \cup Reapers) \ {m} : at'[g] = at[g]
    /\ \A r \in Reapers \ {m} : word'[r] = word[r]
    /\ field' = field

\* nobody else is at work in these slots
Alone(m, I) ==
    /\ \A g \in Workers \ {m} : Holds(g) /\ Runs(g) => SlotOf(g) \notin I
    /\ \A r \in Reapers \ {m} : Runs(r) /\ pc[r] \in RepairPcs => at[r] \notin I
    /\ m \in Reapers /\ pc[m] = "store" => at[m] \in I

Mends(i) == SlotFits(i)' /\ Unsettled(i)' /\ DeadFits(i)' /\ (Clear(i) => Clear(i)')

OwnFits(m) ==
    /\ m \in Producers => ProducerFits(m)
    /\ m \in Consumers => ConsumerFits(m)
    /\ m \in Reapers => ReaperFits(m)

\* the sender commits only while the ring is open
Admitted(m) == m \in Producers /\ pc'[m] = "commit" => gate["send"] = 0

Types == TypeOK /\ TypeOK'

\* Slots that are not touched still fit.
LEMMA SlotsKeep ==
    ASSUME Types, RingInv, NEW m \in Workers \cup Reapers, NEW I, Touches(m, I), Alone(m, I),
           NEW j \in Slots \ I
    PROVE  SlotFits(j)' /\ Unsettled(j)' /\ DeadFits(j)'
  <1>1. SlotFits(j) /\ Unsettled(j) /\ DeadFits(j)
    BY Zenon DEF RingInv
  <1>2. /\ turn'[j] = turn[j] /\ control'[j] = control[j] /\ value'[j] = value[j]
        /\ LapAt(head', j) = LapAt(head, j) /\ LapAt(tail', j) = LapAt(tail, j)
        /\ alive' = alive
    BY Zenon DEF Touches
  <1>3. (Held(j)' <=> Held(j)) /\ (Current(j)' <=> Current(j)) /\ (Prior(j)' <=> Prior(j))
    BY Zenon, <1>2 DEF Held, Current, Prior
  <1>4. SlotFits(j)'
    BY Zenon, <1>1, <1>2, <1>3 DEF SlotFits
  <1>5. Unsettled(j)'
    <2>1. turn[j].index = j
      BY Zenon, <1>1 DEF SlotFits
    <2>2. turn[j] \in settled' => turn[j] \in settled
      BY Zenon, <2>1 DEF Touches
    <2> QED
      BY Zenon, <1>1, <1>2, <1>3, <2>2 DEF Unsettled
  <1>6. DeadFits(j)'
    <2>1. ASSUME Held(j), turn[j] = head PROVE turn'[j] = head'
      <3>1. turn[j].index = j
        BY Zenon, <1>1 DEF SlotFits
      <3> QED
        BY Zenon, <1>2, <2>1, <3>1 DEF Touches
    <2>2. ASSUME Freeing(j) PROVE Freeing(j)'
      <3>1. PICK r \in Reapers : Runs(r) /\ pc[r] = "store" /\ at[r] = j /\ word[r] = Empty
        BY Zenon, <2>2 DEF Freeing
      <3>2. r # m
        BY Zenon, <3>1 DEF Alone
      <3>3. pc'[r] = pc[r] /\ at'[r] = at[r] /\ word'[r] = word[r] /\ alive' = alive
        BY Zenon, <3>2 DEF Touches, Handles
      <3> QED
        BY Zenon, <3>1, <3>3 DEF Freeing, Runs
    <2> QED
      BY Zenon, <1>1, <1>2, <1>3, <2>1, <2>2 DEF DeadFits
  <1> QED
    BY Zenon, <1>4, <1>5, <1>6

\* The other senders still fit.
LEMMA SendersKeep ==
    ASSUME Types, RingInv, NEW m \in Workers \cup Reapers, NEW I, Touches(m, I), Alone(m, I),
           NEW h \in Producers \ {m}, Runs(h)
    PROVE  ProducerFits(h)'
  <1>1. ProducerFits(h)
    BY Zenon DEF RingInv
  <1>2. pc'[h] = pc[h] /\ cur'[h] = cur[h] /\ SlotOf(h)' = SlotOf(h)
    BY Zenon DEF Touches, Handles, Workers, SlotOf
  <1>3. cur[h] \in Cursor /\ SlotOf(h) \in Slots /\ head \in Cursor /\ tail \in Cursor /\ tail' \in Cursor
    BY Zenon, CursorParts DEF Types, TypeOK, SlotOf, Workers
  <1>4. AtMost(cur[h], tail) => AtMost(cur[h], tail')
    BY Zenon, <1>3, Order DEF Touches
  <1>5. ASSUME pc[h] \in {"check", "admit", "commit", "undo", "reserved", "staged"}
        PROVE  /\ Held(SlotOf(h))' <=> Held(SlotOf(h))
               /\ turn'[SlotOf(h)] = turn[SlotOf(h)]
               /\ tail = cur[h] => tail' = cur[h]
    <2>1. SlotOf(h) \notin I
      BY Zenon, <1>5 DEF Alone, Holds, Workers
    <2>2. /\ turn'[SlotOf(h)] = turn[SlotOf(h)]
          /\ LapAt(head', SlotOf(h)) = LapAt(head, SlotOf(h))
          /\ LapAt(tail', SlotOf(h)) = LapAt(tail, SlotOf(h))
      BY Zenon, <1>3, <2>1 DEF Touches
    <2>3. tail = cur[h] => tail' = cur[h]
      BY Zenon, <2>1 DEF Touches, SlotOf
    <2> QED
      BY Zenon, <1>2, <2>2, <2>3 DEF Held
  <1> QED
    BY Zenon, <1>1, <1>2, <1>4, <1>5 DEF ProducerFits
\* The other receivers still fit.
LEMMA ReceiversKeep ==
    ASSUME Types, RingInv, NEW m \in Workers \cup Reapers, NEW I, Touches(m, I), Alone(m, I),
           NEW h \in Consumers \ {m}, Runs(h)
    PROVE  ConsumerFits(h)'
  <1>1. ConsumerFits(h)
    BY Zenon DEF RingInv
  <1>2. pc'[h] = pc[h] /\ cur'[h] = cur[h] /\ seen'[h] = seen[h] /\ SlotOf(h)' = SlotOf(h)
    BY Zenon DEF Touches, Handles, Workers, SlotOf
  <1>3. cur[h] \in Cursor /\ SlotOf(h) \in Slots /\ head \in Cursor /\ head' \in Cursor
    BY Zenon, CursorParts DEF Types, TypeOK, SlotOf, Workers
  <1>4. AtMost(cur[h], head) => AtMost(cur[h], head')
    BY Zenon, <1>3, Order DEF Touches
  <1>5. ASSUME pc[h] \in {"check", "commit", "undo", "claimed", "recycle", "free"}
        PROVE  /\ Held(SlotOf(h))' <=> Held(SlotOf(h))
               /\ Prior(SlotOf(h))' <=> Prior(SlotOf(h))
               /\ Current(SlotOf(h))' <=> Current(SlotOf(h))
               /\ turn'[SlotOf(h)] = turn[SlotOf(h)]
               /\ head = cur[h] => head' = cur[h]
               /\ cur[h] \in settled' => cur[h] \in settled
    <2>1. SlotOf(h) \notin I
      BY Zenon, <1>5 DEF Alone, Holds, Workers
    <2>2. /\ turn'[SlotOf(h)] = turn[SlotOf(h)]
          /\ LapAt(head', SlotOf(h)) = LapAt(head, SlotOf(h))
          /\ LapAt(tail', SlotOf(h)) = LapAt(tail, SlotOf(h))
      BY Zenon, <1>3, <2>1 DEF Touches
    <2>3. /\ head = cur[h] => head' = cur[h]
          /\ cur[h] \in settled' => cur[h] \in settled
      BY Zenon, <2>1 DEF Touches, SlotOf
    <2> QED
      BY Zenon, <1>2, <2>2, <2>3 DEF Held, Prior, Current
  <1> QED
    BY Zenon, <1>1, <1>2, <1>4, <1>5 DEF ConsumerFits

\* The other reapers still fit.
LEMMA ReapersKeep ==
    ASSUME Types, RingInv, NEW m \in Workers \cup Reapers, NEW I, Touches(m, I), Alone(m, I),
           NEW r \in Reapers \ {m}, Runs(r)
    PROVE  ReaperFits(r)'
  <1>1. ReaperFits(r)
    BY Zenon DEF RingInv
  <1>2. pc'[r] = pc[r] /\ at'[r] = at[r] /\ word'[r] = word[r]
    BY Zenon DEF Touches, Handles
  <1>3. ASSUME pc[r] \in RepairPcs
        PROVE  /\ Held(at[r])' <=> Held(at[r])
               /\ Prior(at[r])' <=> Prior(at[r])
               /\ Current(at[r])' <=> Current(at[r])
               /\ control'[at[r]] = control[at[r]]
    <2>1. at[r] \notin I /\ at[r] \in Slots
      BY Zenon, <1>3 DEF Alone, Types, TypeOK
    <2>2. /\ turn'[at[r]] = turn[at[r]] /\ control'[at[r]] = control[at[r]]
          /\ LapAt(head', at[r]) = LapAt(head, at[r])
          /\ LapAt(tail', at[r]) = LapAt(tail, at[r])
      BY Zenon, <2>1 DEF Touches
    <2> QED
      BY Zenon, <1>2, <2>2 DEF Held, Prior, Current
  <1>4. \A s : s \in {"act", "release", "turn", "store"} => s \in RepairPcs
    BY Zenon DEF RepairPcs
  <1> QED
    BY Zenon, <1>1, <1>2, <1>3, <1>4 DEF ReaperFits

\* The closers still fit.
LEMMA ClosersKeep ==
    ASSUME Types, RingInv, NEW m \in Workers \cup Reapers, NEW I, Touches(m, I),
           Admitted(m), \A i \in I \cap Slots : Clear(i) => Clear(i)'
    PROVE  (\A k \in Closers : CloserFits(k)') /\ Shut'
  <1>1. ASSUME gate["send"] # 0, NEW i \in Slots, Clear(i) PROVE Clear(i)'
    <2>1. CASE i \in I
      BY Zenon, <1>1, <2>1
    <2>2. CASE i \notin I
      <3>1. /\ control'[i] = control[i] /\ alive' = alive
            /\ LapAt(head', i) = LapAt(head, i) /\ LapAt(tail', i) = LapAt(tail, i)
        BY Zenon, <2>2 DEF Touches
      <3>2. ASSUME NEW h \in Producers, Runs(h)', pc'[h] = "commit" PROVE SlotOf(h)' # i
        <4>1. h # m
          BY Zenon, <1>1, <3>2 DEF Admitted
        <4>2. pc[h] = "commit" /\ SlotOf(h)' = SlotOf(h) /\ Runs(h)
          BY Zenon, <3>1, <3>2, <4>1 DEF Touches, Handles, Workers, SlotOf, Runs
        <4> QED
          BY Zenon, <1>1, <4>2 DEF Clear
      <3>3. Held(i)' => control'[i].base # "PRODUCER"
        BY Zenon, <1>1, <3>1 DEF Clear, Held
      <3> QED
        BY Zenon, <3>2, <3>3 DEF Clear
    <2> QED
      BY Zenon, <2>1, <2>2
  <1>2. ASSUME NEW k \in Closers PROVE CloserFits(k)'
    <2>1. pc'[k] = pc[k] /\ at'[k] = at[k] /\ field' = field /\ gate' = gate
      BY Zenon, QueueAssumption DEF Touches, Handles
    <2>2. CloserFits(k)
      BY Zenon DEF RingInv
    <2> QED
      BY Zenon, <1>1, <2>1, <2>2 DEF CloserFits
  <1>3. Shut'
    <2>1. gate' = gate
      BY Zenon DEF Touches
    <2>2. gate["send"] = 3 => gate["send"] # 0
      OBVIOUS
    <2> QED
      BY Zenon, <1>1, <2>1, <2>2 DEF RingInv, Shut
  <1> QED
    BY Zenon, <1>2, <1>3

\* A step of one worker or reaper keeps the invariant if it mends the slots it touches
\* and fits itself afterwards.
LEMMA TouchKeeps ==
    ASSUME Types, RingInv, NEW m \in Workers \cup Reapers, NEW I, Touches(m, I), Alone(m, I),
           Admitted(m), \A i \in I \cap Slots : Mends(i), OwnFits(m)'
    PROVE  RingInv'
  <1>1. ASSUME NEW i \in Slots PROVE SlotFits(i)' /\ Unsettled(i)' /\ DeadFits(i)'
    BY Zenon, SlotsKeep DEF Mends
  <1>2. \A h : Runs(h)' <=> Runs(h)
    BY Zenon DEF Touches, Runs
  <1>3. ASSUME NEW h \in Producers, Runs(h)' PROVE ProducerFits(h)'
    BY Zenon, <1>2, <1>3, SendersKeep DEF OwnFits
  <1>4. ASSUME NEW h \in Consumers, Runs(h)' PROVE ConsumerFits(h)'
    BY Zenon, <1>2, <1>4, ReceiversKeep DEF OwnFits
  <1>5. ASSUME NEW r \in Reapers, Runs(r)' PROVE ReaperFits(r)'
    BY Zenon, <1>2, <1>5, ReapersKeep DEF OwnFits
  <1>6. \A i \in I \cap Slots : Clear(i) => Clear(i)'
    BY Zenon DEF Mends
  <1>7. (\A k \in Closers : CloserFits(k)') /\ Shut'
    BY Zenon, <1>6, ClosersKeep
  <1>8. Past'
    <2> SUFFICES ASSUME NEW c \in settled' PROVE ~AtMost(tail', c)
      BY Zenon DEF Past
    <2>1. c \in Cursor /\ tail \in Cursor /\ tail' \in Cursor
      BY Zenon DEF Types, TypeOK
    <2>2. AtMost(tail, tail')
      BY Zenon, <2>1, Order DEF Touches
    <2>3. CASE c \in settled
      BY Zenon, <2>1, <2>2, <2>3, Order DEF RingInv, Past
    <2>4. CASE c \notin settled
      BY Zenon, <2>4 DEF Touches
    <2> QED
      BY Zenon, <2>3, <2>4
  <1> QED
    BY Zenon, <1>1, <1>3, <1>4, <1>5, <1>7, <1>8 DEF RingInv
-----------------------------------------------------------------------------
(* Steps of senders and receivers.                                         *)

\* of the locals of handles only those of worker h change
Moves(h) ==
    /\ \A g \in Handles \ {h} : pc'[g] = pc[g]
    /\ \A g \in Workers \ {h} : cur'[g] = cur[g] /\ seen'[g] = seen[g]
    /\ alive' = alive /\ gate' = gate /\ at' = at /\ field' = field /\ word' = word

\* A jump of a worker.
LEMMA Jumps ==
    ASSUME TypeOK, NEW h \in Workers, NEW here, NEW there, Goto(h, here, there), Elsewhere
    PROVE  /\ pc[h] = here /\ pc'[h] = there
           /\ (\A g \in Workers \ {h} : cur'[g] = cur[g] /\ seen'[g] = seen[g]) => Moves(h)
  <1>1. h \in Handles /\ DOMAIN pc = Handles
    BY Zenon DEF TypeOK, PcOK, Handles
  <1>2. pc[h] = here /\ pc'[h] = there /\ \A g \in Handles \ {h} : pc'[g] = pc[g]
    BY <1>1 DEF Goto
  <1> QED
    BY Zenon, <1>2 DEF Moves, Elsewhere, repairState

\* The end of a call.
LEMMA Returns ==
    ASSUME TypeOK, NEW h \in Workers, NEW here, Return(h, here), Elsewhere
    PROVE  pc[h] = here /\ pc'[h] = "idle" /\ Moves(h)
  <1>1. Goto(h, here, "idle")
    BY Zenon DEF Return
  <1>2. \A g \in Workers \ {h} : cur'[g] = cur[g] /\ seen'[g] = seen[g]
    BY Zenon DEF Return, TypeOK
  <1> QED
    BY Zenon, <1>1, <1>2, Jumps

\* A worker is only one of the kinds of handles.
LEMMA OwnKind ==
    /\ \A h \in Producers : h \in Workers /\ (ProducerFits(h)' => OwnFits(h)')
    /\ \A h \in Consumers : h \in Workers /\ (ConsumerFits(h)' => OwnFits(h)')
    /\ \A r \in Reapers : ReaperFits(r)' => OwnFits(r)'
  BY Zenon, QueueAssumption DEF OwnFits, Workers

\* A worker that is not in a call fits.
LEMMA IdleFits ==
    ASSUME NEW h \in Workers, pc'[h] \in {"idle", "load"}
    PROVE  OwnFits(h)'
  <1>1. ProducerFits(h)' /\ ConsumerFits(h)'
    BY Zenon DEF ProducerFits, ConsumerFits
  <1> QED
    BY Zenon, <1>1, QueueAssumption DEF OwnFits

\* A step of a worker that leaves the ring as it is.
LEMMA QuietKeeps ==
    ASSUME Types, RingInv, NEW h \in Workers, UNCHANGED <<ring, settled>>, Moves(h), Admitted(h),
           OwnFits(h)'
    PROVE  RingInv'
  <1>1. Touches(h, {})
    BY Zenon DEF Touches, Moves, ring
  <1>2. Alone(h, {})
    BY Zenon, QueueAssumption DEF Alone
  <1>3. \A i \in {} \cap Slots : Mends(i)
    BY Zenon
  <1> QED
    BY Zenon, <1>1, <1>2, <1>3, TouchKeeps

\* Nobody else works at a slot that a running worker owns, or that is free.
LEMMA OwnerIsAlone ==
    ASSUME QueueInv, NEW h \in Workers, Runs(h), NEW i \in Slots,
           (Holds(h) /\ SlotOf(h) = i) \/ control[i].source = NoOne
    PROVE  Alone(h, {i})
  <1>1. h \notin Reapers
    BY Zenon, QueueAssumption
  <1>2. ASSUME NEW g \in Workers, Holds(g), Runs(g)
        PROVE  control[SlotOf(g)].source = OwnerOf[g] /\ OwnerOf[g] \in alive
    <2>1. control[SlotOf(g)] = HeldBy(g)
      BY Zenon, <1>2 DEF QueueInv, SlotExclusion
    <2>2. HeldBy(g).source = OwnerOf[g]
      BY Zenon DEF HeldBy, Owned
    <2> QED
      BY Zenon, <1>2, <2>1, <2>2 DEF Runs
  <1>3. NoOne \notin alive /\ NoOne \notin Participants
    BY Zenon, QueueAssumption DEF QueueInv, TypeOK
  <1>4. ASSUME NEW g \in Workers \ {h}, Holds(g), Runs(g) PROVE SlotOf(g) # i
    BY Zenon, <1>2, <1>3, <1>4 DEF QueueInv, SlotExclusion
  <1>5. ASSUME NEW r \in Reapers, Runs(r), pc[r] \in RepairPcs PROVE at[r] # i
    <2>1. control[at[r]].source \in Participants \ alive
      BY Zenon, <1>5 DEF QueueInv, Repairing, RepairPcs
    <2> QED
      BY Zenon, <1>2, <1>3, <2>1
  <1> QED
    BY Zenon, <1>1, <1>4, <1>5 DEF Alone

\* the step writes word w, and nothing else of slot i but perhaps its value
Writes(i, w) ==
    /\ head' = head /\ tail' = tail /\ turn' = turn /\ settled' = settled
    /\ control' = [control EXCEPT ![i] = w]
    /\ \A j \in Slots \ {i} : value'[j] = value[j]

\* word w suits slot i after the step
Suits(i, w) ==
    /\ w.base = "EMPTY" => ~Held(i) /\ Current(i)
    /\ w.base = "AVAILABLE" => Held(i) /\ Current(i)
    /\ w.base = "PRODUCER" => Current(i) /\ (Held(i) => control[i].base = "PRODUCER")
    /\ w.complete /\ (Held(i) \/ Prior(i)) => value'[i] = turn[i]
    /\ Held(i) /\ (IF w.base = "PRODUCER" THEN w.source \in alive ELSE w.complete)
         => turn[i] \notin settled
    /\ w.base = "CONSUMER" => w.source \in alive

\* A step of a worker that writes a word which suits its slot.
LEMMA WriteKeeps ==
    ASSUME Types, QueueInv, RingInv, NEW h \in Workers, Runs(h), NEW i \in Slots, NEW w,
           Writes(i, w), Suits(i, w), Moves(h), pc'[h] # "commit",
           (Holds(h) /\ SlotOf(h) = i) \/ control[i].source = NoOne, OwnFits(h)'
    PROVE  RingInv'
  <1>1. control'[i] = w /\ \A j \in Slots \ {i} : control'[j] = control[j]
    BY Zenon DEF Writes, Types, TypeOK
  <1>2. Touches(h, {i})
    BY Zenon, <1>1 DEF Touches, Moves, Writes
  <1>3. (Held(i)' <=> Held(i)) /\ (Current(i)' <=> Current(i)) /\ (Prior(i)' <=> Prior(i))
    BY Zenon DEF Held, Current, Prior, Writes
  <1>4. head' = head /\ tail' = tail /\ turn' = turn /\ settled' = settled /\ alive' = alive
    BY Zenon DEF Writes, Moves
  <1>5. SlotFits(i)'
    <2>1. SlotFits(i)
      BY Zenon DEF RingInv
    <2>2. w.base \in Bases
      BY <1>1 DEF Types, TypeOK, Control
    <2>3. Current(i) \/ (Prior(i) /\ ~Held(i) /\ w.base = "CONSUMER")
      BY Zenon, <2>1, <2>2 DEF SlotFits, Suits, Bases
    <2>4. LapAt(tail', i) = LapAt(head', i) \/ LapAt(tail', i) = LapAt(head', i) + 1
      BY Zenon, <1>4, <2>1 DEF SlotFits
    <2>5. turn'[i].index = i
      BY Zenon, <1>4, <2>1 DEF SlotFits
    <2> QED
      BY Zenon, <1>1, <1>3, <1>4, <2>3, <2>4, <2>5 DEF SlotFits, Suits
  <1>6. Unsettled(i)' /\ DeadFits(i)'
    BY Zenon, <1>1, <1>3, <1>4 DEF Unsettled, DeadFits, Suits
  <1>7. ASSUME Clear(i) PROVE Clear(i)'
    <2>1. Held(i)' => control'[i].base # "PRODUCER"
      BY Zenon, <1>1, <1>3, <1>7 DEF Clear, Suits
    <2>2. ASSUME NEW g \in Producers, Runs(g)', pc'[g] = "commit" PROVE SlotOf(g)' # i
      BY Zenon, <1>7, <2>2 DEF Clear, Moves, Handles, Workers, Runs, SlotOf
    <2> QED
      BY Zenon, <2>1, <2>2 DEF Clear
  <1>8. Mends(i)
    BY Zenon, <1>5, <1>6, <1>7 DEF Mends
  <1>9. Admitted(h)
    BY Zenon DEF Admitted
  <1> QED
    BY Zenon, <1>2, <1>8, <1>9, OwnerIsAlone, TouchKeeps
\* The bases and bits of the words that the operations write.
LEMMA WordBits ==
    /\ Empty.base = "EMPTY" /\ Empty.complete = FALSE
    /\ \A b : Available(b).base = "AVAILABLE" /\ Available(b).complete = b
    /\ \A s, b, p : Owned(s, b, p).base = s /\ Owned(s, b, p).complete = b
  BY Zenon DEF Empty, Available, Owned

\* The word in the slot of a worker that owns it.
LEMMA OwnWord ==
    ASSUME QueueInv, NEW h \in Workers, Holds(h), Runs(h)
    PROVE  /\ control[SlotOf(h)].source = OwnerOf[h]
           /\ h \in Producers =>
                control[SlotOf(h)].base = "PRODUCER"
                /\ (control[SlotOf(h)].complete <=> pc[h] = "staged")
           /\ h \in Consumers =>
                control[SlotOf(h)].base = "CONSUMER" /\ control[SlotOf(h)].complete = seen[h]
  <1>1. control[SlotOf(h)] = HeldBy(h)
    BY Zenon DEF QueueInv, SlotExclusion
  <1>2. HeldBy(h).source = OwnerOf[h]
    BY Zenon DEF HeldBy, Owned
  <1>3. ASSUME h \in Producers
        PROVE  HeldBy(h).base = "PRODUCER" /\ (HeldBy(h).complete <=> pc[h] = "staged")
    BY Zenon, <1>3 DEF HeldBy, Owned
  <1>4. ASSUME h \in Consumers PROVE HeldBy(h).base = "CONSUMER" /\ HeldBy(h).complete = seen[h]
    BY <1>4, QueueAssumption DEF HeldBy, Owned
  <1> QED
    BY Zenon, <1>1, <1>2, <1>3, <1>4

\* A slot that no receiver owns carries the turn of its next position.
LEMMA NotClaimed ==
    ASSUME RingInv, NEW i \in Slots, control[i].base # "CONSUMER"
    PROVE  Current(i)
  BY Zenon DEF RingInv, SlotFits

\* A slot that is not committed is met by both cursors on the same lap.
LEMMA NotHeld ==
    ASSUME TypeOK, RingInv, NEW i \in Slots, ~Held(i)
    PROVE  LapAt(tail, i) = LapAt(head, i)
  <1>1. LapAt(tail, i) = LapAt(head, i) \/ LapAt(tail, i) = LapAt(head, i) + 1
    BY Zenon DEF RingInv, SlotFits
  <1>2. LapAt(tail, i) \in Nat /\ LapAt(head, i) \in Nat
    BY Zenon, Laps DEF TypeOK
  <1> QED
    BY <1>1, <1>2 DEF Held

\* A committing sender extends the committed window by its own slot.
LEMMA CommitsSend ==
    ASSUME Types, QueueInv, RingInv, NEW h \in Producers, Runs(h), pc[h] = "commit",
           Moves(h), pc'[h] = "reserved", cur' = cur, settled' = settled,
           head' = head, turn' = turn, control' = control, value' = value,
           tail' = NextCursor(tail)
    PROVE  RingInv'
  <1> PICK i \in Slots : i = SlotOf(h)
    BY Zenon, CursorParts DEF Types, TypeOK, SlotOf, Workers
  <1>1. /\ h \in Workers /\ Holds(h) /\ SlotOf(h) = i /\ SlotOf(h)' = i
        /\ tail = cur[h] /\ turn[i] = cur[h] /\ ~Held(i)
    BY Zenon, OwnKind DEF RingInv, ProducerFits, Holds, SlotOf
  <1>2. tail \in Cursor /\ tail.index = i /\ head \in Cursor /\ tail' \in Cursor
    BY Zenon, <1>1 DEF Types, TypeOK, SlotOf
  <1>3. /\ AtMost(tail, tail') /\ ~AtMost(tail', tail)
        /\ LapAt(tail', i) = tail.lap + 1
        /\ \A j \in Slots \ {i} : LapAt(tail', j) = LapAt(tail, j)
    BY Zenon, <1>2, Advancing
  <1>4. Touches(h, {i})
    BY Zenon, <1>2, <1>3 DEF Touches, Moves
  <1>5. LapAt(head', i) = tail.lap /\ turn'[i].lap = tail.lap /\ tail.lap \in Nat
    BY Zenon, <1>1, <1>2, NotHeld, Laps, CursorParts DEF Types
  <1>6. LapAt(tail', i) = LapAt(head', i) + 1 /\ Held(i)' /\ Current(i)' /\ ~Prior(i)'
    BY <1>3, <1>5 DEF Held, Current, Prior
  <1>7. control'[i].base = "PRODUCER" /\ control'[i].complete = FALSE
    <2>1. control[i].base = "PRODUCER" /\ ~control[i].complete
      BY Zenon, <1>1, OwnWord
    <2>2. control[i].complete \in BOOLEAN
      BY Zenon DEF Types, TypeOK, Control
    <2> QED
      BY Zenon, <2>1, <2>2
  <1>8. SlotFits(i)'
    BY Zenon, <1>1, <1>2, <1>6, <1>7 DEF SlotFits
  <1>9. Unsettled(i)' /\ DeadFits(i)'
    BY Zenon, <1>1, <1>2, <1>7, Order DEF RingInv, Past, Unsettled, DeadFits
  <1>10. ~Clear(i)
    BY Zenon, <1>1 DEF Clear
  <1>11. Mends(i)
    BY Zenon, <1>8, <1>9, <1>10 DEF Mends
  <1>12. Admitted(h)
    BY Zenon DEF Admitted
  <1>13. ProducerFits(h)'
    BY Zenon, <1>1, <1>6 DEF ProducerFits
  <1> QED
    BY Zenon, <1>1, <1>4, <1>11, <1>12, <1>13, OwnerIsAlone, OwnKind, TouchKeeps

\* Every step of a sender keeps the invariant of the ring.
LEMMA SenderKeeps ==
    ASSUME QueueInv, QueueInv', RingInv, NEW h \in Producers,
           ProducerStart(h) \/ ProducerStep(h)
    PROVE  RingInv'
  <1> PICK i \in Slots : i = SlotOf(h)
    BY Zenon, CursorParts DEF QueueInv, TypeOK, SlotOf, Workers
  <1>0. /\ Types /\ TypeOK /\ h \in Workers /\ h \notin Consumers /\ Runs(h) /\ Elsewhere
        /\ SlotOf(h) = i /\ cur[h] \in Cursor /\ tail \in Cursor /\ OwnerOf[h] \in alive
        /\ alive' = alive
    BY Zenon, QueueAssumption
    DEF ProducerStart, ProducerStep, Types, QueueInv, TypeOK, Workers, Runs, Elsewhere
  <1>1. ProducerFits(h) /\ SlotFits(i) /\ Unsettled(i)
    BY Zenon, <1>0 DEF RingInv
  <1>2. ProducerFits(h)' => OwnFits(h)'
    BY Zenon, OwnKind
  <1>3. \A here, there : Goto(h, here, there) =>
          /\ pc[h] = here /\ pc'[h] = there
          /\ (\A g \in Workers \ {h} : cur'[g] = cur[g] /\ seen'[g] = seen[g]) => Moves(h)
    BY Zenon, <1>0, Jumps
  <1>4. \A here : Return(h, here) => pc[h] = here /\ pc'[h] = "idle" /\ Moves(h)
    BY Zenon, <1>0, Returns
  <1>5. pc'[h] = "idle" => OwnFits(h)' /\ Admitted(h)
    BY Zenon, <1>0, IdleFits DEF Admitted
  <1>6. Holds(h) =>
          /\ control[i].base = "PRODUCER" /\ control[i].source \in alive
          /\ control[i].complete <=> pc[h] = "staged"
    BY Zenon, <1>0, OwnWord
  <1>7. CASE ReserveStart(h)
    <2>1. pc'[h] = "load" /\ Moves(h)
      BY Zenon, <1>3, <1>7 DEF ReserveStart
    <2> QED
      BY Zenon, <1>0, <1>7, <2>1, IdleFits, QuietKeeps DEF ReserveStart, Admitted
  <1>8. CASE ReserveLoad(h)
    <2>1. pc'[h] = "own" /\ cur'[h] = tail /\ tail' = tail
      BY Zenon, <1>0, <1>3, <1>8 DEF ReserveLoad, ring, TypeOK
    <2>2. Moves(h)
      BY Zenon, <1>0, <1>3, <1>8 DEF ReserveLoad, TypeOK
    <2>3. ProducerFits(h)'
      BY Zenon, <1>0, <2>1, Order DEF ProducerFits
    <2> QED
      BY Zenon, <1>0, <1>2, <1>8, <2>1, <2>2, <2>3, QuietKeeps DEF ReserveLoad, Admitted
  <1>9. CASE ReserveFull(h) \/ ReserveBusy(h)
    BY Zenon, <1>0, <1>4, <1>5, <1>9, QuietKeeps DEF ReserveFull, ReserveBusy
  <1>10. CASE ReserveCheck(h)
    <2>1. /\ pc[h] = "check" /\ Moves(h) /\ UNCHANGED <<ring, cur, settled>>
          /\ \/ pc'[h] = "admit" /\ turn[i] = cur[h] /\ tail = cur[h]
             \/ pc'[h] = "undo"
      BY Zenon, <1>0, <1>3, <1>10 DEF ReserveCheck
    <2>2. ProducerFits(h)'
      BY Zenon, <1>0, <1>1, <2>1 DEF ProducerFits, SlotOf, Held, ring
    <2> QED
      BY Zenon, <1>0, <1>2, <2>1, <2>2, QuietKeeps DEF Admitted
  <1>11. CASE ReserveAdmit(h)
    <2>1. /\ pc[h] = "admit" /\ Moves(h) /\ UNCHANGED <<ring, cur, settled>>
          /\ \/ pc'[h] = "commit" /\ gate["send"] = 0
             \/ pc'[h] = "undo"
      BY Zenon, <1>0, <1>3, <1>11 DEF ReserveAdmit, Open
    <2>2. ProducerFits(h)'
      BY Zenon, <1>0, <1>1, <2>1 DEF ProducerFits, SlotOf, Held, ring
    <2> QED
      BY Zenon, <1>0, <1>2, <2>1, <2>2, QuietKeeps DEF Admitted
  <1>12. CASE ReserveCommit(h)
    <2>1. pc[h] = "commit"
      BY Zenon, <1>3, <1>12 DEF ReserveCommit
    <2>2. tail = cur[h]
      BY Zenon, <1>1, <2>1 DEF ProducerFits
    <2>3. Moves(h) /\ pc'[h] = "reserved" /\ tail' = NextCursor(tail)
      BY Zenon, <1>3, <1>12, <2>2 DEF ReserveCommit
    <2> QED
      BY Zenon, <1>0, <1>12, <2>1, <2>3, CommitsSend DEF ReserveCommit
  <1>13. CASE ReserveOwn(h)
    <2>1. CASE control[i] = Empty
      <3>1. ~Held(i) /\ Current(i) /\ control[i].source = NoOne
        BY Zenon, <1>1, <2>1, WordBits, WordFields DEF SlotFits
      <3>2. PICK w : w = Owned("PRODUCER", FALSE, OwnerOf[h])
        BY Zenon
      <3>3. pc[h] = "own" /\ pc'[h] = "check" /\ Moves(h) /\ Writes(i, w) /\ cur' = cur
        <4>1. /\ Goto(h, "own", "check")
              /\ SetControl(i, w)
              /\ UNCHANGED <<head, tail, turn, value, cur, seen, settled>>
          BY Zenon, <1>0, <1>13, <2>1, <3>2 DEF ReserveOwn
        <4>2. pc[h] = "own" /\ pc'[h] = "check" /\ Moves(h)
          BY Zenon, <1>3, <4>1
        <4>3. Writes(i, w)
          BY Zenon, <4>1 DEF SetControl, Writes
        <4> QED
          BY Zenon, <4>1, <4>2, <4>3
      <3>4. Suits(i, w)
        <4>1. w.base = "PRODUCER" /\ ~w.complete
          BY <3>2 DEF Owned
        <4> QED
          BY Zenon, <3>1, <4>1 DEF Suits
      <3>5. ProducerFits(h)'
        BY Zenon, <1>0, <1>1, <3>1, <3>3 DEF ProducerFits, SlotOf, Held, Writes
      <3> QED
        BY Zenon, <1>0, <1>2, <3>1, <3>3, <3>4, <3>5, WriteKeeps
    <2>2. CASE control[i] # Empty
      <3>1. pc[h] = "own" /\ pc'[h] = "probe" /\ Moves(h) /\ UNCHANGED <<ring, cur, settled>>
        BY Zenon, <1>0, <1>3, <1>13, <2>2 DEF ReserveOwn, ring
      <3>2. ProducerFits(h)'
        BY Zenon, <1>1, <3>1 DEF ProducerFits, ring
      <3> QED
        BY Zenon, <1>0, <1>2, <3>1, <3>2, QuietKeeps DEF Admitted
    <2> QED
      BY Zenon, <2>1, <2>2
  <1>14. CASE ReserveUndo(h)
    <2>1. pc[h] = "undo" /\ pc'[h] = "idle" /\ Moves(h) /\ Writes(i, Empty)
      BY Zenon, <1>0, <1>4, <1>14 DEF ReserveUndo, SetControl, Writes
    <2>2. Holds(h) /\ ~Held(i)
      BY Zenon, <1>0, <1>1, <2>1 DEF Holds, ProducerFits
    <2>3. control[i].base = "PRODUCER"
      BY Zenon, <1>6, <2>2
    <2>4. Suits(i, Empty)
      BY Zenon, <2>2, <2>3, NotClaimed, WordBits DEF Suits
    <2> QED
      BY Zenon, <1>0, <1>5, <2>1, <2>2, <2>4, WriteKeeps
  <1>15. CASE Stage(h)
    <2>1. PICK w : w = Owned("PRODUCER", TRUE, OwnerOf[h])
      BY Zenon
    <2>2. /\ pc[h] = "reserved" /\ pc'[h] = "staged" /\ Moves(h) /\ Writes(i, w) /\ cur' = cur
          /\ value'[i] = cur[h]
      BY Zenon, <1>0, <1>3, <1>15, <2>1 DEF Stage, SetControl, Writes, TypeOK
    <2>3. Holds(h) /\ Held(i) /\ turn[i] = cur[h]
      BY Zenon, <1>0, <1>1, <2>2 DEF Holds, ProducerFits
    <2>4. control[i].base = "PRODUCER" /\ control[i].source \in alive
      BY Zenon, <1>6, <2>3
    <2>5. Suits(i, w)
      BY Zenon, <1>1, <2>1, <2>2, <2>3, <2>4, NotClaimed, WordBits DEF Suits, Unsettled
    <2>6. ProducerFits(h)'
      BY Zenon, <1>0, <2>2, <2>3 DEF ProducerFits, SlotOf, Held, Writes
    <2> QED
      BY Zenon, <1>0, <1>2, <2>2, <2>3, <2>5, <2>6, WriteKeeps
  <1>16. CASE Publish(h) \/ Skip(h)
    <2>1. PICK b \in BOOLEAN :
            /\ pc'[h] = "idle" /\ Moves(h) /\ Writes(i, Available(b)) /\ value' = value
            /\ pc[h] \in {"reserved", "staged"} /\ (b => pc[h] = "staged")
      BY Zenon, <1>0, <1>4, <1>16 DEF Publish, Skip, SetControl, Writes
    <2>2. Holds(h) /\ Held(i) /\ turn[i] = cur[h]
      BY Zenon, <1>0, <1>1, <2>1 DEF Holds, ProducerFits
    <2>3. control[i].base = "PRODUCER" /\ control[i].source \in alive
      BY Zenon, <1>6, <2>2
    <2>4. b => control[i].complete
      BY Zenon, <1>6, <2>1, <2>2
    <2>5. Suits(i, Available(b))
      BY Zenon, <1>1, <2>1, <2>2, <2>3, <2>4, NotClaimed, WordBits DEF Suits, Unsettled, SlotFits
    <2> QED
      BY Zenon, <1>0, <1>5, <2>1, <2>2, <2>5, WriteKeeps
  <1> QED
    BY Zenon, <1>7, <1>8, <1>9, <1>10, <1>11, <1>12, <1>13, <1>14, <1>15, <1>16
    DEF ProducerStart, ProducerStep
\* A step of a receiver at a slot it owns, after which the slot is not committed.
LEMMA ClaimedKeeps ==
    ASSUME Types, QueueInv, RingInv, NEW h \in Consumers, Runs(h), Holds(h),
           NEW i \in Slots, SlotOf(h) = i, Touches(h, {i}), Moves(h), control' = control,
           SlotFits(i)', ~Held(i)', ConsumerFits(h)'
    PROVE  RingInv'
  <1>1. h \in Workers /\ OwnFits(h)' /\ h \notin Producers
    BY Zenon, OwnKind, QueueAssumption
  <1>2. Unsettled(i)'
    BY Zenon DEF Unsettled
  <1>3. DeadFits(i)'
    <2>1. control[i].source \in alive /\ alive' = alive
      BY Zenon, <1>1, OwnWord DEF Runs, Moves
    <2> QED
      BY Zenon, <2>1 DEF DeadFits
  <1>4. ASSUME Clear(i) PROVE Clear(i)'
    <2>1. ASSUME NEW g \in Producers, Runs(g)', pc'[g] = "commit" PROVE SlotOf(g)' # i
      BY Zenon, <1>1, <1>4, <2>1 DEF Clear, Moves, Handles, Workers, Runs, SlotOf
    <2> QED
      BY Zenon, <2>1 DEF Clear
  <1>5. Mends(i) /\ Admitted(h)
    BY Zenon, <1>1, <1>2, <1>3, <1>4 DEF Mends, Admitted
  <1> QED
    BY Zenon, <1>1, <1>5, OwnerIsAlone, TouchKeeps

\* A committing receiver takes its own slot out of the committed window.
LEMMA CommitsClaim ==
    ASSUME Types, QueueInv, RingInv, NEW h \in Consumers, Runs(h), pc[h] = "commit",
           Moves(h), pc'[h] = IF seen[h] THEN "claimed" ELSE "recycle",
           cur' = cur, seen' = seen, settled' = settled,
           tail' = tail, turn' = turn, control' = control, value' = value,
           head' = NextCursor(head)
    PROVE  RingInv'
  <1> PICK i \in Slots : i = SlotOf(h)
    BY Zenon, CursorParts DEF Types, TypeOK, SlotOf, Workers
  <1>1. /\ h \in Workers /\ Holds(h) /\ SlotOf(h) = i /\ SlotOf(h)' = i
        /\ head = cur[h] /\ turn[i] = cur[h] /\ Held(i)
    BY Zenon, OwnKind DEF RingInv, ConsumerFits, Holds, SlotOf
  <1>2. head \in Cursor /\ head.index = i /\ tail \in Cursor /\ head.lap \in Nat
    BY Zenon, <1>1, CursorParts DEF Types, TypeOK, SlotOf
  <1>3. /\ AtMost(head, head') /\ LapAt(head', i) = head.lap + 1 /\ LapAt(head, i) = head.lap
        /\ \A j \in Slots \ {i} : LapAt(head', j) = LapAt(head, j)
    BY Zenon, <1>2, Advancing, Laps
  <1>4. Touches(h, {i})
    BY Zenon, <1>2, <1>3 DEF Touches, Moves
  <1>5. SlotFits(i) /\ Unsettled(i)
    BY Zenon DEF RingInv
  <1>6. LapAt(tail, i) = head.lap + 1
    BY <1>1, <1>2, <1>3, <1>5 DEF SlotFits, Held
  <1>7. LapAt(tail', i) = LapAt(head', i) /\ ~Held(i)' /\ Prior(i)'
    BY <1>1, <1>2, <1>3, <1>6 DEF Held, Prior
  <1>8. control[i].base = "CONSUMER" /\ control[i].complete = seen[h]
    BY Zenon, <1>1, OwnWord
  <1>9. SlotFits(i)'
    BY Zenon, <1>1, <1>5, <1>7, <1>8 DEF SlotFits
  <1>10. seen[h] => cur[h] \notin settled
    BY Zenon, <1>1, <1>5, <1>8 DEF Unsettled
  <1>11. ConsumerFits(h)'
    BY Zenon, <1>1, <1>7, <1>10 DEF ConsumerFits
  <1> QED
    BY Zenon, <1>1, <1>4, <1>7, <1>9, <1>11, ClaimedKeeps

\* A receiver that took its value: the value is that of a past position of its slot.
LEMMA TakesClaim ==
    ASSUME Types, QueueInv, RingInv, NEW h \in Consumers, Runs(h), pc[h] = "claimed",
           Moves(h), pc'[h] = "recycle", cur' = cur, UNCHANGED ring,
           settled' = settled \cup {value[SlotOf(h)]}
    PROVE  value[SlotOf(h)] \notin settled /\ RingInv'
  <1> PICK i \in Slots : i = SlotOf(h)
    BY Zenon, CursorParts DEF Types, TypeOK, SlotOf, Workers
  <1>1. /\ h \in Workers /\ Holds(h) /\ SlotOf(h) = i /\ SlotOf(h)' = i
        /\ turn[i] = cur[h] /\ ~Held(i) /\ Prior(i) /\ seen[h] /\ cur[h] \notin settled
    BY Zenon, OwnKind DEF RingInv, ConsumerFits, Holds, SlotOf
  <1>2. control[i].complete
    BY Zenon, <1>1, OwnWord
  <1>3. SlotFits(i)
    BY Zenon DEF RingInv
  <1>4. value[i] = cur[h] /\ cur[h].index = i /\ turn[i].index = i
    BY Zenon, <1>1, <1>2, <1>3 DEF SlotFits, SlotOf
  <1>5. turn[i] \in Cursor /\ tail \in Cursor /\ LapAt(tail, i) = LapAt(head, i)
    BY Zenon, <1>1, NotHeld DEF Types, TypeOK
  <1>6. turn[i].lap < LapAt(tail, i)
    <2>1. turn[i].lap \in Nat
      BY Zenon, <1>5, CursorParts
    <2> QED
      BY <1>1, <1>5, <2>1 DEF Prior
  <1>7. ~AtMost(tail, turn[i])
    BY Zenon, <1>4, <1>5, <1>6, Laps, Order
  <1>8. Touches(h, {i})
    BY Zenon, <1>1, <1>4, <1>7 DEF Touches, Moves, ring
  <1>9. SlotFits(i)' /\ ~Held(i)' /\ Prior(i)' /\ control' = control
    BY Zenon, <1>1, <1>3 DEF SlotFits, Held, Prior, Current, ring
  <1>10. ConsumerFits(h)'
    BY Zenon, <1>1, <1>9 DEF ConsumerFits, ring
  <1> QED
    BY Zenon, <1>1, <1>4, <1>8, <1>9, <1>10, ClaimedKeeps

\* A receiver that writes the next turn into its slot.
LEMMA TurnsClaim ==
    ASSUME Types, QueueInv, RingInv, NEW h \in Consumers, Runs(h), pc[h] = "recycle",
           Moves(h), pc'[h] = "free", cur' = cur, settled' = settled,
           head' = head, tail' = tail, control' = control, value' = value,
           turn' = [turn EXCEPT ![SlotOf(h)] = NextLap(cur[h])]
    PROVE  RingInv'
  <1> PICK i \in Slots : i = SlotOf(h)
    BY Zenon, CursorParts DEF Types, TypeOK, SlotOf, Workers
  <1>1. /\ h \in Workers /\ Holds(h) /\ SlotOf(h) = i /\ SlotOf(h)' = i
        /\ turn[i] = cur[h] /\ ~Held(i) /\ Prior(i)
    BY Zenon, OwnKind DEF RingInv, ConsumerFits, Holds, SlotOf
  <1>2. turn'[i] = NextLap(cur[h]) /\ \A j \in Slots \ {i} : turn'[j] = turn[j]
    BY Zenon, <1>1 DEF Types, TypeOK
  <1>3. turn'[i].lap = cur[h].lap + 1 /\ turn'[i].index = i
    BY <1>1, <1>2 DEF NextLap, SlotOf
  <1>4. Current(i)' /\ ~Held(i)'
    BY Zenon, <1>1, <1>3 DEF Current, Prior, Held
  <1>5. ~Prior(i)'
    <2>1. turn'[i].lap \in Nat /\ turn'[i].lap = LapAt(head', i)
      BY Zenon, <1>4, CursorParts DEF Types, TypeOK, Current
    <2> QED
      BY <2>1 DEF Prior
  <1>6. control[i].base = "CONSUMER"
    BY Zenon, <1>1, OwnWord
  <1>7. SlotFits(i)'
    <2>1. LapAt(tail', i) = LapAt(head', i) \/ LapAt(tail', i) = LapAt(head', i) + 1
      BY Zenon DEF RingInv, SlotFits
    <2> QED
      BY Zenon, <1>3, <1>4, <1>5, <1>6, <2>1 DEF SlotFits
  <1>8. Touches(h, {i})
    BY Zenon, <1>2 DEF Touches, Moves
  <1>9. ConsumerFits(h)'
    BY Zenon, <1>1, <1>4 DEF ConsumerFits
  <1> QED
    BY Zenon, <1>1, <1>4, <1>7, <1>8, <1>9, ClaimedKeeps
\* Every step of a receiver keeps the invariant of the ring.
LEMMA ReceiverKeeps ==
    ASSUME QueueInv, QueueInv', RingInv, NEW h \in Consumers, ConsumerStep(h)
    PROVE  RingInv'
  <1> PICK i \in Slots : i = SlotOf(h)
    BY Zenon, CursorParts DEF QueueInv, TypeOK, SlotOf, Workers
  <1>0. /\ Types /\ TypeOK /\ h \in Workers /\ h \notin Producers /\ Runs(h) /\ Elsewhere
        /\ SlotOf(h) = i /\ head \in Cursor /\ OwnerOf[h] \in alive
        /\ alive' = alive
    BY Zenon, QueueAssumption
    DEF ConsumerStep, Types, QueueInv, TypeOK, Workers, Runs, Elsewhere
  <1>1. ConsumerFits(h) /\ SlotFits(i) /\ Unsettled(i)
    BY Zenon, <1>0 DEF RingInv
  <1>2. Admitted(h) /\ (ConsumerFits(h)' => OwnFits(h)')
    BY Zenon, <1>0, OwnKind DEF Admitted
  <1>3. \A here, there : Goto(h, here, there) =>
          /\ pc[h] = here /\ pc'[h] = there
          /\ (\A g \in Workers \ {h} : cur'[g] = cur[g] /\ seen'[g] = seen[g]) => Moves(h)
    BY Zenon, <1>0, Jumps
  <1>4. \A here : Return(h, here) => pc[h] = here /\ pc'[h] = "idle" /\ Moves(h)
    BY Zenon, <1>0, Returns
  <1>5. pc'[h] = "idle" => OwnFits(h)'
    BY Zenon, <1>0, IdleFits
  <1>6. Holds(h) =>
          /\ control[i].base = "CONSUMER" /\ control[i].source \in alive
          /\ control[i].complete = seen[h]
    BY Zenon, <1>0, OwnWord
  <1>7. CASE ClaimStart(h)
    <2>1. pc'[h] = "load" /\ Moves(h)
      BY Zenon, <1>3, <1>7 DEF ClaimStart
    <2> QED
      BY Zenon, <1>0, <1>2, <1>7, <2>1, IdleFits, QuietKeeps DEF ClaimStart
  <1>8. CASE ClaimLoad(h)
    <2>1. pc'[h] = "look" /\ cur'[h] = head /\ head' = head
      BY Zenon, <1>0, <1>3, <1>8 DEF ClaimLoad, ring, TypeOK
    <2>2. Moves(h)
      BY Zenon, <1>0, <1>3, <1>8 DEF ClaimLoad, TypeOK
    <2>3. ConsumerFits(h)'
      BY Zenon, <1>0, <2>1, Order DEF ConsumerFits
    <2> QED
      BY Zenon, <1>0, <1>2, <1>8, <2>2, <2>3, QuietKeeps DEF ClaimLoad
  <1>9. CASE ClaimLook(h)
    <2>1. pc[h] = "look" /\ pc'[h] \in {"own", "probe"} /\ UNCHANGED <<ring, cur, settled>>
      BY Zenon, <1>3, <1>9 DEF ClaimLook
    <2>2. Moves(h)
      BY Zenon, <1>0, <1>3, <1>9 DEF ClaimLook, TypeOK
    <2>3. ConsumerFits(h)'
      BY Zenon, <1>1, <2>1 DEF ConsumerFits, ring
    <2> QED
      BY Zenon, <1>0, <1>2, <2>1, <2>2, <2>3, QuietKeeps
  <1>10. CASE ClaimEmpty(h) \/ ClaimBusy(h)
    BY Zenon, <1>0, <1>2, <1>4, <1>5, <1>10, QuietKeeps DEF ClaimEmpty, ClaimBusy
  <1>11. CASE ClaimCheck(h)
    <2>1. /\ pc[h] = "check" /\ Moves(h) /\ UNCHANGED <<ring, cur, settled>>
          /\ \/ pc'[h] = "commit" /\ turn[i] = cur[h] /\ head = cur[h]
             \/ pc'[h] = "undo"
      BY Zenon, <1>0, <1>3, <1>11 DEF ClaimCheck
    <2>2. ConsumerFits(h)'
      BY Zenon, <1>0, <1>1, <2>1 DEF ConsumerFits, SlotOf, Held, ring
    <2> QED
      BY Zenon, <1>0, <1>2, <2>1, <2>2, QuietKeeps
  <1>12. CASE ClaimCommit(h)
    <2>1. pc[h] = "commit"
      BY Zenon, <1>3, <1>12 DEF ClaimCommit
    <2>2. head = cur[h]
      BY Zenon, <1>1, <2>1 DEF ConsumerFits
    <2>3. Goto(h, "commit", IF seen[h] THEN "claimed" ELSE "recycle") /\ head' = NextCursor(head)
      BY Zenon, <1>12, <2>2 DEF ClaimCommit
    <2>4. Moves(h) /\ pc'[h] = IF seen[h] THEN "claimed" ELSE "recycle"
      BY Zenon, <1>3, <1>12, <2>3 DEF ClaimCommit
    <2> QED
      BY Zenon, <1>0, <1>12, <2>1, <2>3, <2>4, CommitsClaim DEF ClaimCommit
  <1>13. CASE ClaimOwn(h)
    <2>1. CASE control[i] = Available(seen[h])
      <3>1. PICK w : w = Owned("CONSUMER", seen[h], OwnerOf[h])
        BY Zenon
      <3>2. /\ Goto(h, "own", "check")
            /\ SetControl(i, w)
            /\ UNCHANGED <<head, tail, turn, value, cur, seen, settled>>
        BY Zenon, <1>0, <1>13, <2>1, <3>1 DEF ClaimOwn
      <3>3. pc[h] = "own" /\ pc'[h] = "check" /\ Moves(h)
        BY Zenon, <1>3, <3>2
      <3>4. Writes(i, w)
        BY Zenon, <3>2 DEF SetControl, Writes
      <3>5. /\ control[i].base = "AVAILABLE" /\ control[i].complete = seen[h]
            /\ control[i].source = NoOne
        BY <2>1 DEF Available
      <3>6. Held(i)
        BY Zenon, <1>1, <3>5 DEF SlotFits
      <3>7. w.base = "CONSUMER" /\ w.complete = seen[h] /\ w.source = OwnerOf[h]
        BY <3>1 DEF Owned
      <3>8. Suits(i, w)
        BY Zenon, <1>0, <1>1, <3>2, <3>5, <3>6, <3>7 DEF Suits, SlotFits, Unsettled
      <3>9. ConsumerFits(h)'
        BY Zenon, <1>0, <1>1, <3>2, <3>3, <3>6 DEF ConsumerFits, SlotOf, Held
      <3> QED
        BY Zenon, <1>0, <1>2, <3>3, <3>4, <3>5, <3>8, <3>9, WriteKeeps
    <2>2. CASE control[i] # Available(seen[h])
      <3>1. pc'[h] = "idle" /\ Moves(h) /\ UNCHANGED <<ring, settled>>
        BY Zenon, <1>0, <1>4, <1>13, <2>2 DEF ClaimOwn, ring
      <3> QED
        BY Zenon, <1>0, <1>2, <1>5, <3>1, QuietKeeps
    <2> QED
      BY Zenon, <2>1, <2>2
  <1>14. CASE ClaimUndo(h)
    <2>1. /\ pc[h] = "undo" /\ pc'[h] = "idle" /\ Moves(h) /\ Writes(i, Available(seen[h]))
          /\ value' = value
      BY Zenon, <1>0, <1>4, <1>14 DEF ClaimUndo, SetControl, Writes
    <2>2. Holds(h) /\ Held(i)
      BY Zenon, <1>0, <1>1, <2>1 DEF Holds, ConsumerFits
    <2>3. Current(i)
      BY Zenon, <1>1, <2>2 DEF SlotFits
    <2>4. PICK w : w = Available(seen[h])
      BY Zenon
    <2>5. w.base = "AVAILABLE" /\ w.complete = seen[h]
      BY Zenon, <2>4, WordBits
    <2>6. Suits(i, w)
      BY Zenon, <1>1, <1>6, <2>1, <2>2, <2>3, <2>5 DEF Suits, SlotFits, Unsettled
    <2> QED
      BY Zenon, <1>0, <1>5, <2>1, <2>2, <2>4, <2>6, WriteKeeps
  <1>15. CASE Take(h)
    <2>1. pc[h] = "claimed" /\ pc'[h] = "recycle" /\ Moves(h)
      BY Zenon, <1>3, <1>15 DEF Take
    <2> QED
      BY Zenon, <1>0, <1>15, <2>1, TakesClaim DEF Take
  <1>16. CASE RecycleTurn(h)
    <2>1. pc[h] = "recycle" /\ pc'[h] = "free" /\ Moves(h)
      BY Zenon, <1>3, <1>16 DEF RecycleTurn
    <2> QED
      BY Zenon, <1>0, <1>16, <2>1, TurnsClaim DEF RecycleTurn
  <1>17. CASE RecycleFree(h)
    <2>1. pc[h] = "free" /\ pc'[h] = "idle" /\ Moves(h) /\ Writes(i, Empty)
      BY Zenon, <1>0, <1>4, <1>17 DEF RecycleFree, SetControl, Writes
    <2>2. Holds(h) /\ ~Held(i) /\ Current(i)
      BY Zenon, <1>0, <1>1, <2>1 DEF Holds, ConsumerFits
    <2>3. Suits(i, Empty)
      BY Zenon, <2>2, WordBits DEF Suits
    <2> QED
      BY Zenon, <1>0, <1>5, <2>1, <2>2, <2>3, WriteKeeps
  <1> QED
    BY Zenon, <1>7, <1>8, <1>9, <1>10, <1>11, <1>12, <1>13, <1>14, <1>15, <1>16, <1>17
    DEF ConsumerStep
-----------------------------------------------------------------------------
(* Steps of reapers.                                                       *)

\* of the locals of handles only those of reaper r change
Shifts(r) ==
    /\ \A g \in Handles \ {r} : pc'[g] = pc[g]
    /\ \A g \in (Closers \cup Reapers) \ {r} : at'[g] = at[g]
    /\ \A q \in Reapers \ {r} : word'[q] = word[q]
    /\ cur' = cur /\ seen' = seen /\ alive' = alive /\ gate' = gate /\ field' = field

\* A jump of a reaper.
LEMMA Shifting ==
    ASSUME TypeOK, NEW r \in Reapers, NEW here, NEW there, Goto(r, here, there),
           UNCHANGED <<gate, alive, cur, seen, field>>
    PROVE  /\ pc[r] = here /\ pc'[r] = there
           /\ (at' = at \/ \E k : at' = [at EXCEPT ![r] = k])
              /\ (word' = word \/ \E w : word' = [word EXCEPT ![r] = w]) => Shifts(r)
  <1>1. r \in Handles /\ DOMAIN pc = Handles
    BY Zenon DEF TypeOK, PcOK, Handles
  <1>2. pc[r] = here /\ pc'[r] = there /\ \A g \in Handles \ {r} : pc'[g] = pc[g]
    BY <1>1 DEF Goto
  <1>3. ASSUME at' = at \/ \E k : at' = [at EXCEPT ![r] = k]
        PROVE  \A g \in (Closers \cup Reapers) \ {r} : at'[g] = at[g]
    BY Zenon, <1>3 DEF TypeOK
  <1>4. ASSUME word' = word \/ \E w : word' = [word EXCEPT ![r] = w]
        PROVE  \A q \in Reapers \ {r} : word'[q] = word[q]
    BY Zenon, <1>4 DEF TypeOK
  <1> QED
    BY Zenon, <1>2, <1>3, <1>4 DEF Shifts

\* A reaper that has decided nothing yet fits.
LEMMA RestFits ==
    ASSUME NEW r \in Reapers, pc'[r] \in {"idle", "read", "mark", "roles"}
    PROVE  ReaperFits(r)'
  BY Zenon DEF ReaperFits

\* recover returning, or passing to the next slot.
LEMMA LeavesSlot ==
    ASSUME TypeOK, NEW r \in Reapers, NEW here, Stop(r, here) \/ Advance(r, here),
           UNCHANGED <<gate, alive, cur, seen, field>>
    PROVE  pc[r] = here /\ Shifts(r) /\ ReaperFits(r)'
  <1>1. PICK there : Goto(r, here, there) /\ there \in {"idle", "read", "roles"}
    BY Zenon DEF Stop, Advance
  <1>2. pc[r] = here /\ pc'[r] = there
    BY Zenon, <1>1, Shifting
  <1>3. (\E k : at' = [at EXCEPT ![r] = k]) /\ \E w : word' = [word EXCEPT ![r] = w]
    BY Zenon DEF Stop, Advance
  <1>4. Shifts(r)
    BY Zenon, <1>1, <1>3, Shifting
  <1> QED
    BY Zenon, <1>1, <1>2, <1>4, RestFits

\* A step of a reaper that leaves the ring as it is.
LEMMA LooksKeeps ==
    ASSUME Types, RingInv, NEW r \in Reapers, Shifts(r), UNCHANGED <<ring, settled>>,
           pc[r] # "store", ReaperFits(r)'
    PROVE  RingInv'
  <1>1. Touches(r, {}) /\ Alone(r, {})
    BY Zenon DEF Touches, Alone, Shifts, ring
  <1>2. Admitted(r) /\ OwnFits(r)'
    BY Zenon, QueueAssumption DEF Admitted, OwnFits, Workers
  <1>3. \A i \in {} \cap Slots : Mends(i)
    BY Zenon
  <1> QED
    BY Zenon, <1>1, <1>2, <1>3, TouchKeeps

\* Nobody else works at a slot that a reaper marked, or may mark.
LEMMA ReaperIsAlone ==
    ASSUME OneReaperEach, QueueInv, NEW r \in Reapers, Runs(r), NEW i \in Slots, at[r] = i,
           control[i].source \in Participants \ alive,
           control[i].reaper = OwnerOf[r] \/ control[i].reaper \notin alive
    PROVE  Alone(r, {i})
  <1>1. ASSUME NEW g \in Workers, Holds(g), Runs(g) PROVE SlotOf(g) # i
    BY Zenon, <1>1, OwnWord DEF Runs
  <1>2. ASSUME NEW q \in Reapers \ {r}, Runs(q), pc[q] \in RepairPcs PROVE at[q] # i
    <2>1. control[at[q]].reaper = OwnerOf[q] /\ OwnerOf[q] \in alive
      BY Zenon, <1>2 DEF QueueInv, Repairing, RepairPcs, Runs
    <2> QED
      BY Zenon, <2>1 DEF OneReaperEach
  <1> QED
    BY Zenon, <1>1, <1>2 DEF Alone

\* A step of a reaper at the slot it repairs.
LEMMA RepairKeeps ==
    ASSUME OneReaperEach, Types, QueueInv, RingInv, NEW r \in Reapers, Runs(r),
           NEW i \in Slots, at[r] = i, Touches(r, {i}), Shifts(r),
           control[i].source \in Participants \ alive,
           control[i].reaper = OwnerOf[r] \/ control[i].reaper \notin alive,
           SlotFits(i)', Unsettled(i)', DeadFits(i)',
           Held(i)' /\ control'[i].base = "PRODUCER" => Held(i) /\ control[i].base = "PRODUCER",
           ReaperFits(r)'
    PROVE  RingInv'
  <1>1. Alone(r, {i}) /\ r \notin Workers
    BY Zenon, ReaperIsAlone, QueueAssumption
  <1>2. ASSUME Clear(i) PROVE Clear(i)'
    <2>1. ASSUME NEW g \in Producers, Runs(g)', pc'[g] = "commit" PROVE SlotOf(g)' # i
      BY Zenon, <1>1, <1>2, <2>1 DEF Clear, Shifts, Handles, Workers, Runs, SlotOf
    <2> QED
      BY Zenon, <1>2, <2>1 DEF Clear
  <1>3. Mends(i)
    BY Zenon, <1>2 DEF Mends
  <1>4. Admitted(r) /\ OwnFits(r)'
    BY Zenon, <1>1 DEF Admitted, OwnFits, Workers
  <1> QED
    BY Zenon, <1>1, <1>3, <1>4, TouchKeeps
\* What the comparisons of a turn with the cursors tell about its slot.
LEMMA Decisions ==
    ASSUME TypeOK, RingInv, NEW i \in Slots
    PROVE  /\ Current(i) /\ turn[i] = tail => ~Held(i)
           /\ Current(i) /\ Before(turn[i], tail) => Held(i)
           /\ Held(i) => Current(i) /\ ~AtMost(tail, turn[i])
           /\ Prior(i) /\ ~Held(i) => ~AtMost(tail, turn[i])
           /\ Prior(i) => Before(turn[i], head) /\ turn[i] # head
  <1>1. turn[i] \in Cursor /\ head \in Cursor /\ tail \in Cursor /\ turn[i].lap \in Nat
    BY Zenon, CursorParts DEF TypeOK
  <1>2. SlotFits(i) /\ turn[i].index = i
    BY Zenon DEF RingInv, SlotFits
  <1>3. LapAt(head, i) \in Nat /\ LapAt(tail, i) \in Nat
    BY Zenon, <1>1, Laps
  <1>4. /\ Before(turn[i], tail) <=> turn[i].lap < LapAt(tail, i)
        /\ Before(turn[i], head) <=> turn[i].lap < LapAt(head, i)
        /\ turn[i] = tail => turn[i].lap = LapAt(tail, i)
        /\ turn[i] = head => turn[i].lap = LapAt(head, i)
    BY Zenon, <1>1, <1>2, Laps
  <1>5. Before(turn[i], tail) => ~AtMost(tail, turn[i])
    BY Zenon, <1>1, Order
  <1>6. Current(i) /\ turn[i] = tail => ~Held(i)
    BY <1>1, <1>3, <1>4 DEF Current, Held
  <1>7. Current(i) /\ Before(turn[i], tail) => Held(i)
    BY <1>1, <1>3, <1>4 DEF Current, Held
  <1>8. Held(i) => Current(i)
    BY Zenon, <1>2 DEF SlotFits
  <1>9. Held(i) => Before(turn[i], tail)
    BY <1>1, <1>3, <1>4, <1>8 DEF Current, Held
  <1>10. Prior(i) => Before(turn[i], head) /\ turn[i] # head
    BY <1>1, <1>3, <1>4 DEF Prior
  <1>11. Prior(i) /\ ~Held(i) => Before(turn[i], tail)
    BY <1>1, <1>3, <1>4, NotHeld DEF Prior
  <1> QED
    BY Zenon, <1>5, <1>6, <1>7, <1>8, <1>9, <1>10, <1>11

\* The mark changes nobody's view of the slot.
LEMMA MarksSlot ==
    ASSUME OneReaperEach, Types, QueueInv, RingInv, NEW r \in Reapers, Runs(r), pc[r] = "mark",
           NEW i \in Slots, at[r] = i, control[i] = word[r], Shifts(r), pc'[r] = "act",
           control' = [control EXCEPT ![i] = [word[r] EXCEPT !.reaper = OwnerOf[r]]],
           UNCHANGED <<head, tail, turn, value, settled, at, word>>
    PROVE  RingInv'
  <1>1. control[i].source \in Participants \ alive /\ control[i].reaper \notin alive
    BY Zenon DEF QueueInv, ReadyToMark
  <1>2. \A j \in Slots \ {i} : control'[j] = control[j]
    BY Zenon DEF Types, TypeOK
  <1>3. /\ control'[i].base = control[i].base /\ control'[i].complete = control[i].complete
        /\ control'[i].source = control[i].source
    BY DEF Types, TypeOK, Control
  <1>4. Touches(r, {i})
    BY Zenon, <1>2 DEF Touches, Shifts
  <1>5. (Held(i)' <=> Held(i)) /\ (Current(i)' <=> Current(i)) /\ (Prior(i)' <=> Prior(i))
    BY Zenon DEF Held, Current, Prior
  <1>6. SlotFits(i) /\ Unsettled(i) /\ DeadFits(i) /\ alive' = alive
    BY Zenon DEF RingInv, Shifts
  <1>7. SlotFits(i)'
    BY Zenon, <1>3, <1>5, <1>6 DEF SlotFits
  <1>8. Unsettled(i)'
    <2>1. (control'[i].source \in alive') <=> (control[i].source \in alive)
      BY <1>3, <1>6
    <2> QED
      BY Zenon, <1>3, <1>5, <1>6, <2>1 DEF Unsettled
  <1>9. ASSUME Freeing(i) PROVE Freeing(i)'
    <2>1. PICK q \in Reapers : Runs(q) /\ pc[q] = "store" /\ at[q] = i /\ word[q] = Empty
      BY Zenon, <1>9 DEF Freeing
    <2>2. pc'[q] = "store"
      BY Zenon, <2>1 DEF Shifts, Handles
    <2> QED
      BY Zenon, <1>6, <2>1, <2>2 DEF Freeing, Runs
  <1>10. DeadFits(i)'
    <2>1. (control'[i].source \in alive') <=> (control[i].source \in alive)
      BY <1>3, <1>6
    <2> QED
      BY Zenon, <1>3, <1>5, <1>6, <1>9, <2>1 DEF DeadFits
  <1>11. ReaperFits(r)'
    BY Zenon, <1>3 DEF ReaperFits
  <1> QED
    BY Zenon, <1>1, <1>3, <1>4, <1>5, <1>7, <1>8, <1>10, <1>11, RepairKeeps

\* A release hands over the value of a past position of the slot.
LEMMA ReleasesSlot ==
    ASSUME OneReaperEach, Types, QueueInv, RingInv, NEW r \in Reapers, Runs(r), pc[r] = "release",
           NEW i \in Slots, at[r] = i, Shifts(r),
           pc'[r] = IF word[r] = Empty THEN "turn" ELSE "store",
           settled' = settled \cup {value[i]}, UNCHANGED ring, UNCHANGED <<at, word>>
    PROVE  RingInv'
  <1>1. control[i].source \in Participants \ alive /\ control[i].reaper = OwnerOf[r]
    BY Zenon DEF QueueInv, Repairing
  <1>2. /\ ReaperFits(r) /\ SlotFits(i) /\ DeadFits(i) /\ alive' = alive
        /\ head' = head /\ tail' = tail /\ turn' = turn /\ control' = control /\ value' = value
    BY Zenon DEF RingInv, Shifts, ring
  <1>3. /\ control[i].complete
        /\ word[r] # Empty => Held(i) /\ control[i].base = "PRODUCER" /\ ~word[r].complete
        /\ word[r] = Empty => ~Held(i) /\ Prior(i) /\ control[i].base = "CONSUMER"
    BY Zenon, <1>2 DEF ReaperFits
  <1>4. value[i] = turn[i] /\ turn[i].index = i
    BY Zenon, <1>2, <1>3 DEF SlotFits
  <1>5. ~AtMost(tail', value[i])
    BY Zenon, <1>2, <1>3, <1>4, Decisions DEF Types
  <1>6. Touches(r, {i})
    BY Zenon, <1>2, <1>4, <1>5 DEF Touches, Shifts
  <1>7. (Held(i)' <=> Held(i)) /\ (Current(i)' <=> Current(i)) /\ (Prior(i)' <=> Prior(i))
    BY Zenon, <1>2 DEF Held, Current, Prior
  <1>8. SlotFits(i)'
    BY Zenon, <1>2, <1>7 DEF SlotFits
  <1>9. Unsettled(i)'
    BY Zenon, <1>1, <1>2, <1>3, <1>7 DEF Unsettled
  <1>10. DeadFits(i)'
    BY Zenon, <1>2, <1>3, <1>7 DEF DeadFits
  <1>11. ReaperFits(r)'
    BY Zenon, <1>2, <1>3, <1>7 DEF ReaperFits
  <1> QED
    BY Zenon, <1>1, <1>2, <1>6, <1>7, <1>8, <1>9, <1>10, <1>11, RepairKeeps

\* A repair that finishes a recycle writes the turn of the slot's next position.
LEMMA TurnsSlot ==
    ASSUME OneReaperEach, Types, QueueInv, RingInv, NEW r \in Reapers, Runs(r), pc[r] = "turn",
           NEW i \in Slots, at[r] = i, Shifts(r), pc'[r] = "store",
           turn' = IF Before(turn[i], head) THEN [turn EXCEPT ![i] = NextLap(@)] ELSE turn,
           UNCHANGED <<head, tail, control, value, settled, at, word>>
    PROVE  RingInv'
  <1>1. control[i].source \in Participants \ alive /\ control[i].reaper = OwnerOf[r]
    BY Zenon DEF QueueInv, Repairing
  <1>2. ReaperFits(r) /\ SlotFits(i) /\ alive' = alive
    BY Zenon DEF RingInv, Shifts
  <1>3. word[r] = Empty /\ ~Held(i) /\ Prior(i) /\ control[i].base = "CONSUMER"
    BY Zenon, <1>2 DEF ReaperFits
  <1>4. Before(turn[i], head)
    BY Zenon, <1>3, Decisions DEF Types
  <1>5. turn'[i] = NextLap(turn[i]) /\ \A j \in Slots \ {i} : turn'[j] = turn[j]
    BY Zenon, <1>4 DEF Types, TypeOK
  <1>6. turn'[i].lap = turn[i].lap + 1 /\ turn'[i].index = i
    BY <1>2, <1>5 DEF NextLap, SlotFits
  <1>7. Current(i)' /\ ~Held(i)'
    BY Zenon, <1>3, <1>6 DEF Current, Prior, Held
  <1>8. ~Prior(i)'
    <2>1. turn'[i].lap \in Nat /\ turn'[i].lap = LapAt(head', i)
      BY Zenon, <1>7, CursorParts DEF Types, TypeOK, Current
    <2> QED
      BY <2>1 DEF Prior
  <1>9. SlotFits(i)' /\ Unsettled(i)'
    BY Zenon, <1>2, <1>3, <1>6, <1>7, <1>8 DEF SlotFits, Unsettled
  <1>10. Freeing(i)'
    BY Zenon, <1>2, <1>3 DEF Freeing, Runs
  <1>11. DeadFits(i)'
    BY Zenon, <1>7, <1>10 DEF DeadFits
  <1>12. Touches(r, {i})
    BY Zenon, <1>5 DEF Touches, Shifts
  <1>13. ReaperFits(r)'
    BY Zenon, <1>3, <1>7 DEF ReaperFits
  <1> QED
    BY Zenon, <1>1, <1>7, <1>9, <1>11, <1>12, <1>13, RepairKeeps

\* The word that a repair stores suits the slot.
LEMMA StoresSlot ==
    ASSUME OneReaperEach, Types, QueueInv, RingInv, NEW r \in Reapers, Runs(r), pc[r] = "store",
           NEW i \in Slots, at[r] = i, Shifts(r), ReaperFits(r)',
           control' = [control EXCEPT ![i] = word[r]],
           UNCHANGED <<head, tail, turn, value, settled>>
    PROVE  RingInv'
  <1>1. control[i].source \in Participants \ alive /\ control[i].reaper = OwnerOf[r]
    BY Zenon DEF QueueInv, Repairing
  <1>2. ReaperFits(r) /\ SlotFits(i) /\ Unsettled(i)
    BY Zenon DEF RingInv
  <1>3. PICK w \in {Empty, Available(TRUE), Available(FALSE)} : w = word[r]
    BY Zenon DEF QueueInv, Resolved
  <1>4. control'[i] = w /\ \A j \in Slots \ {i} : control'[j] = control[j]
    BY Zenon, <1>3 DEF Types, TypeOK
  <1>5. (Held(i)' <=> Held(i)) /\ (Current(i)' <=> Current(i)) /\ (Prior(i)' <=> Prior(i))
    BY Zenon DEF Held, Current, Prior
  <1>6. \/ w = Empty /\ w.base = "EMPTY" /\ ~w.complete /\ ~Held(i) /\ Current(i)
        \/ /\ w.base = "AVAILABLE" /\ Held(i)
           /\ w.complete => control[i].complete /\ control[i].base = "CONSUMER"
    <2>1. w = Empty => w.base = "EMPTY" /\ ~w.complete
      BY DEF Empty
    <2>2. w # Empty => w.base = "AVAILABLE"
      BY Zenon, <1>3, WordBits
    <2> QED
      BY Zenon, <1>2, <1>3, <2>1, <2>2 DEF ReaperFits
  <1>7. Held(i) => Current(i)
    BY Zenon, <1>2 DEF SlotFits
  <1>8. SlotFits(i)'
    <2>1. /\ LapAt(tail', i) = LapAt(head', i) \/ LapAt(tail', i) = LapAt(head', i) + 1
          /\ turn'[i].index = i
      BY Zenon, <1>2 DEF SlotFits
    <2>2. w.complete /\ (Held(i) \/ Prior(i)) => value'[i] = turn'[i]
      BY Zenon, <1>2, <1>6 DEF SlotFits
    <2> QED
      BY Zenon, <1>4, <1>5, <1>6, <1>7, <2>1, <2>2 DEF SlotFits
  <1>9. Unsettled(i)'
    BY Zenon, <1>2, <1>4, <1>5, <1>6 DEF Unsettled
  <1>10. control'[i].base \notin {"PRODUCER", "CONSUMER"}
    BY Zenon, <1>4, <1>6
  <1>11. DeadFits(i)'
    BY Zenon, <1>10 DEF DeadFits
  <1>12. Touches(r, {i})
    BY Zenon, <1>4 DEF Touches, Shifts
  <1> QED
    BY Zenon, <1>1, <1>8, <1>9, <1>10, <1>11, <1>12, RepairKeeps
\* Every step of a reaper keeps the invariant of the ring.
LEMMA ReaperKeepsRing ==
    ASSUME OneReaperEach, QueueInv, QueueInv', RingInv, NEW r \in Reapers, ReaperStep(r)
    PROVE  RingInv'
  <1> PICK i \in Slots : i = at[r]
    BY Zenon DEF QueueInv, TypeOK
  <1>0. /\ Types /\ TypeOK /\ Runs(r) /\ at[r] = i
        /\ UNCHANGED <<gate, alive, cur, seen, field>>
        /\ control[i].complete \in BOOLEAN
    BY Zenon DEF ReaperStep, Types, QueueInv, TypeOK, Control
  <1>1. ReaperFits(r) /\ SlotFits(i) /\ DeadFits(i)
    BY Zenon, <1>0 DEF RingInv
  <1>2. \A here, there : Goto(r, here, there) =>
          /\ pc[r] = here /\ pc'[r] = there
          /\ (at' = at \/ \E k : at' = [at EXCEPT ![r] = k])
             /\ (word' = word \/ \E w : word' = [word EXCEPT ![r] = w]) => Shifts(r)
    BY Zenon, <1>0, Shifting
  <1>3. \A here : Stop(r, here) \/ Advance(r, here) =>
          pc[r] = here /\ Shifts(r) /\ ReaperFits(r)'
    BY Zenon, <1>0, LeavesSlot
  <1>4. ASSUME UNCHANGED <<ring, settled>>, NEW here, here # "store",
               Stop(r, here) \/ Advance(r, here)
        PROVE  RingInv'
    BY Zenon, <1>0, <1>3, <1>4, LooksKeeps
  <1>5. CASE RepairNone(r) \/ RepairBusy(r) \/ RepairCorrupted(r) \/ RecoverRoles(r)
    BY Zenon, <1>4, <1>5 DEF RepairNone, RepairBusy, RepairCorrupted, RecoverRoles
  <1>6. CASE RepairStart(r)
    <2>1. pc[r] = "idle" /\ pc'[r] = "read" /\ Shifts(r)
      BY Zenon, <1>2, <1>6 DEF RepairStart
    <2> QED
      BY Zenon, <1>0, <1>6, <2>1, RestFits, LooksKeeps DEF RepairStart
  <1>7. CASE RepairRead(r)
    <2>1. PICK x \in {"act", "mark"} : Goto(r, "read", x)
      BY Zenon, <1>7 DEF RepairRead
    <2>2. word' = [word EXCEPT ![r] = control[i]] /\ UNCHANGED <<ring, at, settled>>
      BY Zenon, <1>0, <1>7 DEF RepairRead
    <2>3. pc[r] = "read" /\ pc'[r] = x /\ Shifts(r)
      BY Zenon, <1>2, <2>1, <2>2
    <2>4. word'[r] = control[i] /\ control' = control /\ at' = at
      BY Zenon, <1>0, <2>2 DEF TypeOK, ring
    <2>5. ReaperFits(r)'
      BY Zenon, <1>0, <2>3, <2>4 DEF ReaperFits
    <2> QED
      BY Zenon, <1>0, <2>2, <2>3, <2>5, LooksKeeps
  <1>8. CASE RepairMark(r)
    <2>1. CASE control[i] = word[r]
      <3>1. /\ Goto(r, "mark", "act") /\ UNCHANGED <<at, repairState>>
            /\ SetControl(i, [word[r] EXCEPT !.reaper = OwnerOf[r]])
        BY Zenon, <1>0, <1>8, <2>1 DEF RepairMark
      <3>2. pc[r] = "mark" /\ pc'[r] = "act" /\ Shifts(r)
        BY Zenon, <1>2, <3>1 DEF repairState
      <3> QED
        BY Zenon, <1>0, <1>8, <2>1, <3>1, <3>2, MarksSlot DEF RepairMark, SetControl, repairState
    <2>2. CASE control[i] # word[r]
      <3>1. Stop(r, "mark") /\ UNCHANGED <<ring, settled>>
        BY Zenon, <1>0, <1>8, <2>2 DEF RepairMark, ring
      <3> QED
        BY Zenon, <1>4, <3>1
    <2> QED
      BY Zenon, <2>1, <2>2
  <1>9. ASSUME NEW there, NEW w, Resolve(r, there, w)
        PROVE  /\ pc[r] = "act" /\ pc'[r] = there /\ Shifts(r) /\ UNCHANGED <<ring, settled>>
               /\ word'[r] = w /\ at' = at /\ control' = control
               /\ (Held(i)' <=> Held(i)) /\ (Current(i)' <=> Current(i)) /\ (Prior(i)' <=> Prior(i))
    <2>1. pc[r] = "act" /\ pc'[r] = there
      BY Zenon, <1>2, <1>9 DEF Resolve
    <2>2. Shifts(r)
      BY Zenon, <1>2, <1>9 DEF Resolve
    <2>3. word'[r] = w /\ at' = at /\ UNCHANGED <<ring, settled>>
      BY Zenon, <1>0, <1>9 DEF Resolve, TypeOK
    <2>4. control' = control /\ head' = head /\ tail' = tail /\ turn' = turn
      BY Zenon, <2>3 DEF ring
    <2> QED
      BY Zenon, <2>1, <2>2, <2>3, <2>4 DEF Held, Current, Prior
  <1>10. ASSUME NEW there, NEW w, Resolve(r, there, w), ReaperFits(r)' PROVE RingInv'
    BY Zenon, <1>0, <1>9, <1>10, LooksKeeps
  <1>11. pc[r] = "act" => /\ word[r].base = control[i].base
                          /\ word[r].complete = control[i].complete
    BY Zenon, <1>0, <1>1 DEF ReaperFits
  <1>12. CASE RepairProducer(r)
    <2>1. pc[r] = "act" /\ word[r].base = "PRODUCER"
      BY Zenon, <1>9, <1>12 DEF RepairProducer
    <2>2. Current(i) /\ control[i].base = "PRODUCER"
      BY Zenon, <1>1, <1>11, <2>1 DEF SlotFits
    <2>3. CASE tail = turn[i] /\ Resolve(r, "store", Empty)
      <3>1. ~Held(i)
        BY Zenon, <1>0, <2>2, <2>3, Decisions
      <3>2. pc'[r] = "store" /\ word'[r] = Empty /\ at'[r] = i /\ ~Held(i)' /\ Current(i)'
        BY Zenon, <1>0, <1>9, <2>2, <2>3, <3>1
      <3>3. ReaperFits(r)'
        BY Zenon, <3>2 DEF ReaperFits
      <3> QED
        BY Zenon, <1>10, <2>3, <3>3
    <2>4. ASSUME NEW x \in {"release", "store"}, Before(turn[i], tail),
                 Resolve(r, x, Available(FALSE)), x = "release" => word[r].complete
          PROVE  RingInv'
      <3>1. Held(i)
        BY Zenon, <1>0, <2>2, <2>4, Decisions
      <3>2. PICK w : w = Available(FALSE)
        BY Zenon
      <3>3. w # Empty /\ ~w.complete
        BY <3>2 DEF Available, Empty
      <3>4. /\ pc'[r] = x /\ word'[r] = w /\ at'[r] = i /\ Held(i)'
            /\ control'[i].base = "PRODUCER" /\ control'[i].complete = control[i].complete
        BY Zenon, <1>0, <1>9, <2>2, <2>4, <3>1, <3>2
      <3>5. ReaperFits(r)'
        BY Zenon, <1>11, <2>1, <2>4, <3>3, <3>4 DEF ReaperFits
      <3> QED
        BY Zenon, <1>10, <2>4, <3>5
    <2>5. \/ tail = turn[i] /\ Resolve(r, "store", Empty)
          \/ /\ Before(turn[i], tail)
             /\ \/ word[r].complete /\ Resolve(r, "release", Available(FALSE))
                \/ Resolve(r, "store", Available(FALSE))
      BY Zenon, <1>0, <1>12 DEF RepairProducer
    <2> QED
      BY Zenon, <2>3, <2>4, <2>5
  <1>13. CASE RepairConsumer(r)
    <2>1. pc[r] = "act" /\ word[r].base = "CONSUMER"
      BY Zenon, <1>9, <1>13 DEF RepairConsumer
    <2>2. control[i].base = "CONSUMER"
      BY Zenon, <1>11, <2>1
    <2>3. control[i].source \notin alive /\ control[i].reaper = OwnerOf[r]
      BY Zenon, <1>0, <2>1 DEF QueueInv, Repairing
    <2>4. ~Freeing(i)
      <3> SUFFICES ASSUME NEW q \in Reapers, Runs(q), pc[q] = "store", at[q] = i PROVE FALSE
        BY Zenon DEF Freeing
      <3>1. control[i].reaper = OwnerOf[q]
        BY Zenon DEF QueueInv, Repairing
      <3>2. q = r
        BY Zenon, <2>3, <3>1 DEF OneReaperEach
      <3> QED
        BY Zenon, <2>1, <3>2
    <2>5. (Held(i) /\ turn[i] = head) \/ (~Held(i) /\ Prior(i) /\ turn[i] # head)
      BY Zenon, <1>0, <1>1, <2>2, <2>3, <2>4, Decisions DEF DeadFits
    <2>6. CASE head = turn[i]
      <3>1. PICK w : w = Available(word[r].complete)
        BY Zenon
      <3>2. w # Empty /\ (w.complete <=> word[r].complete)
        BY <3>1 DEF Available, Empty
      <3>3. Resolve(r, "store", w)
        BY Zenon, <1>0, <1>13, <2>6, <3>1 DEF RepairConsumer
      <3>4. pc'[r] = "store" /\ word'[r] = w /\ at'[r] = i /\ Held(i)' /\ control' = control
        BY Zenon, <1>0, <1>9, <2>5, <2>6, <3>3
      <3>5. ReaperFits(r)'
        BY Zenon, <1>11, <2>1, <2>2, <3>2, <3>4 DEF ReaperFits
      <3> QED
        BY Zenon, <1>10, <3>3, <3>5
    <2>7. CASE head # turn[i]
      <3>1. PICK x \in {"release", "turn"} :
              Resolve(r, x, Empty) /\ (x = "release" => word[r].complete)
        BY Zenon, <1>0, <1>13, <2>7 DEF RepairConsumer
      <3>2. /\ pc'[r] = x /\ word'[r] = Empty /\ at'[r] = i /\ ~Held(i)' /\ Prior(i)'
            /\ control' = control
        BY Zenon, <1>0, <1>9, <2>5, <2>7, <3>1
      <3>3. ReaperFits(r)'
        BY Zenon, <1>11, <2>1, <2>2, <3>1, <3>2 DEF ReaperFits
      <3> QED
        BY Zenon, <1>10, <3>1, <3>3
    <2> QED
      BY Zenon, <2>6, <2>7
  <1>14. CASE RepairRelease(r)
    <2>1. CASE Goto(r, "release", IF word[r] = Empty THEN "turn" ELSE "store")
               /\ settled' = settled \cup {value[i]} /\ UNCHANGED <<at, repairState>>
      <3>1. /\ pc[r] = "release" /\ pc'[r] = IF word[r] = Empty THEN "turn" ELSE "store"
            /\ Shifts(r)
        BY Zenon, <1>2, <2>1 DEF repairState
      <3> QED
        BY Zenon, <1>0, <1>14, <2>1, <3>1, ReleasesSlot DEF RepairRelease, repairState
    <2>2. CASE Stop(r, "release") /\ UNCHANGED settled
      <3>1. UNCHANGED <<ring, settled>>
        BY Zenon, <1>14, <2>2 DEF RepairRelease
      <3> QED
        BY Zenon, <1>4, <2>2, <3>1
    <2> QED
      BY Zenon, <1>0, <1>14, <2>1, <2>2 DEF RepairRelease
  <1>15. CASE RepairTurn(r)
    <2>1. pc[r] = "turn" /\ pc'[r] = "store" /\ Shifts(r)
      BY Zenon, <1>2, <1>15 DEF RepairTurn, repairState
    <2> QED
      BY Zenon, <1>0, <1>15, <2>1, TurnsSlot DEF RepairTurn, repairState
  <1>16. CASE RepairStore(r)
    <2>1. pc[r] = "store" /\ Shifts(r) /\ ReaperFits(r)'
      BY Zenon, <1>3, <1>16 DEF RepairStore
    <2> QED
      BY Zenon, <1>0, <1>16, <2>1, StoresSlot DEF RepairStore, SetControl
  <1> QED
    BY Zenon, <1>5, <1>6, <1>7, <1>8, <1>12, <1>13, <1>14, <1>15, <1>16 DEF ReaperStep
=============================================================================
