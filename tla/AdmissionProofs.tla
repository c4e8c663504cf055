-------------------------- MODULE AdmissionProofs --------------------------
(***************************************************************************)
(* Proofs about Admission, for any number of processes, participant slots  *)
(* and generations, and for any processes that may die or recover others.  *)
(* Place says what a process has at each step of its admission, Built that *)
(* the layouts it uses are initialised once and for it, Named and Past     *)
(* that a participant's name is its own, Listed and Recovers whose bits    *)
(* the membership words hold.                                              *)
(***************************************************************************)
EXTENDS Admission, TLAPS

Shown == {"dir", "heap"}  \* layouts with a membership word
Statuses == {"uninitialized", "initializing", "initialized", "corrupted"}
States == {"free", "live", "dead", "retired"}
Hows == UNION {Plans[p] : p \in Processes}
Regions == {how.region : how \in Hows} \cup {Nobody}
Infos == {how.info : how \in Hows} \cup {Nobody}
Record == [status : Statuses, region : Regions, info : Infos, members : SUBSET Numbers]
Seat == [state : States, gen : 0 .. MaxMember]

Admitting == {"admit", "begin", "init", "publish", "claim", "claim swap"}
Initialising == {"init", "publish"}
Joining == {"join", "join swap"}
Reaping == {"reap heap", "reap dir", "release dead"}
Leaving == {"leave dir", "leave heap", "leave root"}
Steps == {"out", "in"} \cup Admitting \cup Joining \cup Reaping \cup Leaving

Types ==
    /\ layout \in [Layouts -> Record]
    /\ root \in [Numbers -> Seat]
    /\ pc \in [Processes -> Steps]
    /\ plan \in [Processes -> Hows \cup {Nobody}]
    /\ member \in [Processes -> Members \cup {NoMember}]
    /\ victim \in [Processes -> Members \cup {NoMember}]
    /\ attached \in [Processes -> SUBSET Layouts]
    /\ DOMAIN at = Processes /\ DOMAIN saw = Processes
    /\ exits \subseteq lost /\ lost \subseteq Members

\* where a process is in its admission, and what it has so far
Place(p) ==
    /\ pc[p] \in Admitting =>
         /\ at[p] \in Layouts /\ plan[p] \in Hows
         /\ at[p] = "root" => attached[p] = {} /\ member[p] = NoMember
         /\ at[p] = "dir" => attached[p] = {"root"} /\ member[p] # NoMember
         /\ at[p] = "heap" => attached[p] = {"root", "dir"} /\ member[p] # NoMember
    /\ pc[p] \in {"claim", "claim swap"} => at[p] # "root"
    /\ pc[p] \in Joining => /\ at[p] \in 1 .. Participants + 1 /\ plan[p] \in Hows
                            /\ attached[p] = {"root"} /\ member[p] = NoMember
    /\ pc[p] = "join swap" => at[p] \in Numbers /\ saw[p] \in 0 .. MaxMember
    /\ pc[p] \in {"in"} \cup Reaping => attached[p] = Layouts /\ member[p] # NoMember
    /\ pc[p] = "out" => attached[p] = {} /\ member[p] = NoMember
    /\ pc[p] = "leave heap" => "dir" \notin attached[p]
    /\ pc[p] = "leave root" => attached[p] \subseteq {"root"}
    /\ member[p] = NoMember => attached[p] \subseteq {"root"}
    /\ member[p] # NoMember => "root" \in attached[p]
    /\ victim[p] # NoMember <=> pc[p] \in Reaping

\* the layout a process initialises, claims, or is attached to
Sole(p) == \A q \in Processes \ {p} : ~(pc[q] \in Initialising /\ at[q] = at[p])
Fits(p, l) ==
    /\ layout[l].status = "initialized"
    /\ layout[l].region = plan[p].region /\ layout[l].info = Info(p, l)
Built(p) ==
    /\ pc[p] \in Initialising => Here(p).status = "initializing" /\ Sole(p)
    /\ pc[p] = "publish" => ~Mismatch(p) /\ (at[p] # "root" => Here(p).members = {Mine(p)})
    /\ pc[p] \in {"claim", "claim swap"} => Here(p).status = "initialized" /\ ~Mismatch(p)
    /\ \A l \in attached[p] : Fits(p, l)

\* the root before it is built
Empty ==
    layout["root"].status # "initialized" =>
        root = [s \in Numbers |-> [state |-> "free", gen |-> 0]] /\ lost = {}

\* participants
Named(p) ==
    member[p] # NoMember =>
        /\ root[Mine(p)] = [state |-> "live", gen |-> member[p].gen]
        /\ member[p] \notin lost
        /\ \A q \in Processes \ {p} : Mine(q) # Mine(p)
Past == \A m \in lost : m.gen <= root[m.slot].gen

\* a bit of a membership word is that of a holder, or of one that was lost
Backed(l, s) ==
    \/ \E p \in Processes : Mine(p) = s /\ (l \in attached[p] \/ (pc[p] = "publish" /\ at[p] = l))
    \/ root[s].state \in {"live", "dead"} /\ [slot |-> s, gen |-> root[s].gen] \in lost
Listed == \A l \in Shown : \A s \in layout[l].members : Backed(l, s)

\* recovery
Over(m) == root[m.slot].gen > m.gen \/ root[m.slot].state \in {"free", "retired"}
Recovers(p) ==
    victim[p] # NoMember =>
        /\ victim[p] \in lost
        /\ \/ Over(victim[p])
           \/ /\ root[victim[p].slot] = [state |-> "dead", gen |-> victim[p].gen]
              /\ pc[p] # "reap heap" => victim[p].slot \notin layout["heap"].members
              /\ pc[p] = "release dead" => victim[p].slot \notin layout["dir"].members

\* what p says of itself
Self(p) == Place(p) /\ Built(p) /\ Named(p) /\ Recovers(p)

AInv ==
    /\ Types /\ Empty /\ Past /\ Listed
    /\ \A p \in Processes : Self(p)

\* no two sessions recover one participant at the same time
SoleRecovery == \A p, q \in Processes : p # q /\ victim[p] # NoMember => victim[p] # victim[q]

\* a holder is in the membership words, and what is recovered is still the dead one
Enlisted == \A p \in Processes : \A l \in attached[p] \ {"root"} : Mine(p) \in layout[l].members
Exact ==
    \A p \in Processes : victim[p] # NoMember =>
        root[victim[p].slot] = [state |-> "dead", gen |-> victim[p].gen]

----------------------------------------------------------------------------
(* What a step of p leaves alone.                                          *)

Apart(p) ==
    /\ \A q \in Processes \ {p} :
        /\ pc'[q] = pc[q] /\ plan'[q] = plan[q] /\ at'[q] = at[q] /\ saw'[q] = saw[q]
        /\ member'[q] = member[q] /\ attached'[q] = attached[q] /\ victim'[q] = victim[q]
    /\ exits' = exits

Initialises(p, l) == pc[p] \in Initialising /\ at[p] = l

\* what it may do to a layout
Fixed(l) ==
    layout'[l].status = "initialized" /\ layout'[l].region = layout[l].region
    /\ layout'[l].info = layout[l].info
LayoutMoves(l, p) ==
    /\ layout[l].status = "initialized" => Fixed(l)
    /\ layout[l].status = "initializing" => layout'[l] = layout[l] \/ Initialises(p, l)
    /\ Initialises(p, l)' => Initialises(p, l) \/ layout[l].status = "uninitialized"
    /\ \A s \in layout'[l].members :
         s \in layout[l].members \/ (member[p] # NoMember /\ s = Mine(p))

\* what it may do to a participant slot
Moves(a, b) ==
    /\ b.gen >= a.gen
    /\ b.gen > a.gen => a.state = "free" /\ b.state = "live"
    /\ b.gen = a.gen /\ b # a =>
         b.state \in {"free", "retired"} \/ (a.state = "live" /\ b.state = "dead")
    /\ a.state = "free" /\ b.state = "dead" => FALSE
    /\ a.state = "retired" => b = a
RootMoves(p) ==
    /\ \A s \in Numbers :
        /\ Moves(root[s], root'[s])
        /\ root'[s] # root[s] => \A q \in Processes \ {p} : Mine(q) # s
    /\ root' # root \/ lost' # lost => layout["root"].status = "initialized"
    /\ lost \subseteq lost' /\ lost' \subseteq lost \cup {member[p]}

\* the bits of the membership words that a step of p puts in question
OwnBits(p) ==
    \A l \in Shown : \A s \in layout'[l].members :
        /\ \/ s \notin layout[l].members
           \/ Mine(p) = s /\ (l \in attached[p] \/ (pc[p] = "publish" /\ at[p] = l))
           => Backed(l, s)'
        /\ root'[s] # root[s] => root'[s].state = "dead"

Frame(p) ==
    /\ Apart(p) /\ RootMoves(p) /\ OwnBits(p)
    /\ \A l \in Layouts : LayoutMoves(l, p)
    /\ member'[p] # NoMember =>
         member'[p] = member[p] \/ \A q \in Processes \ {p} : Mine(q) # member'[p].slot

\* what is known of a process
LEMMA Known ==
    ASSUME AInv, NEW p \in Processes
    PROVE  /\ Self(p) /\ Types
           /\ pc[p] \in Steps /\ member[p] \in Members \cup {NoMember}
           /\ victim[p] \in Members \cup {NoMember} /\ attached[p] \subseteq Layouts
           /\ plan[p] \in Hows \cup {Nobody}
  BY Zenon DEF AInv, Types

\* The name of a participant is a slot and a positive generation, the absent one is not.
LEMMA Names ==
    /\ NoMember \notin Members /\ Nobody \notin Numbers /\ NoMember.slot = Nobody
    /\ \A m \in Members : /\ m # NoMember /\ m.slot \in Numbers /\ m.gen \in 1 .. MaxMember
                          /\ m = [slot |-> m.slot, gen |-> m.gen]
  <1>1. Nobody \notin Numbers
    BY AdmissionAssumption DEF Numbers
  <1>2. NoMember \notin Members
    BY Zenon, <1>1 DEF NoMember, Members
  <1>3. NoMember.slot = Nobody
    BY Zenon DEF NoMember
  <1>4. ASSUME NEW m \in Members
        PROVE  m.slot \in Numbers /\ m.gen \in 1 .. MaxMember /\ m = [slot |-> m.slot, gen |-> m.gen]
    BY Zenon DEF Members
  <1> QED
    BY Zenon, <1>1, <1>2, <1>3, <1>4

\* The next word of a slot: a generation that was passed stays so.
LEMMA SeatMoves ==
    ASSUME NEW a \in Seat, NEW b \in Seat, NEW g \in 1 .. MaxMember, Moves(a, b), g <= a.gen
    PROVE  /\ a.gen > g \/ a.state \in {"free", "retired"} =>
                b.gen > g \/ b.state \in {"free", "retired"}
           /\ a.state = "dead" /\ a.gen = g => b = a \/ b.state \in {"free", "retired"}
  BY AdmissionAssumption DEF Moves, Seat, States

\* A free or retired slot is in no membership word (Backed).
LEMMA FreeIsBare ==
    ASSUME AInv, NEW s \in Numbers, root[s].state \in {"free", "retired"}, NEW l \in Shown
    PROVE  s \notin layout[l].members
  <1> SUFFICES ASSUME s \in layout[l].members PROVE FALSE
    BY Zenon
  <1>1. PICK p \in Processes : Mine(p) = s
    BY Zenon DEF AInv, Listed, Backed
  <1>2. member[p] # NoMember
    BY Zenon, <1>1, Names DEF Mine
  <1>3. root[s] = [state |-> "live", gen |-> member[p].gen]
    BY Zenon, <1>1, <1>2 DEF AInv, Self, Named
  <1>4. root[s].state = "live"
    BY <1>3
  <1> QED
    BY Zenon, <1>4

\* What a process says of its layouts stays true when another takes a step.
LEMMA BuiltStays ==
    ASSUME AInv, NEW p \in Processes, Frame(p), NEW q \in Processes \ {p}
    PROVE  Built(q)'
  <1>0. /\ pc'[q] = pc[q] /\ plan'[q] = plan[q] /\ at'[q] = at[q]
        /\ member'[q] = member[q] /\ attached'[q] = attached[q]
    BY Zenon DEF Frame, Apart
  <1>1. Self(q) /\ attached[q] \subseteq Layouts
    BY Zenon, Known
  <1>2. ASSUME pc[q] \in Initialising
        PROVE  Here(q)' = Here(q) /\ Here(q).status = "initializing" /\ Sole(q)'
    <2>0. PICK l : l = at[q]
      BY Zenon
    <2>1. l \in Layouts /\ layout[l].status = "initializing" /\ Sole(q)
      BY Zenon, <1>1, <1>2, <2>0 DEF Self, Place, Built, Initialising, Admitting, Here
    <2>2. ~Initialises(p, l)
      BY Zenon, <2>0, <2>1 DEF Sole, Initialises
    <2>3. LayoutMoves(l, p)
      BY Zenon, <2>1 DEF Frame
    <2>4. ~Initialises(p, l)' /\ layout'[l] = layout[l]
      BY Zenon, <2>1, <2>2, <2>3 DEF LayoutMoves
    <2>5. Sole(q)'
      BY Zenon, <1>0, <2>0, <2>1, <2>4 DEF Sole, Initialises, Frame, Apart
    <2> QED
      BY Zenon, <1>0, <2>0, <2>1, <2>4, <2>5 DEF Here
  <1>3. ASSUME NEW l \in Layouts, layout[l].status = "initialized" PROVE Fixed(l)
    BY Zenon, <1>3 DEF Frame, LayoutMoves
  <1>4. pc[q] \in {"claim", "claim swap"} =>
          at[q] \in Layouts /\ Here(q).status = "initialized" /\ ~Mismatch(q)
    BY Zenon, <1>1 DEF Self, Place, Built, Admitting
  <1>5. \A l \in Layouts : Info(q, l)' = Info(q, l)
    BY Zenon, <1>0 DEF Info
  <1>6. pc[q] \in {"claim", "claim swap"} => Here(q)'.status = "initialized" /\ ~Mismatch(q)'
    BY Zenon, <1>0, <1>3, <1>4, <1>5 DEF Fixed, Here, Mismatch
  <1>7. pc[q] = "publish" => ~Mismatch(q)' /\ (at[q] # "root" => Here(q)'.members = {Mine(q)})
    <2>1. pc[q] = "publish" => /\ pc[q] \in Initialising /\ at[q] \in Layouts /\ ~Mismatch(q)
                               /\ (at[q] # "root" => Here(q).members = {Mine(q)})
      BY Zenon, <1>1 DEF Self, Built, Place, Initialising, Admitting
    <2> QED
      BY Zenon, <1>0, <1>2, <1>5, <2>1 DEF Mismatch
  <1>8. \A l \in attached[q] : Fits(q, l)'
    BY Zenon, <1>0, <1>1, <1>3, <1>5 DEF Self, Built, Fits, Fixed
  <1>9. Mine(q)' = Mine(q)
    BY Zenon, <1>0 DEF Mine
  <1> QED
    BY Zenon, <1>0, <1>1, <1>2, <1>5, <1>6, <1>7, <1>8, <1>9 DEF Built

\* So does what it says of its name and of the participant it recovers.
LEMMA NamesStay ==
    ASSUME AInv, NEW p \in Processes, Frame(p), Types', NEW q \in Processes \ {p}
    PROVE  Named(q)' /\ Recovers(q)'
  <1>0. /\ pc'[q] = pc[q] /\ member'[q] = member[q] /\ victim'[q] = victim[q]
        /\ Self(q) /\ member[q] \in Members \cup {NoMember} /\ victim[q] \in Members \cup {NoMember}
    BY Zenon, Known DEF Frame, Apart
  <1>1. Named(q)'
    <2> SUFFICES ASSUME member[q] # NoMember
                 PROVE  /\ root'[Mine(q)] = [state |-> "live", gen |-> member[q].gen]
                        /\ member[q] \notin lost'
                        /\ \A r \in Processes \ {q} : member'[r].slot # Mine(q)
      BY Zenon, <1>0 DEF Named, Mine
    <2>1. /\ root[Mine(q)] = [state |-> "live", gen |-> member[q].gen] /\ member[q] \notin lost
          /\ \A r \in Processes \ {q} : Mine(r) # Mine(q)
      BY Zenon, <1>0 DEF Self, Named
    <2>2. Mine(q) \in Numbers
      BY Zenon, <1>0, Names DEF Mine
    <2>3. root'[Mine(q)] = root[Mine(q)]
      BY Zenon, <2>2 DEF Frame, RootMoves
    <2>4. member[q] \notin lost'
      BY Zenon, <2>1 DEF Frame, RootMoves, Mine
    <2>5. member'[p].slot # Mine(q)
      BY Zenon, <2>1, <2>2, Names DEF Frame, Mine
    <2>6. \A r \in Processes \ {p, q} : member'[r].slot = Mine(r)
      BY Zenon DEF Frame, Apart, Mine
    <2> QED
      BY Zenon, <2>1, <2>3, <2>4, <2>5, <2>6
  <1>2. Recovers(q)'
    <2> SUFFICES ASSUME NEW m, m = victim[q], m # NoMember
                 PROVE  /\ m \in lost'
                        /\ \/ Over(m)'
                           \/ /\ root'[m.slot] = [state |-> "dead", gen |-> m.gen]
                              /\ pc[q] # "reap heap" => m.slot \notin layout'["heap"].members
                              /\ pc[q] = "release dead" => m.slot \notin layout'["dir"].members
      BY Zenon, <1>0 DEF Recovers
    <2>1. m \in lost /\ m \in Members /\ m.slot \in Numbers /\ m.gen <= root[m.slot].gen
      BY Zenon, <1>0, Names DEF Self, Recovers, AInv, Past, Types
    <2>0. PICK a, b : a = root[m.slot] /\ b = root'[m.slot]
      BY Zenon
    <2>2. a \in Seat /\ b \in Seat /\ Moves(a, b) /\ m \in lost' /\ m.gen \in 1 .. MaxMember
      BY Zenon, <2>0, <2>1, Names DEF Frame, RootMoves, AInv, Types
    <2>5. /\ a.gen > m.gen \/ a.state \in {"free", "retired"} =>
               b.gen > m.gen \/ b.state \in {"free", "retired"}
          /\ a.state = "dead" /\ a.gen = m.gen => b = a \/ b.state \in {"free", "retired"}
      BY Zenon, <2>0, <2>1, <2>2, SeatMoves
    <2>3. CASE Over(m)
      BY Zenon, <2>0, <2>2, <2>3, <2>5 DEF Over
    <2>4. CASE root[m.slot] = [state |-> "dead", gen |-> m.gen]
      <3>0. a.state = "dead" /\ a.gen = m.gen
        BY <2>0, <2>4
      <3>1. root'[m.slot] = root[m.slot] \/ Over(m)'
        BY Zenon, <2>0, <2>5, <3>0 DEF Over
      <3>2. ~(member[p] # NoMember /\ m.slot = Mine(p))
        <4>1. root[m.slot].state = "dead"
          BY <2>4
        <4>2. member[p] # NoMember => root[Mine(p)] = [state |-> "live", gen |-> member[p].gen]
          BY Zenon, Known DEF Self, Named
        <4>3. member[p] # NoMember => root[Mine(p)].state = "live"
          BY <4>2
        <4> QED
          BY Zenon, <4>1, <4>3
      <3>3. \A l \in Shown : m.slot \notin layout[l].members => m.slot \notin layout'[l].members
        BY Zenon, <3>2 DEF Frame, LayoutMoves, Shown, Layouts
      <3>4. "heap" \in Shown /\ "dir" \in Shown
        BY Zenon DEF Shown
      <3> QED
        BY Zenon, <1>0, <2>2, <2>4, <3>1, <3>3, <3>4 DEF Self, Recovers, Over
    <2> QED
      BY Zenon, <1>0, <2>3, <2>4 DEF Self, Recovers
  <1> QED
    BY Zenon, <1>1, <1>2

\* A step within its frame keeps the invariant when the process that takes it finds
\* itself in order afterwards.
LEMMA FrameKeeps ==
    ASSUME AInv, NEW p \in Processes, Frame(p), Types', Self(p)'
    PROVE  AInv'
  <1>1. ASSUME NEW q \in Processes \ {p} PROVE Self(q)'
    <2>1. Place(q)'
      BY Zenon, Known DEF Self, Place, Frame, Apart
    <2> QED
      BY Zenon, <2>1, BuiltStays, NamesStay DEF Self
  <1>2. Empty'
    <2>1. "root" \in Layouts
      BY Zenon DEF Layouts
    <2>2. layout'["root"].status # "initialized" => layout["root"].status # "initialized"
      BY Zenon, <2>1 DEF Frame, LayoutMoves, Fixed
    <2> QED
      BY Zenon, <2>2 DEF Frame, RootMoves, AInv, Empty
  <1>3. Past'
    <2> SUFFICES ASSUME NEW m \in lost' PROVE m.gen <= root'[m.slot].gen
      BY Zenon DEF Past
    <2>1. m \in Members /\ m.slot \in Numbers /\ m.gen \in 1 .. MaxMember
      BY Zenon, Names DEF Types
    <2>2. m \in lost => m.gen <= root[m.slot].gen
      BY Zenon DEF AInv, Past
    <2>3. m \notin lost => root[m.slot].gen = m.gen
      <3>1. m \notin lost => m = member[p] /\ member[p] # NoMember
        BY Zenon, <2>1, Names DEF Frame, RootMoves
      <3>2. member[p] # NoMember => root[member[p].slot] = [state |-> "live", gen |-> member[p].gen]
        BY Zenon, Known DEF Self, Named, Mine
      <3> QED
        BY <3>1, <3>2
    <2>4. PICK a, b : a = root[m.slot] /\ b = root'[m.slot]
      BY Zenon
    <2>5. a \in Seat /\ b \in Seat /\ b.gen >= a.gen
      BY Zenon, <2>1, <2>4 DEF Frame, RootMoves, Moves, AInv, Types
    <2>6. m.gen <= a.gen
      <3>1. a.gen \in Nat /\ m.gen \in Nat
        BY <2>1, <2>5, AdmissionAssumption DEF Seat
      <3> QED
        BY <2>2, <2>3, <2>4, <3>1
    <2>7. m.gen <= b.gen
      BY <2>1, <2>5, <2>6, AdmissionAssumption DEF Seat
    <2> QED
      BY Zenon, <2>4, <2>7
  <1>4. Listed'
    <2> SUFFICES ASSUME NEW l \in Shown, NEW s \in layout'[l].members PROVE Backed(l, s)'
      BY Zenon DEF Listed
    <2>0. l \in Layouts /\ s \in Numbers
      <3>1. l \in Layouts
        BY Zenon DEF Shown, Layouts
      <3>2. layout'[l] \in Record
        BY Zenon, <3>1 DEF Types
      <3>3. layout'[l].members \subseteq Numbers
        BY Zenon, <3>2 DEF Record
      <3> QED
        BY Zenon, <3>1, <3>3
    <2>1. CASE s \notin layout[l].members
      BY Zenon, <2>1 DEF Frame, OwnBits
    <2>2. CASE \E q \in Processes : Mine(q) = s /\ (l \in attached[q] \/ (pc[q] = "publish" /\ at[q] = l))
      <3>1. PICK q \in Processes : Mine(q) = s /\ (l \in attached[q] \/ (pc[q] = "publish" /\ at[q] = l))
        BY Zenon, <2>2
      <3>2. CASE q = p
        BY Zenon, <3>1, <3>2 DEF Frame, OwnBits
      <3>3. CASE q # p
        <4>1. /\ Mine(q)' = s /\ pc'[q] = pc[q] /\ at'[q] = at[q] /\ attached'[q] = attached[q]
          BY Zenon, <3>1, <3>3 DEF Frame, Apart, Mine
        <4> QED
          BY Zenon, <3>1, <4>1 DEF Backed
      <3> QED
        BY Zenon, <3>2, <3>3
    <2>3. CASE root[s].state \in {"live", "dead"} /\ [slot |-> s, gen |-> root[s].gen] \in lost
      <3>1. PICK a, b : a = root[s] /\ b = root'[s]
        BY Zenon
      <3>2. a \in Seat /\ b \in Seat /\ Moves(a, b) /\ (b # a => b.state = "dead")
        BY Zenon, <2>0, <3>1 DEF Frame, RootMoves, OwnBits, AInv, Types
      <3>3. b.gen = a.gen /\ (b.state = a.state \/ b.state = "dead")
        BY <3>2, AdmissionAssumption DEF Moves, Seat
      <3>4. [slot |-> s, gen |-> root'[s].gen] \in lost' /\ root'[s].state \in {"live", "dead"}
        BY Zenon, <2>3, <3>1, <3>3 DEF Frame, RootMoves
      <3> QED
        BY Zenon, <3>4 DEF Backed
    <2> QED
      BY Zenon, <2>1, <2>2, <2>3 DEF AInv, Listed, Backed
  <1> QED
    BY Zenon, <1>1, <1>2, <1>3, <1>4 DEF AInv
----------------------------------------------------------------------------
(* Steps that change neither the shared state nor the participant.         *)

Went(p, s, w, x) ==
    /\ pc' \in [Processes -> Steps] /\ DOMAIN at' = Processes /\ DOMAIN saw' = Processes
    /\ pc'[p] = s /\ at'[p] = w /\ saw'[p] = x
    /\ \A q \in Processes \ {p} : pc'[q] = pc[q] /\ at'[q] = at[q] /\ saw'[q] = saw[q]

\* What Go does to the locals of a call.
LEMMA Goes ==
    ASSUME AInv, NEW p \in Processes, NEW s \in Steps, NEW w, NEW x, Go(p, s, w, x)
    PROVE  Went(p, s, w, x)
  <1>1. pc \in [Processes -> Steps] /\ DOMAIN at = Processes /\ DOMAIN saw = Processes
    BY Zenon DEF AInv, Types
  <1> QED
    BY Zenon, <1>1 DEF Go, Went

Quiet(p) ==
    /\ Apart(p) /\ UNCHANGED <<layout, root, member, victim, lost>>
    /\ attached[p] \subseteq attached'[p]
    /\ pc[p] \notin Reaping \cup {"publish"} /\ pc'[p] \notin Reaping \cup Initialising

\* The participants are left alone.
LEMMA RootRests ==
    ASSUME AInv, NEW p \in Processes, UNCHANGED <<root, member, lost>>
    PROVE  RootMoves(p) /\ Named(p)'
  <1>1. ASSUME NEW s \in Numbers PROVE Moves(root[s], root'[s])
    <2>1. root'[s] = root[s] /\ root[s] \in Seat
      BY Zenon DEF AInv, Types
    <2> QED
      BY <2>1, AdmissionAssumption DEF Moves, Seat
  <1>2. Named(p)'
    BY Zenon, Known DEF Self, Named, Mine
  <1> QED
    BY Zenon, <1>1, <1>2 DEF RootMoves

\* No bit is added, and none is put in question.
LEMMA BitsRest ==
    ASSUME NEW p \in Processes, UNCHANGED root, member'[p] = member[p], pc[p] # "publish",
           attached[p] \subseteq attached'[p],
           \A l \in Shown : layout'[l].members \subseteq layout[l].members
    PROVE  OwnBits(p)
  <1> SUFFICES ASSUME NEW l \in Shown, NEW s \in layout'[l].members,
                      Mine(p) = s /\ l \in attached[p]
               PROVE  Backed(l, s)'
    BY Zenon DEF OwnBits
  <1> QED
    BY Zenon DEF Backed, Mine

\* A quiet step is within the frame.
LEMMA QuietKeeps ==
    ASSUME AInv, NEW p \in Processes, Quiet(p), Types', Place(p)', Built(p)'
    PROVE  AInv'
  <1>1. RootMoves(p) /\ Named(p)'
    BY Zenon, RootRests DEF Quiet
  <1>2. OwnBits(p)
    BY Zenon, BitsRest DEF Quiet
  <1>3. ASSUME NEW l \in Layouts PROVE LayoutMoves(l, p)
    BY Zenon DEF LayoutMoves, Fixed, Initialises, Quiet
  <1>4. Frame(p)
    BY Zenon, <1>1, <1>2, <1>3 DEF Frame, Quiet
  <1>5. Recovers(p)'
    BY Zenon, Known DEF Self, Place, Recovers, Quiet
  <1> QED
    BY Zenon, <1>1, <1>4, <1>5, FrameKeeps DEF Self

\* A call goes on and keeps what it has.
LEMMA WalkKeeps ==
    ASSUME AInv, NEW p \in Processes, NEW s \in Steps, NEW w, NEW x, Go(p, s, w, x),
           UNCHANGED <<shared, Others>>,
           pc[p] \notin Reaping \cup {"publish"}, s \notin Reaping \cup Initialising, Place(p)',
           s \in {"claim", "claim swap"} => Here(p)'.status = "initialized" /\ ~Mismatch(p)'
    PROVE  AInv'
  <1>1. /\ pc' \in [Processes -> Steps] /\ DOMAIN at' = Processes /\ DOMAIN saw' = Processes
        /\ pc'[p] = s
        /\ \A q \in Processes \ {p} : pc'[q] = pc[q] /\ at'[q] = at[q] /\ saw'[q] = saw[q]
    BY Zenon, Goes DEF Went
  <1>2. UNCHANGED <<layout, root, plan, member, attached, victim, lost, exits>>
    BY Zenon DEF shared, Others
  <1>3. Quiet(p)
    BY Zenon, <1>1, <1>2 DEF Quiet, Apart
  <1>4. Types'
    BY Zenon, <1>1, <1>2 DEF AInv, Types
  <1>5. \A l \in attached'[p] : Fits(p, l)'
    <2>1. \A l \in attached[p] : Fits(p, l)
      BY Zenon, Known DEF Self, Built
    <2> QED
      BY Zenon, <1>2, <2>1 DEF Fits, Info
  <1>6. "publish" \in Initialising
    BY Zenon DEF Initialising
  <1>7. Built(p)'
    BY Zenon, <1>1, <1>5, <1>6 DEF Built
  <1> QED
    BY Zenon, <1>3, <1>4, <1>7, QuietKeeps

\* An admission that fails, or the session that is dropped, keeps what it has until it
\* is given back (Refused, Close).
LEMMA RefusedKeeps ==
    ASSUME AInv, NEW p \in Processes, Go(p, "leave dir", Nobody, Nobody), UNCHANGED <<shared, Others>>,
           pc[p] \notin Reaping \cup {"publish"}
    PROVE  AInv'
  <1>1. "leave dir" \in Steps /\ "leave dir" \notin Reaping \cup Initialising \cup Admitting \cup Joining
    BY Zenon DEF Steps, Leaving, Reaping, Initialising, Admitting, Joining
  <1>2. pc'[p] = "leave dir"
    BY Zenon, <1>1, Goes DEF Went
  <1>3. UNCHANGED <<member, attached, victim>>
    BY Zenon DEF Others
  <1>4. Place(p)'
    BY Zenon, <1>1, <1>2, <1>3, Known DEF Self, Place
  <1> QED
    BY Zenon, <1>1, <1>4, WalkKeeps

\* a session asks for the region (Ask)
LEMMA AskKeeps ==
    ASSUME AInv, NEW p \in Processes, NEW how, Ask(p, how)
    PROVE  AInv'
  <1>1. "admit" \in Steps /\ "admit" \notin Reaping \cup Initialising /\ "root" \in Layouts
    BY Zenon DEF Steps, Admitting, Reaping, Initialising, Layouts
  <1>2. /\ pc' \in [Processes -> Steps] /\ DOMAIN at' = Processes /\ DOMAIN saw' = Processes
        /\ pc'[p] = "admit" /\ at'[p] = "root"
        /\ \A q \in Processes \ {p} : pc'[q] = pc[q] /\ at'[q] = at[q] /\ saw'[q] = saw[q]
    <2>1. Go(p, "admit", "root", Nobody)
      BY Zenon DEF Ask
    <2>2. Went(p, "admit", "root", Nobody)
      BY Zenon, <1>1, <2>1, Goes
    <2> QED
      BY Zenon, <2>2 DEF Went
  <1>3. pc[p] = "out" /\ UNCHANGED <<layout, root, member, attached, victim, lost, exits>>
    BY Zenon DEF Ask, Runs
  <1>4. /\ how \in Hows /\ plan' \in [Processes -> Hows \cup {Nobody}] /\ plan'[p] = how
        /\ \A q \in Processes \ {p} : plan'[q] = plan[q]
    <2>1. how \in Hows /\ plan \in [Processes -> Hows \cup {Nobody}]
      BY Zenon DEF Ask, Hows, AInv, Types
    <2> QED
      BY Zenon, <2>1 DEF Ask
  <1>5. Quiet(p)
    BY Zenon, <1>1, <1>2, <1>3, <1>4 DEF Quiet, Apart, Reaping
  <1>6. Types'
    BY Zenon, <1>2, <1>3, <1>4 DEF AInv, Types
  <1>7. attached[p] = {} /\ member[p] = NoMember /\ victim[p] = NoMember
    BY Zenon, <1>3, Known DEF Self, Place, Reaping
  <1>8. Place(p)'
    BY Zenon, <1>1, <1>2, <1>3, <1>4, <1>7 DEF Place, Admitting, Joining, Reaping
  <1>9. Built(p)'
    BY Zenon, <1>1, <1>2, <1>3, <1>7 DEF Built
  <1> QED
    BY Zenon, <1>5, <1>6, <1>8, <1>9, QuietKeeps

\* Admit looks at the status of a layout, and at its record once it is initialised.
LEMMA AdmitKeeps ==
    ASSUME AInv, NEW p \in Processes, Admit(p)
    PROVE  AInv'
  <1>0. /\ {"begin", "claim", "join"} \subseteq Steps /\ {"begin", "claim"} \subseteq Admitting
        /\ \A s \in {"begin", "claim", "join"} : s \notin Reaping \cup Initialising
        /\ "join" \in Joining /\ "join" \notin Admitting /\ "admit" \in Admitting
        /\ "begin" \notin Joining /\ "claim" \notin Joining
        /\ "admit" \notin Reaping \cup {"publish"}
    BY Zenon DEF Steps, Admitting, Reaping, Initialising, Joining
  <1>1. /\ pc[p] = "admit" /\ at[p] \in Layouts
        /\ UNCHANGED <<layout, root, plan, member, victim, lost, exits>>
    BY Zenon, <1>0, Known DEF Admit, Runs, shared, Self, Place
  <1>2. CASE UNCHANGED attached /\ Refused(p)
    BY Zenon, <1>0, <1>1, <1>2, RefusedKeeps DEF Refused, shared, Others
  <1>3. CASE /\ UNCHANGED attached /\ Go(p, "begin", at[p], Nobody)
    <2>1. pc'[p] = "begin" /\ at'[p] = at[p]
      BY Zenon, <1>0, <1>3, Goes DEF Went
    <2>2. Place(p)'
      BY Zenon, <1>0, <1>1, <1>3, <2>1, Known DEF Self, Place
    <2> QED
      BY Zenon, <1>0, <1>1, <1>3, <2>2, WalkKeeps DEF shared, Others
  <1>4. CASE /\ UNCHANGED attached /\ Go(p, "claim", at[p], Nobody)
             /\ at[p] # "root" /\ Here(p).status = "initialized" /\ ~Mismatch(p)
    <2>1. pc'[p] = "claim" /\ at'[p] = at[p]
      BY Zenon, <1>0, <1>4, Goes DEF Went
    <2>2. Place(p)'
      BY Zenon, <1>0, <1>1, <1>4, <2>1, Known DEF Self, Place
    <2>3. Here(p)'.status = "initialized" /\ ~Mismatch(p)'
      BY Zenon, <1>1, <1>4, <2>1 DEF Here, Mismatch, Info
    <2> QED
      BY Zenon, <1>0, <1>1, <1>4, <2>2, <2>3, WalkKeeps DEF shared, Others
  <1>5. CASE Admitted(p, "root") /\ at[p] = "root" /\ Here(p).status = "initialized" /\ ~Mismatch(p)
    <2>1. Go(p, "join", 1, Nobody) /\ attached' = [attached EXCEPT ![p] = attached[p] \cup {"root"}]
      BY Zenon, <1>5 DEF Admitted
    <2>2. /\ pc' \in [Processes -> Steps] /\ DOMAIN at' = Processes /\ DOMAIN saw' = Processes
          /\ pc'[p] = "join" /\ at'[p] = 1
          /\ \A q \in Processes \ {p} : pc'[q] = pc[q] /\ at'[q] = at[q] /\ saw'[q] = saw[q]
      <3>1. Went(p, "join", 1, Nobody)
        BY Zenon, <1>0, <2>1, Goes
      <3> QED
        BY Zenon, <3>1 DEF Went
    <2>3. attached[p] = {} /\ member[p] = NoMember /\ victim[p] = NoMember /\ plan[p] \in Hows
      BY Zenon, <1>0, <1>1, <1>5, Known DEF Self, Place
    <2>4. /\ attached' \in [Processes -> SUBSET Layouts] /\ attached'[p] = {"root"}
          /\ \A q \in Processes \ {p} : attached'[q] = attached[q]
      <3>1. attached \in [Processes -> SUBSET Layouts] /\ {"root"} \in SUBSET Layouts
        BY Zenon DEF AInv, Types, Layouts
      <3> QED
        BY Zenon, <2>1, <2>3, <3>1
    <2>5. Types'
      BY Zenon, <1>1, <2>2, <2>4 DEF AInv, Types
    <2>6. Quiet(p)
      BY Zenon, <1>0, <1>1, <2>2, <2>3, <2>4 DEF Quiet, Apart
    <2>7. 1 \in 1 .. Participants + 1
      BY AdmissionAssumption
    <2>8. Place(p)'
      BY Zenon, <1>0, <1>1, <2>2, <2>3, <2>4, <2>7 DEF Place
    <2>9. Fits(p, "root")'
      BY Zenon, <1>1, <1>5 DEF Fits, Here, Mismatch, Info
    <2>10. Built(p)'
      BY Zenon, <1>0, <2>2, <2>4, <2>9 DEF Built
    <2> QED
      BY Zenon, <2>5, <2>6, <2>8, <2>10, QuietKeeps
  <1> QED
    BY Zenon, <1>2, <1>3, <1>4, <1>5 DEF Admit

\* RcHeader::claim loads the membership word (ClaimLoad).
LEMMA ClaimLoadKeeps ==
    ASSUME AInv, NEW p \in Processes, ClaimLoad(p)
    PROVE  AInv'
  <1>0. /\ "claim swap" \in Steps \cap Admitting /\ "claim" \in Admitting
        /\ "claim swap" \notin Reaping \cup Initialising \cup Joining
        /\ "claim" \notin Reaping \cup {"publish"}
    BY Zenon DEF Steps, Admitting, Reaping, Initialising, Joining
  <1>1. pc[p] = "claim" /\ UNCHANGED <<shared, Others>>
    BY Zenon DEF ClaimLoad, Runs
  <1>2. CASE Refused(p)
    BY Zenon, <1>0, <1>1, <1>2, RefusedKeeps DEF Refused
  <1>3. CASE Go(p, "claim swap", at[p], Here(p).members)
    <2>1. pc'[p] = "claim swap" /\ at'[p] = at[p]
      BY Zenon, <1>0, <1>3, Goes DEF Went
    <2>2. UNCHANGED <<layout, plan, member, attached, victim>>
      BY Zenon, <1>1 DEF shared, Others
    <2>3. Place(p)'
      BY Zenon, <1>0, <1>1, <2>1, <2>2, Known DEF Self, Place
    <2>4. Here(p).status = "initialized" /\ ~Mismatch(p)
      BY Zenon, <1>1, Known DEF Self, Built
    <2>5. Here(p)'.status = "initialized" /\ ~Mismatch(p)'
      BY Zenon, <2>1, <2>2, <2>4 DEF Here, Mismatch, Info
    <2> QED
      BY Zenon, <1>0, <1>1, <1>3, <2>3, <2>5, WalkKeeps
  <1> QED
    BY Zenon, <1>2, <1>3 DEF ClaimLoad

\* Root::join looks for a free slot (JoinLoad).
LEMMA JoinLoadKeeps ==
    ASSUME AInv, NEW p \in Processes, JoinLoad(p)
    PROVE  AInv'
  <1>0. /\ "join" \in Steps /\ "join swap" \in Steps /\ {"join", "join swap"} = Joining
        /\ \A s \in Joining : s \notin Reaping \cup Initialising \cup Admitting \cup {"publish"}
    BY Zenon DEF Steps, Admitting, Reaping, Initialising, Joining
  <1>1. /\ pc[p] = "join" /\ UNCHANGED <<shared, Others>>
        /\ UNCHANGED <<plan, member, attached, victim>>
    BY Zenon DEF JoinLoad, Runs, Others
  <1>2. PICK i, j, g : i = at[p] /\ j = at[p] + 1 /\ g = root[at[p]].gen
    BY Zenon
  <1>3. i \in 1 .. Participants + 1 /\ Place(p)
    BY Zenon, <1>0, <1>1, <1>2, Known DEF Self, Place
  <1>4. CASE Refused(p)
    BY Zenon, <1>0, <1>1, <1>4, RefusedKeeps DEF Refused
  <1>5. CASE Go(p, "join", j, Nobody) /\ ~(i > Participants)
    <2>0. ~(i > Participants) /\ Go(p, "join", j, Nobody) /\ j = i + 1
      BY Zenon, <1>2, <1>5
    <2>1. pc'[p] = "join" /\ at'[p] = j
      <3>1. Went(p, "join", j, Nobody)
        BY Zenon, <1>0, <2>0, Goes
      <3> QED
        BY Zenon, <3>1 DEF Went
    <2>2. j \in 1 .. Participants + 1
      <3>1. ~(i > Participants) /\ j = i + 1
        BY Zenon, <2>0
      <3> QED
        BY <1>3, <3>1, AdmissionAssumption
    <2>3. Place(p)'
      BY Zenon, <1>0, <1>1, <1>3, <2>1, <2>2 DEF Place
    <2> QED
      BY Zenon, <1>0, <1>1, <2>0, <2>3, WalkKeeps
  <1>6. CASE Go(p, "join swap", i, g) /\ ~(i > Participants)
    <2>0. ~(i > Participants) /\ Go(p, "join swap", i, g)
      BY Zenon, <1>6
    <2>1. pc'[p] = "join swap" /\ at'[p] = i /\ saw'[p] = g
      <3>1. Went(p, "join swap", i, g)
        BY Zenon, <1>0, <2>0, Goes
      <3> QED
        BY Zenon, <3>1 DEF Went
    <2>2. i \in Numbers
      <3>1. ~(i > Participants)
        BY Zenon, <2>0
      <3> QED
        BY <1>3, <3>1, AdmissionAssumption DEF Numbers
    <2>3. root[i] \in Seat
      BY Zenon, <2>2 DEF AInv, Types
    <2>4. g \in 0 .. MaxMember
      <3>1. root[i].gen \in 0 .. MaxMember
        BY Zenon, <2>3 DEF Seat
      <3> QED
        BY Zenon, <1>2, <3>1
    <2>5. Place(p)'
      BY Zenon, <1>0, <1>1, <1>2, <1>3, <2>1, <2>2, <2>4 DEF Place
    <2> QED
      BY Zenon, <1>0, <1>1, <2>0, <2>5, WalkKeeps
  <1> QED
    BY Zenon, <1>2, <1>4, <1>5, <1>6 DEF JoinLoad

\* A session is dropped (Close).
LEMMA CloseKeeps ==
    ASSUME AInv, NEW p \in Processes, Close(p)
    PROVE  AInv'
  <1>1. "in" \notin Reaping \cup {"publish"}
    BY Zenon DEF Reaping
  <1> QED
    BY Zenon, <1>1, RefusedKeeps DEF Close, Runs
----------------------------------------------------------------------------
(* Steps that change a layout.                                             *)

\* One layout gets another record.
LEMMA Rewrites ==
    ASSUME AInv, NEW l \in Layouts, NEW r \in Record, layout' = [layout EXCEPT ![l] = r]
    PROVE  /\ layout' \in [Layouts -> Record] /\ layout'[l] = r
           /\ \A k \in Layouts \ {l} : layout'[k] = layout[k]
  <1>1. layout \in [Layouts -> Record]
    BY Zenon DEF AInv, Types
  <1> QED
    BY Zenon, <1>1

StatusBecomes(l, v) ==
    \E r \in Record : /\ layout' = [layout EXCEPT ![l] = r]
                      /\ r.status = v /\ r.region = layout[l].region
                      /\ r.info = layout[l].info /\ r.members = layout[l].members
MembersBecome(l, M) ==
    \E r \in Record : /\ layout' = [layout EXCEPT ![l] = r]
                      /\ r.status = layout[l].status /\ r.region = layout[l].region
                      /\ r.info = layout[l].info /\ r.members = M

\* The status of a layout is stored.
LEMMA StatusSet ==
    ASSUME AInv, NEW l \in Layouts, NEW v \in Statuses, layout' = [layout EXCEPT ![l].status = v]
    PROVE  StatusBecomes(l, v)
  <1>1. PICK w : w = layout[l]
    BY Zenon
  <1>2. w \in Record
    BY Zenon, <1>1 DEF AInv, Types
  <1>3. PICK r : r = [w EXCEPT !.status = v]
    BY Zenon
  <1>4. /\ r \in Record /\ r.status = v /\ r.region = w.region /\ r.info = w.info
        /\ r.members = w.members
    BY Zenon, <1>2, <1>3 DEF Record
  <1>5. layout' = [layout EXCEPT ![l] = r]
    BY Zenon, <1>1, <1>3
  <1> QED
    BY Zenon, <1>1, <1>4, <1>5 DEF StatusBecomes

\* The membership word of a layout is stored.
LEMMA MembersSet ==
    ASSUME AInv, NEW l \in Layouts, NEW M \in SUBSET Numbers, layout' = [layout EXCEPT ![l].members = M]
    PROVE  MembersBecome(l, M)
  <1>1. PICK w : w = layout[l]
    BY Zenon
  <1>2. w \in Record
    BY Zenon, <1>1 DEF AInv, Types
  <1>3. PICK r : r = [w EXCEPT !.members = M]
    BY Zenon
  <1>4. /\ r \in Record /\ r.members = M /\ r.region = w.region /\ r.info = w.info
        /\ r.status = w.status
    BY Zenon, <1>2, <1>3 DEF Record
  <1>5. layout' = [layout EXCEPT ![l] = r]
    BY Zenon, <1>1, <1>3
  <1> QED
    BY Zenon, <1>1, <1>4, <1>5 DEF MembersBecome

\* The exchange of the status decides who initialises a layout (Begin).
LEMMA BeginKeeps ==
    ASSUME AInv, NEW p \in Processes, Begin(p)
    PROVE  AInv'
  <1>0. /\ {"admit", "begin", "init"} \subseteq Admitting /\ {"admit", "init"} \subseteq Steps
        /\ "init" \in Initialising /\ "init" \notin Reaping \cup Joining
        /\ "begin" \notin Reaping \cup {"publish"}
        /\ "admit" \notin Reaping \cup Initialising \cup Joining /\ "initializing" \in Statuses
    BY Zenon DEF Steps, Admitting, Reaping, Initialising, Joining, Statuses
  <1>1. /\ pc[p] = "begin" /\ UNCHANGED <<root, plan, member, attached, victim, lost, exits>>
        /\ UNCHANGED Others
    BY Zenon DEF Begin, Runs, Others
  <1>2. PICK l : l = at[p]
    BY Zenon
  <1>3. l \in Layouts /\ Place(p) /\ victim[p] = NoMember
    BY Zenon, <1>0, <1>1, <1>2, Known DEF Self, Place
  <1>4. CASE Go(p, "admit", l, Nobody) /\ UNCHANGED layout
    <2>1. pc'[p] = "admit" /\ at'[p] = l
      <3>1. Went(p, "admit", l, Nobody)
        BY Zenon, <1>0, <1>4, Goes
      <3> QED
        BY Zenon, <3>1 DEF Went
    <2>2. Place(p)'
      BY Zenon, <1>0, <1>1, <1>2, <1>3, <2>1 DEF Place
    <2> QED
      BY Zenon, <1>0, <1>1, <1>4, <2>2, WalkKeeps DEF shared
  <1>5. CASE /\ layout[l].status = "uninitialized" /\ Go(p, "init", l, Nobody)
             /\ layout' = [layout EXCEPT ![l].status = "initializing"]
    <2>1. PICK r \in Record : /\ layout' = [layout EXCEPT ![l] = r] /\ r.status = "initializing"
                              /\ r.members = layout[l].members
      <3>1. layout' = [layout EXCEPT ![l].status = "initializing"]
        BY Zenon, <1>5
      <3>2. StatusBecomes(l, "initializing")
        BY Zenon, <1>0, <1>3, <3>1, StatusSet
      <3> QED
        BY Zenon, <3>2 DEF StatusBecomes
    <2>2. /\ layout' \in [Layouts -> Record] /\ layout'[l] = r
          /\ \A k \in Layouts \ {l} : layout'[k] = layout[k]
      BY Zenon, <1>3, <2>1, Rewrites
    <2>3. /\ pc' \in [Processes -> Steps] /\ DOMAIN at' = Processes /\ DOMAIN saw' = Processes
          /\ pc'[p] = "init" /\ at'[p] = l
          /\ \A q \in Processes \ {p} : pc'[q] = pc[q] /\ at'[q] = at[q] /\ saw'[q] = saw[q]
      <3>1. Went(p, "init", l, Nobody)
        BY Zenon, <1>0, <1>5, Goes
      <3> QED
        BY Zenon, <3>1 DEF Went
    <2>4. Types'
      BY Zenon, <1>1, <2>2, <2>3 DEF AInv, Types
    <2>5. Apart(p) /\ RootMoves(p) /\ Named(p)' /\ Recovers(p)'
      BY Zenon, <1>1, <1>3, <2>3, RootRests DEF Apart, Recovers
    <2>6. OwnBits(p)
      <3>1. \A k \in Shown : k \in Layouts
        BY Zenon DEF Shown, Layouts
      <3>2. \A k \in Shown : layout'[k].members \subseteq layout[k].members
        BY Zenon, <2>1, <2>2, <3>1
      <3> QED
        BY Zenon, <1>0, <1>1, <3>2, BitsRest
    <2>7. ASSUME NEW k \in Layouts PROVE LayoutMoves(k, p)
      <3>1. CASE k = l
        BY Zenon, <1>5, <2>1, <2>2, <3>1 DEF LayoutMoves
      <3>2. CASE k # l
        BY Zenon, <2>2, <2>3, <3>2 DEF LayoutMoves, Fixed, Initialises
      <3> QED
        BY Zenon, <3>1, <3>2
    <2>8. Frame(p)
      BY Zenon, <1>1, <2>5, <2>6, <2>7 DEF Frame
    <2>9. Place(p)'
      BY Zenon, <1>0, <1>1, <1>2, <1>3, <2>3 DEF Place
    <2>10. Sole(p)'
      <3>1. \A q \in Processes \ {p} : pc[q] \in Initialising => layout[at[q]].status = "initializing"
        BY Zenon, Known DEF Self, Built, Here
      <3> QED
        BY Zenon, <1>5, <2>3, <3>1 DEF Sole
    <2>11. \A k \in attached'[p] : Fits(p, k)'
      <3>1. \A k \in attached[p] : k \in Layouts /\ k # l /\ Fits(p, k)
        BY Zenon, <1>5, Known DEF Self, Built, Fits
      <3> QED
        BY Zenon, <1>1, <2>2, <3>1 DEF Fits, Info
    <2>12. Built(p)'
      BY Zenon, <2>1, <2>2, <2>3, <2>10, <2>11 DEF Built, Here
    <2> QED
      BY Zenon, <2>4, <2>5, <2>8, <2>9, <2>12, FrameKeeps DEF Self
  <1> QED
    BY Zenon, <1>2, <1>4, <1>5 DEF Begin, Here

\* what p does to one layout
Edits(p, l) ==
    /\ layout' \in [Layouts -> Record] /\ \A k \in Layouts \ {l} : layout'[k] = layout[k]
    /\ LayoutMoves(l, p) /\ (pc'[p] \in Initialising => at'[p] = l)
    /\ UNCHANGED <<root, plan, member, victim, lost, exits>>

\* A step that edits one layout is within the frame.
LEMMA EditKeeps ==
    ASSUME AInv, NEW p \in Processes, NEW l \in Layouts, NEW s, NEW w, NEW x, Edits(p, l), Went(p, s, w, x),
           attached' \in [Processes -> SUBSET Layouts], \A q \in Processes \ {p} : attached'[q] = attached[q],
           OwnBits(p), Place(p)', Built(p)', Recovers(p)'
    PROVE  AInv'
  <1>1. RootMoves(p) /\ Named(p)'
    BY Zenon, RootRests DEF Edits
  <1>2. ASSUME NEW k \in Layouts PROVE LayoutMoves(k, p)
    <2>1. CASE k = l
      BY Zenon, <2>1 DEF Edits
    <2>2. CASE k # l
      <3>1. layout'[k] = layout[k] /\ (pc'[p] \in Initialising => at'[p] # k)
        BY Zenon, <2>2 DEF Edits
      <3> QED
        BY Zenon, <3>1 DEF LayoutMoves, Fixed, Initialises
    <2> QED
      BY Zenon, <2>1, <2>2
  <1>3. Apart(p)
    BY Zenon DEF Apart, Edits, Went
  <1>4. Frame(p)
    BY Zenon, <1>1, <1>2, <1>3 DEF Frame, Edits
  <1>5. Types'
    BY Zenon DEF AInv, Types, Edits, Went
  <1> QED
    BY Zenon, <1>1, <1>4, <1>5, FrameKeeps DEF Self

\* An initialiser writes the record and the body of its layout, and nobody else does
\* (InitBody).
LEMMA InitBodyKeeps ==
    ASSUME AInv, NEW p \in Processes, InitBody(p)
    PROVE  AInv' /\ UNCHANGED root
  <1>0. /\ "init" \in Admitting \cap Initialising /\ "publish" \in Admitting \cap Initialising \cap Steps
        /\ "leave dir" \in Steps /\ "leave dir" \notin Admitting \cup Initialising \cup Joining \cup Reaping
        /\ "init" \notin Reaping /\ "publish" \notin Reaping \cup Joining /\ Shown \subseteq Layouts
        /\ "initializing" \in Statuses /\ "corrupted" \in Statuses /\ "root" \in Layouts /\ "root" \notin Shown
    BY Zenon DEF Steps, Admitting, Initialising, Joining, Reaping, Leaving, Statuses, Shown, Layouts
  <1>1. PICK l, done : l = at[p] /\ done = (l = "heap" => plan[p].info \in Valid)
    BY Zenon
  <1>2. PICK r : r = [status |-> IF done THEN layout[l].status ELSE "corrupted",
                      region |-> plan[p].region, info |-> Info(p, l),
                      members |-> IF done /\ l # "root" THEN {Mine(p)} ELSE {}]
    BY Zenon
  <1>3. /\ pc[p] = "init" /\ layout' = [layout EXCEPT ![l] = r] /\ done \in BOOLEAN
        /\ root' = IF l = "root" THEN [i \in Numbers |-> [state |-> "free", gen |-> 0]] ELSE root
        /\ IF done THEN Go(p, "publish", l, Nobody) ELSE Go(p, "leave dir", Nobody, Nobody)
        /\ UNCHANGED <<plan, member, attached, victim, lost, exits>>
    BY Zenon, <1>1, <1>2 DEF InitBody, Runs, Others, Refused
  <1>4. /\ l \in Layouts /\ plan[p] \in Hows /\ Place(p) /\ victim[p] = NoMember
        /\ layout[l].status = "initializing" /\ Sole(p) /\ (l # "root" => member[p] # NoMember)
        /\ \A k \in attached[p] : k \in Layouts /\ Fits(p, k)
    <2>1. l \in Layouts => l \in {"root", "dir", "heap"}
      BY Zenon DEF Layouts
    <2>2. Place(p) /\ Built(p) /\ attached[p] \subseteq Layouts
      BY Zenon, Known DEF Self
    <2>3. /\ l \in Layouts /\ plan[p] \in Hows /\ victim[p] = NoMember
          /\ (l # "root" => member[p] # NoMember)
      BY Zenon, <1>0, <1>1, <1>3, <2>1, <2>2 DEF Place
    <2>4. layout[l].status = "initializing" /\ Sole(p) /\ \A k \in attached[p] : Fits(p, k)
      BY Zenon, <1>0, <1>1, <1>3, <2>2 DEF Built, Here
    <2> QED
      BY Zenon, <2>2, <2>3, <2>4
  <1>5. l # "root" => Mine(p) \in Numbers
    BY Zenon, <1>4, Known, Names DEF Mine
  <1>6. /\ r.status = (IF done THEN "initializing" ELSE "corrupted") /\ r.region = plan[p].region
        /\ r.info = Info(p, l) /\ r.members = (IF done /\ l # "root" THEN {Mine(p)} ELSE {})
    BY Zenon, <1>2, <1>4
  <1>7. r \in Record
    <2>1. /\ (IF done THEN layout[l].status ELSE "corrupted") \in Statuses
          /\ plan[p].region \in Regions /\ Info(p, l) \in Infos
          /\ (IF done /\ l # "root" THEN {Mine(p)} ELSE {}) \in SUBSET Numbers
      BY Zenon, <1>0, <1>4, <1>5 DEF Regions, Infos, Info
    <2> QED
      BY Zenon, <1>2, <2>1 DEF Record
  <1>8. root' = root
    BY Zenon, <1>3, <1>4 DEF AInv, Empty
  <1>9. /\ layout' \in [Layouts -> Record] /\ layout'[l] = r /\ \A k \in Layouts \ {l} : layout'[k] = layout[k]
    BY Zenon, <1>3, <1>4, <1>7, Rewrites
  <1>10. PICK s, w : /\ s = (IF done THEN "publish" ELSE "leave dir") /\ Went(p, s, w, Nobody)
                     /\ (done => w = l)
    <2>1. CASE done
      BY Zenon, <1>0, <1>3, <2>1, Goes
    <2>2. CASE ~done
      BY Zenon, <1>0, <1>3, <2>2, Goes
    <2> QED
      BY Zenon, <2>1, <2>2
  <1>11. /\ pc'[p] = s /\ (done => at'[p] = l)
         /\ \A q \in Processes \ {p} : pc'[q] = pc[q] /\ at'[q] = at[q]
    BY Zenon, <1>10 DEF Went
  <1>12. /\ Mine(p)' = Mine(p) /\ Info(p, l)' = Info(p, l) /\ plan'[p] = plan[p]
         /\ \A i \in r.members : done /\ l # "root" /\ i = Mine(p) /\ member[p] # NoMember
    BY Zenon, <1>3, <1>4, <1>6 DEF Mine, Info
  <1>13. Edits(p, l)
    <2>1. LayoutMoves(l, p)
      BY Zenon, <1>0, <1>1, <1>3, <1>4, <1>9, <1>12 DEF LayoutMoves, Initialises
    <2>2. pc'[p] \in Initialising => at'[p] = l
      BY Zenon, <1>0, <1>10, <1>11
    <2> QED
      BY Zenon, <1>3, <1>8, <1>9, <2>1, <2>2 DEF Edits
  <1>14. OwnBits(p)
    <2> SUFFICES ASSUME NEW k \in Shown, NEW i \in layout'[k].members,
                        i \notin layout[k].members \/ (Mine(p) = i /\ k \in attached[p])
                 PROVE  Backed(k, i)'
      BY Zenon, <1>3, <1>8 DEF OwnBits
    <2>1. CASE k = l
      BY Zenon, <1>9, <1>10, <1>11, <1>12, <2>1 DEF Backed
    <2>2. CASE k # l
      BY Zenon, <1>0, <1>3, <1>9, <1>12, <2>2 DEF Backed
    <2> QED
      BY Zenon, <2>1, <2>2
  <1>15. Place(p)'
    BY Zenon, <1>0, <1>1, <1>3, <1>4, <1>10, <1>11 DEF Place
  <1>16. Built(p)'
    <2>1. Sole(p)' \/ ~done
      BY Zenon, <1>1, <1>4, <1>11 DEF Sole
    <2>2. \A k \in attached'[p] : Fits(p, k)'
      BY Zenon, <1>3, <1>4, <1>9 DEF Fits, Info
    <2>3. done => Here(p)' = r
      BY Zenon, <1>9, <1>11 DEF Here
    <2>4. done => ~Mismatch(p)' /\ Here(p)'.status = "initializing"
                  /\ (at'[p] # "root" => Here(p)'.members = {Mine(p)'})
      BY Zenon, <1>6, <1>11, <1>12, <2>3 DEF Mismatch
    <2> QED
      BY Zenon, <1>0, <1>10, <1>11, <2>1, <2>2, <2>4 DEF Built
  <1>17. Recovers(p)' /\ attached' \in [Processes -> SUBSET Layouts]
         /\ \A q \in Processes \ {p} : attached'[q] = attached[q]
    BY Zenon, <1>3, <1>4 DEF Recovers, AInv, Types
  <1> QED
    BY Zenon, <1>4, <1>8, <1>10, <1>13, <1>14, <1>15, <1>16, <1>17, EditKeeps

\* p goes on, a member of l as well
Enters(p, l) ==
    /\ \E s, w : /\ Went(p, s, w, Nobody)
                 /\ s \notin Reaping \cup Initialising \cup {"claim", "claim swap"}
    /\ attached' \in [Processes -> SUBSET Layouts] /\ attached'[p] = attached[p] \cup {l}
    /\ \A q \in Processes \ {p} : attached'[q] = attached[q]
    /\ member'[p] = member[p] /\ victim'[p] = victim[p] /\ plan'[p] = plan[p] => Place(p)'

\* What follows the admission of a layout (Admitted).
LEMMA AdmittedEnters ==
    ASSUME AInv, NEW p \in Processes, NEW l \in Layouts, Admitted(p, l), pc[p] \in Admitting, at[p] = l
    PROVE  Enters(p, l)
  <1>0. /\ {"join", "admit", "in"} \subseteq Steps
        /\ \A s \in {"join", "admit", "in"} : s \notin Reaping \cup Initialising \cup {"claim", "claim swap"}
        /\ "join" \in Joining /\ "join" \notin Admitting /\ "admit" \in Admitting /\ "admit" \notin Joining
        /\ "in" \notin Admitting \cup Joining /\ {"root", "heap"} \subseteq Layouts
        /\ \A s \in Admitting : s \notin Reaping
    BY Zenon DEF Steps, Admitting, Initialising, Joining, Reaping, Layouts
  <1>1. attached \in [Processes -> SUBSET Layouts] /\ attached' = [attached EXCEPT ![p] = attached[p] \cup {l}]
    BY Zenon DEF AInv, Types, Admitted
  <1>2. /\ attached' \in [Processes -> SUBSET Layouts] /\ attached'[p] = attached[p] \cup {l}
        /\ \A q \in Processes \ {p} : attached'[q] = attached[q]
    BY Zenon, <1>1
  <1>3. Place(p) /\ plan[p] \in Hows /\ victim[p] = NoMember
    BY Zenon, <1>0, Known DEF Self, Place
  <1>4. CASE l = "root"
    <2>1. Go(p, "join", 1, Nobody)
      BY Zenon, <1>4 DEF Admitted
    <2>2. Went(p, "join", 1, Nobody)
      BY Zenon, <1>0, <2>1, Goes
    <2>3. 1 \in 1 .. Participants + 1
      BY AdmissionAssumption
    <2>4. attached'[p] = {"root"} /\ member[p] = NoMember
      BY Zenon, <1>2, <1>3, <1>4 DEF Place
    <2>5. pc'[p] = "join" /\ at'[p] = 1
      BY Zenon, <2>2 DEF Went
    <2>6. member'[p] = member[p] /\ victim'[p] = victim[p] /\ plan'[p] = plan[p] => Place(p)'
      BY Zenon, <1>0, <1>3, <2>3, <2>4, <2>5 DEF Place
    <2> QED
      BY Zenon, <1>0, <1>2, <2>2, <2>6 DEF Enters
  <1>5. CASE l = "dir"
    <2>0. l # "root"
      BY Zenon, <1>5
    <2>1. Go(p, "admit", "heap", Nobody)
      BY Zenon, <1>5 DEF Admitted
    <2>2. Went(p, "admit", "heap", Nobody)
      BY Zenon, <1>0, <2>1, Goes
    <2>4. attached'[p] = {"root", "dir"} /\ member[p] # NoMember
      BY Zenon, <1>2, <1>3, <1>5 DEF Place
    <2>5. pc'[p] = "admit" /\ at'[p] = "heap"
      BY Zenon, <2>2 DEF Went
    <2>6. member'[p] = member[p] /\ victim'[p] = victim[p] /\ plan'[p] = plan[p] => Place(p)'
      BY Zenon, <1>0, <1>3, <2>4, <2>5 DEF Place
    <2> QED
      BY Zenon, <1>0, <1>2, <2>2, <2>6 DEF Enters
  <1>6. CASE l = "heap"
    <2>1. Go(p, "in", Nobody, Nobody)
      BY Zenon, <1>6 DEF Admitted
    <2>2. Went(p, "in", Nobody, Nobody)
      BY Zenon, <1>0, <2>1, Goes
    <2>4. attached'[p] = Layouts /\ member[p] # NoMember
      BY Zenon, <1>2, <1>3, <1>6 DEF Place, Layouts
    <2>5. pc'[p] = "in"
      BY Zenon, <2>2 DEF Went
    <2>6. member'[p] = member[p] /\ victim'[p] = victim[p] /\ plan'[p] = plan[p] => Place(p)'
      BY Zenon, <1>0, <1>3, <2>4, <2>5 DEF Place
    <2> QED
      BY Zenon, <1>0, <1>2, <2>2, <2>6 DEF Enters
  <1> QED
    BY Zenon, <1>4, <1>5, <1>6 DEF Layouts

\* A process enters a layout that fits it and that knows it.
LEMMA EntersKeeps ==
    ASSUME AInv, NEW p \in Processes, NEW l \in Layouts, Enters(p, l), Edits(p, l), Fits(p, l)',
           pc[p] \in Admitting, at[p] = l, \A i \in layout'[l].members : i \in layout[l].members \/ i = Mine(p)
    PROVE  AInv'
  <1>0. (\A s \in Admitting : s \notin Reaping) /\ Shown \subseteq Layouts /\ "publish" \in Initialising
    BY Zenon DEF Admitting, Reaping, Shown, Layouts, Initialising
  <1>1. UNCHANGED <<root, plan, member, victim, lost, exits>>
    BY Zenon DEF Edits
  <1>2. Place(p)'
    BY Zenon, <1>1 DEF Enters
  <1>3. Mine(p)' = Mine(p) /\ Recovers(p)'
    BY Zenon, <1>0, <1>1, Known DEF Self, Place, Recovers, Mine
  <1>4. OwnBits(p)
    <2> SUFFICES ASSUME NEW k \in Shown, NEW i \in layout'[k].members,
                        i \notin layout[k].members \/ (Mine(p) = i /\ (k \in attached[p] \/ at[p] = k))
                 PROVE  Backed(k, i)'
      BY Zenon, <1>1 DEF OwnBits
    <2>1. Mine(p) = i /\ k \in attached'[p]
      BY Zenon, <1>0 DEF Edits, Enters
    <2> QED
      BY Zenon, <1>3, <2>1 DEF Backed
  <1>5. PICK s, w : /\ Went(p, s, w, Nobody)
                    /\ s \notin Reaping \cup Initialising \cup {"claim", "claim swap"}
    BY Zenon DEF Enters
  <1>6. pc'[p] = s
    BY Zenon, <1>5 DEF Went
  <1>7. ASSUME NEW k \in attached'[p] PROVE Fits(p, k)'
    <2>1. CASE k = l
      BY Zenon, <2>1
    <2>2. CASE k # l
      <3>0. k \in attached[p]
        BY Zenon, <2>2 DEF Enters
      <3>1. k \in Layouts /\ Fits(p, k)
        BY Zenon, <3>0, Known DEF Self, Built
      <3>2. layout'[k] = layout[k] /\ plan'[p] = plan[p]
        BY Zenon, <1>1, <2>2, <3>1 DEF Edits
      <3> QED
        BY Zenon, <3>1, <3>2 DEF Fits, Info
    <2> QED
      BY Zenon, <2>1, <2>2
  <1>8. Built(p)'
    BY Zenon, <1>0, <1>5, <1>6, <1>7 DEF Built
  <1>9. attached' \in [Processes -> SUBSET Layouts] /\ \A q \in Processes \ {p} : attached'[q] = attached[q]
    BY Zenon DEF Enters
  <1> QED
    BY Zenon, <1>2, <1>3, <1>4, <1>5, <1>8, <1>9, EditKeeps

\* An initialiser publishes its layout (Publish).
LEMMA PublishKeeps ==
    ASSUME AInv, NEW p \in Processes, Publish(p)
    PROVE  AInv'
  <1>0. "publish" \in Admitting \cap Initialising /\ "initialized" \in Statuses
    BY Zenon DEF Admitting, Initialising, Statuses
  <1>1. PICK l : l = at[p]
    BY Zenon
  <1>2. /\ pc[p] = "publish" /\ layout' = [layout EXCEPT ![l].status = "initialized"] /\ Admitted(p, l)
        /\ UNCHANGED <<root, plan, member, victim, lost, exits>>
    BY Zenon, <1>1 DEF Publish, Runs
  <1>3. /\ l \in Layouts /\ layout[l].status = "initializing"
        /\ layout[l].region = plan[p].region /\ layout[l].info = Info(p, l)
    BY Zenon, <1>0, <1>1, <1>2, Known DEF Self, Place, Built, Here, Mismatch
  <1>4. StatusBecomes(l, "initialized")
    BY Zenon, <1>0, <1>2, <1>3, StatusSet
  <1>5. PICK r \in Record : /\ layout' = [layout EXCEPT ![l] = r]
                            /\ r.status = "initialized" /\ r.region = layout[l].region
                            /\ r.info = layout[l].info /\ r.members = layout[l].members
    BY Zenon, <1>4 DEF StatusBecomes
  <1>6. /\ layout' \in [Layouts -> Record] /\ layout'[l] = r /\ \A k \in Layouts \ {l} : layout'[k] = layout[k]
    BY Zenon, <1>3, <1>5, Rewrites
  <1>7. Enters(p, l)
    BY Zenon, <1>0, <1>1, <1>2, <1>3, AdmittedEnters
  <1>8. pc'[p] \notin Initialising
    BY Zenon, <1>7 DEF Enters, Went
  <1>9. LayoutMoves(l, p)
    BY Zenon, <1>0, <1>1, <1>2, <1>3, <1>5, <1>6, <1>8 DEF LayoutMoves, Initialises
  <1>10. Edits(p, l)
    BY Zenon, <1>2, <1>6, <1>8, <1>9 DEF Edits
  <1>11. Fits(p, l)'
    BY Zenon, <1>2, <1>3, <1>5, <1>6 DEF Fits, Info
  <1> QED
    BY Zenon, <1>0, <1>1, <1>2, <1>3, <1>5, <1>6, <1>7, <1>10, <1>11, EntersKeeps

\* RcHeader::claim adds the bit of the process to the word it loaded (ClaimSwap).
LEMMA ClaimSwapKeeps ==
    ASSUME AInv, NEW p \in Processes, ClaimSwap(p)
    PROVE  AInv'
  <1>0. "claim swap" \in Admitting /\ "claim swap" \notin Reaping \cup {"publish"} \cup Initialising
    BY Zenon DEF Admitting, Reaping, Initialising
  <1>1. PICK l, M : l = at[p] /\ M = layout[l].members \cup {Mine(p)}
    BY Zenon
  <1>2. /\ pc[p] = "claim swap" /\ UNCHANGED <<root, plan, member, victim, lost, exits>>
        /\ \/ layout' = [layout EXCEPT ![l].members = M] /\ Admitted(p, l)
           \/ Refused(p) /\ UNCHANGED <<layout, attached>>
    BY Zenon, <1>1 DEF ClaimSwap, Runs
  <1>3. CASE Refused(p) /\ UNCHANGED <<layout, attached>>
    BY Zenon, <1>0, <1>2, <1>3, RefusedKeeps DEF Refused, shared, Others
  <1>4. CASE layout' = [layout EXCEPT ![l].members = M] /\ Admitted(p, l)
    <2>1. /\ l \in Layouts /\ l # "root" /\ layout[l].status = "initialized"
          /\ layout[l].region = plan[p].region /\ layout[l].info = Info(p, l)
      BY Zenon, <1>0, <1>1, <1>2, Known DEF Self, Place, Built, Here, Mismatch
    <2>2. member[p] # NoMember /\ Mine(p) \in Numbers
      <3>1. l \in {"dir", "heap"}
        BY Zenon, <2>1 DEF Layouts
      <3>2. member[p] # NoMember
        BY Zenon, <1>0, <1>1, <1>2, <3>1, Known DEF Self, Place
      <3> QED
        BY Zenon, <3>2, Known, Names DEF Mine
    <2>3. M \in SUBSET Numbers
      <3>1. layout[l] \in Record
        BY Zenon, <2>1 DEF AInv, Types
      <3>2. layout[l].members \subseteq Numbers
        BY Zenon, <3>1 DEF Record
      <3> QED
        BY Zenon, <1>1, <2>2, <3>2
    <2>4. MembersBecome(l, M)
      BY Zenon, <1>4, <2>1, <2>3, MembersSet
    <2>5. PICK r \in Record : /\ layout' = [layout EXCEPT ![l] = r]
                              /\ r.status = layout[l].status /\ r.region = layout[l].region
                              /\ r.info = layout[l].info /\ r.members = M
      BY Zenon, <2>4 DEF MembersBecome
    <2>6. /\ layout' \in [Layouts -> Record] /\ layout'[l] = r /\ \A k \in Layouts \ {l} : layout'[k] = layout[k]
      BY Zenon, <2>1, <2>5, Rewrites
    <2>7. Enters(p, l)
      BY Zenon, <1>0, <1>1, <1>2, <1>4, <2>1, AdmittedEnters
    <2>8. pc'[p] \notin Initialising
      BY Zenon, <2>7 DEF Enters, Went
    <2>9. LayoutMoves(l, p)
      BY Zenon, <1>1, <2>1, <2>2, <2>5, <2>6, <2>8 DEF LayoutMoves, Initialises, Fixed
    <2>10. Edits(p, l)
      BY Zenon, <1>2, <2>6, <2>8, <2>9 DEF Edits
    <2>11. Fits(p, l)'
      BY Zenon, <1>2, <2>1, <2>5, <2>6 DEF Fits, Info
    <2>12. \A i \in layout'[l].members : i \in layout[l].members \/ i = Mine(p)
      BY Zenon, <1>1, <2>5, <2>6
    <2> QED
      BY Zenon, <1>0, <1>1, <1>2, <2>1, <2>7, <2>10, <2>11, <2>12, EntersKeeps
  <1> QED
    BY Zenon, <1>2, <1>3, <1>4

\* p takes bits out of the membership word of l
Removes(p, l) ==
    /\ layout' \in [Layouts -> Record] /\ \A k \in Layouts \ {l} : layout'[k] = layout[k]
    /\ layout'[l].status = layout[l].status /\ layout'[l].region = layout[l].region
    /\ layout'[l].info = layout[l].info /\ layout'[l].members \subseteq layout[l].members
    /\ UNCHANGED <<root, plan, member, victim, lost, exits>>

\* A layout that loses members is edited, and still fits whom it fitted.
LEMMA RemovesEdits ==
    ASSUME NEW p \in Processes, NEW l \in Layouts, Removes(p, l), pc[p] \notin Initialising,
           pc'[p] \notin Initialising, layout[l].status = "initializing" => layout'[l] = layout[l]
    PROVE  /\ Edits(p, l) /\ \A k \in Shown : layout'[k].members \subseteq layout[k].members
           /\ \A k \in Layouts : Fits(p, k) => Fits(p, k)'
  <1>0. Shown \subseteq Layouts
    BY Zenon DEF Shown, Layouts
  <1>1. LayoutMoves(l, p)
    BY Zenon DEF Removes, LayoutMoves, Initialises, Fixed
  <1>2. Edits(p, l)
    BY Zenon, <1>1 DEF Removes, Edits
  <1>3. \A k \in Shown : layout'[k].members \subseteq layout[k].members
    BY Zenon, <1>0 DEF Removes
  <1>4. ASSUME NEW k \in Layouts, Fits(p, k) PROVE Fits(p, k)'
    <2>1. layout'[k].status = layout[k].status /\ layout'[k].region = layout[k].region
          /\ layout'[k].info = layout[k].info /\ plan'[p] = plan[p]
      BY Zenon DEF Removes
    <2> QED
      BY Zenon, <1>4, <2>1 DEF Fits, Info
  <1> QED
    BY Zenon, <1>2, <1>3, <1>4

\* What it is to take one bit out of a membership word.
LEMMA TakeBit ==
    ASSUME AInv, NEW l \in Layouts, NEW b, layout' = [layout EXCEPT ![l].members = @ \ {b}],
           UNCHANGED <<root, plan, member, victim, lost, exits>>, NEW p \in Processes
    PROVE  /\ Removes(p, l) /\ b \notin layout'[l].members
           /\ layout'[l].members = layout[l].members \ {b}
  <1>1. PICK M : M = layout[l].members \ {b}
    BY Zenon
  <1>2. layout[l] \in Record
    BY Zenon DEF AInv, Types
  <1>3. layout[l].members \subseteq Numbers
    BY Zenon, <1>2 DEF Record
  <1>4. M \in SUBSET Numbers /\ layout' = [layout EXCEPT ![l].members = M]
    BY Zenon, <1>1, <1>3
  <1>5. MembersBecome(l, M)
    BY Zenon, <1>4, MembersSet
  <1>6. PICK r \in Record : /\ layout' = [layout EXCEPT ![l] = r]
                            /\ r.status = layout[l].status /\ r.region = layout[l].region
                            /\ r.info = layout[l].info /\ r.members = M
    BY Zenon, <1>5 DEF MembersBecome
  <1>7. /\ layout' \in [Layouts -> Record] /\ layout'[l] = r /\ \A k \in Layouts \ {l} : layout'[k] = layout[k]
    BY Zenon, <1>6, Rewrites
  <1> QED
    BY Zenon, <1>1, <1>6, <1>7 DEF Removes

\* A layout is left by a process that is attached to it, and by no other (LeaveDir,
\* LeaveHeap).
LEMMA LeaveKeeps ==
    ASSUME AInv, NEW p \in Processes, NEW l \in Shown, NEW s \in Leaving, LeaveLayout(p, l, s), pc[p] \in Leaving,
           s = "leave heap" => "dir" \notin attached'[p],
           s = "leave root" => attached'[p] \subseteq {"root"}
    PROVE  AInv'
  <1>0. /\ s \in Steps /\ l \in Layouts /\ l # "root"
        /\ \A i \in Leaving : i \notin Initialising \cup Reaping \cup {"publish", "claim", "claim swap"}
    BY Zenon DEF Steps, Admitting, Initialising, Joining, Reaping, Leaving, Shown, Layouts
  <1>1. /\ UNCHANGED <<root, plan, member, victim, lost, exits>> /\ Go(p, s, Nobody, Nobody)
        /\ attached' = [attached EXCEPT ![p] = attached[p] \ {l}]
    BY Zenon DEF LeaveLayout
  <1>2. Went(p, s, Nobody, Nobody)
    BY Zenon, <1>0, <1>1, Goes
  <1>3. /\ attached' \in [Processes -> SUBSET Layouts] /\ attached'[p] = attached[p] \ {l}
        /\ \A q \in Processes \ {p} : attached'[q] = attached[q]
    <2>1. attached \in [Processes -> SUBSET Layouts]
      BY Zenon DEF AInv, Types
    <2> QED
      BY Zenon, <1>1, <2>1
  <1>4. /\ Removes(p, l) /\ (l \in attached[p] => Mine(p) \notin layout'[l].members)
        /\ (l \notin attached[p] => layout' = layout)
    <2>1. CASE l \in attached[p]
      <3>1. layout' = [layout EXCEPT ![l].members = @ \ {Mine(p)}]
        BY Zenon, <2>1 DEF LeaveLayout
      <3> QED
        BY Zenon, <1>0, <1>1, <2>1, <3>1, TakeBit
    <2>2. CASE l \notin attached[p]
      <3>1. layout' = layout /\ layout \in [Layouts -> Record]
        BY Zenon, <2>2 DEF LeaveLayout, AInv, Types
      <3> QED
        BY Zenon, <1>1, <2>2, <3>1 DEF Removes
    <2> QED
      BY Zenon, <2>1, <2>2
  <1>5. /\ Place(p) /\ victim[p] = NoMember
        /\ \A k \in attached[p] : k \in Layouts /\ Fits(p, k)
    BY Zenon, <1>0, Known DEF Self, Place, Built
  <1>6. layout[l].status = "initializing" => layout'[l] = layout[l]
    <2>1. l \in attached[p] => layout[l].status = "initialized"
      BY Zenon, <1>5 DEF Fits
    <2> QED
      BY Zenon, <1>4, <2>1
  <1>7. pc'[p] = s
    BY Zenon, <1>2 DEF Went
  <1>8. /\ Edits(p, l) /\ \A k \in Shown : layout'[k].members \subseteq layout[k].members
        /\ \A k \in Layouts : Fits(p, k) => Fits(p, k)'
    BY Zenon, <1>0, <1>4, <1>6, <1>7, RemovesEdits
  <1>9. OwnBits(p)
    <2> SUFFICES ASSUME NEW k \in Shown, NEW i \in layout'[k].members, Mine(p) = i /\ k \in attached[p]
                 PROVE  Backed(k, i)'
      BY Zenon, <1>0, <1>1, <1>8 DEF OwnBits
    <2>1. k \in attached'[p] /\ Mine(p)' = i
      BY Zenon, <1>1, <1>3, <1>4 DEF Mine
    <2> QED
      BY Zenon, <2>1 DEF Backed
  <1>10. Place(p)'
    <2>1. /\ s \notin Admitting /\ s \notin Joining /\ s \notin {"in"} \cup Reaping /\ s \notin Reaping
          /\ s # "out" /\ s # "join swap" /\ s \notin {"claim", "claim swap"}
      BY Zenon DEF Admitting, Joining, Reaping, Leaving
    <2>2. /\ member[p] = NoMember => attached'[p] \subseteq {"root"}
          /\ member[p] # NoMember => "root" \in attached'[p]
      BY Zenon, <1>0, <1>3, <1>5 DEF Place
    <2>3. member'[p] = member[p] /\ victim'[p] = NoMember
      BY Zenon, <1>1, <1>5
    <2> QED
      BY Zenon, <1>7, <2>1, <2>2, <2>3 DEF Place
  <1>11. Built(p)'
    BY Zenon, <1>0, <1>3, <1>5, <1>7, <1>8 DEF Built
  <1>12. Recovers(p)'
    BY Zenon, <1>1, <1>5 DEF Recovers
  <1>13. l \in Layouts /\ Edits(p, l)
    BY Zenon, <1>0, <1>8
  <1> QED
    BY Zenon, <1>2, <1>3, <1>9, <1>10, <1>11, <1>12, <1>13, EditKeeps

\* the directory is left first
LEMMA LeaveDirKeeps ==
    ASSUME AInv, NEW p \in Processes, LeaveDir(p)
    PROVE  AInv'
  <1>1. "dir" \in Shown /\ {"leave dir", "leave heap"} \subseteq Leaving /\ "leave heap" # "leave root"
    BY Zenon DEF Shown, Leaving
  <1>2. pc[p] = "leave dir" /\ LeaveLayout(p, "dir", "leave heap")
    BY Zenon DEF LeaveDir, Runs
  <1>3. "dir" \notin attached'[p]
    <2>1. attached' = [attached EXCEPT ![p] = attached[p] \ {"dir"}] /\ DOMAIN attached = Processes
      BY Zenon, <1>2 DEF LeaveLayout, AInv, Types
    <2> QED
      BY Zenon, <2>1
  <1> QED
    BY Zenon, <1>1, <1>2, <1>3, LeaveKeeps

\* and the heap next
LEMMA LeaveHeapKeeps ==
    ASSUME AInv, NEW p \in Processes, LeaveHeap(p)
    PROVE  AInv'
  <1>1. "heap" \in Shown /\ {"leave heap", "leave root"} \subseteq Leaving /\ "leave heap" # "leave root"
    BY Zenon DEF Shown, Leaving
  <1>2. pc[p] = "leave heap" /\ LeaveLayout(p, "heap", "leave root")
    BY Zenon DEF LeaveHeap, Runs
  <1>3. attached'[p] \subseteq {"root"}
    <2>1. attached' = [attached EXCEPT ![p] = attached[p] \ {"heap"}] /\ DOMAIN attached = Processes
      BY Zenon, <1>2 DEF LeaveLayout, AInv, Types
    <2>2. attached[p] \subseteq Layouts /\ "dir" \notin attached[p]
      BY Zenon, <1>2, Known DEF Self, Place
    <2>3. attached'[p] = attached[p] \ {"heap"}
      BY Zenon, <2>1
    <2> QED
      BY Zenon, <2>2, <2>3 DEF Layouts
  <1> QED
    BY Zenon, <1>1, <1>2, <1>3, LeaveKeeps

\* The bit of a dead participant is taken out of a layout (Unlist).
LEMMA UnlistKeeps ==
    ASSUME AInv, NEW p \in Processes, NEW l \in Shown, NEW h \in Reaping, NEW s \in Reaping, Unlist(p, l, h, s),
           h # "release dead",
           s = "reap dir" => l = "heap",
           s = "release dead" => l = "dir" /\ h # "reap heap",
           s # "reap heap"
    PROVE  AInv'
  <1>0. /\ s \in Steps /\ l \in Layouts
        /\ \A i \in Reaping : i \notin Initialising \cup {"publish", "claim", "claim swap"}
    BY Zenon DEF Steps, Initialising, Reaping, Shown, Layouts
  <1>1. /\ UNCHANGED <<root, plan, member, victim, lost, exits>> /\ Go(p, s, Nobody, Nobody)
        /\ UNCHANGED attached /\ pc[p] = h
    BY Zenon DEF Unlist, Others, Runs
  <1>2. Went(p, s, Nobody, Nobody)
    BY Zenon, <1>0, <1>1, Goes
  <1>3. PICK m : m = victim[p]
    BY Zenon
  <1>4. Removes(p, l) /\ m.slot \notin layout'[l].members
    <2>1. layout' = [layout EXCEPT ![l].members = @ \ {m.slot}]
      BY Zenon, <1>3 DEF Unlist
    <2> QED
      BY Zenon, <1>0, <1>1, <2>1, TakeBit
  <1>5. /\ Place(p) /\ m # NoMember /\ Recovers(p) /\ attached[p] = Layouts /\ member[p] # NoMember
        /\ \A k \in attached[p] : k \in Layouts /\ Fits(p, k)
    BY Zenon, <1>0, <1>1, <1>3, Known DEF Self, Place, Built
  <1>6. layout[l].status = "initializing" => layout'[l] = layout[l]
    <2>1. layout[l].status = "initialized"
      BY Zenon, <1>0, <1>5 DEF Fits
    <2> QED
      BY Zenon, <2>1
  <1>7. pc'[p] = s
    BY Zenon, <1>2 DEF Went
  <1>8. /\ Edits(p, l) /\ \A k \in Shown : layout'[k].members \subseteq layout[k].members
        /\ \A k \in Layouts : Fits(p, k) => Fits(p, k)'
    BY Zenon, <1>0, <1>1, <1>4, <1>6, <1>7, RemovesEdits
  <1>9. OwnBits(p)
    BY Zenon, <1>0, <1>1, <1>8, BitsRest
  <1>10. Place(p)'
    <2>1. /\ s \notin Admitting /\ s \notin Joining /\ s \in {"in"} \cup Reaping /\ s \notin Leaving
          /\ s # "out" /\ s # "join swap" /\ s \notin {"claim", "claim swap"}
          /\ s # "leave heap" /\ s # "leave root"
      BY Zenon DEF Admitting, Joining, Reaping, Leaving
    <2>2. member'[p] # NoMember /\ victim'[p] # NoMember /\ attached'[p] = Layouts /\ "root" \in Layouts
      BY Zenon, <1>1, <1>3, <1>5 DEF Layouts
    <2> QED
      BY Zenon, <1>7, <2>1, <2>2 DEF Place
  <1>11. Built(p)'
    BY Zenon, <1>0, <1>1, <1>5, <1>7, <1>8 DEF Built
  <1>12. Recovers(p)'
    <2>1. m \in lost' /\ victim'[p] = m /\ (Over(m) => Over(m)') /\ root'[m.slot] = root[m.slot]
      BY Zenon, <1>1, <1>3, <1>5 DEF Recovers, Over
    <2>2. ASSUME ~Over(m)
          PROVE  /\ root[m.slot] = [state |-> "dead", gen |-> m.gen]
                 /\ h # "reap heap" => m.slot \notin layout["heap"].members
      BY Zenon, <1>1, <1>3, <1>5, <2>2 DEF Recovers
    <2>3. s = "reap dir" \/ s = "release dead"
      BY Zenon DEF Reaping
    <2>4. ~Over(m) => m.slot \notin layout'["heap"].members
      <3>1. CASE s = "reap dir"
        BY Zenon, <1>4, <3>1
      <3>2. CASE s = "release dead"
        <4>1. "heap" \in Shown
          BY Zenon DEF Shown
        <4> QED
          BY Zenon, <1>8, <2>2, <3>2, <4>1
      <3> QED
        BY Zenon, <2>3, <3>1, <3>2
    <2>5. s = "release dead" => m.slot \notin layout'["dir"].members
      BY Zenon, <1>4
    <2> QED
      BY Zenon, <1>7, <2>1, <2>2, <2>4, <2>5 DEF Recovers
  <1>13. /\ l \in Layouts /\ Edits(p, l) /\ attached' \in [Processes -> SUBSET Layouts]
         /\ \A q \in Processes \ {p} : attached'[q] = attached[q]
    BY Zenon, <1>0, <1>1, <1>8 DEF AInv, Types
  <1> QED
    BY Zenon, <1>2, <1>9, <1>10, <1>11, <1>12, <1>13, EditKeeps

\* a reaper unlists the dead participant from the heap
LEMMA ReapHeapKeeps ==
    ASSUME AInv, NEW p \in Processes, ReapHeap(p)
    PROVE  AInv'
  <1>1. /\ "heap" \in Shown /\ "reap heap" \in Reaping /\ "reap dir" \in Reaping
        /\ "reap heap" # "release dead" /\ "reap dir" # "release dead" /\ "reap dir" # "reap heap"
    BY Zenon DEF Shown, Reaping
  <1>2. Unlist(p, "heap", "reap heap", "reap dir")
    BY Zenon DEF ReapHeap
  <1> QED
    BY Zenon, <1>1, <1>2, UnlistKeeps

\* and from the directory
LEMMA ReapDirKeeps ==
    ASSUME AInv, NEW p \in Processes, ReapDir(p)
    PROVE  AInv'
  <1>1. /\ "dir" \in Shown /\ "release dead" \in Reaping /\ "reap dir" \in Reaping
        /\ "reap dir" # "release dead" /\ "reap dir" # "reap heap" /\ "release dead" # "reap dir"
        /\ "release dead" # "reap heap"
    BY Zenon DEF Shown, Reaping
  <1>2. Unlist(p, "dir", "reap dir", "release dead")
    BY Zenon DEF ReapDir
  <1> QED
    BY Zenon, <1>1, <1>2, UnlistKeeps
----------------------------------------------------------------------------
(* Steps that change a participant slot.                                   *)

\* p writes the word of slot i, which is nobody else's
Seats(p, i, a) ==
    /\ root' = [root EXCEPT ![i] = a] /\ i \in Numbers /\ a \in Seat /\ Moves(root[i], a)
    /\ \A q \in Processes \ {p} : Mine(q) # i
    /\ layout["root"].status = "initialized"
    /\ lost \subseteq lost' /\ lost' \subseteq lost \cup {member[p]}
    /\ UNCHANGED layout

\* What it writes is a move of the slot, and the layouts rest.
LEMMA SeatsMove ==
    ASSUME AInv, NEW p \in Processes, NEW i, NEW a, Seats(p, i, a)
    PROVE  /\ RootMoves(p) /\ root' \in [Numbers -> Seat] /\ root'[i] = a
           /\ \A j \in Numbers \ {i} : root'[j] = root[j]
  <1>1. root \in [Numbers -> Seat]
    BY Zenon DEF AInv, Types
  <1>2. /\ root' \in [Numbers -> Seat] /\ root'[i] = a /\ \A j \in Numbers \ {i} : root'[j] = root[j]
    BY Zenon, <1>1 DEF Seats
  <1>3. ASSUME NEW j \in Numbers \ {i} PROVE Moves(root[j], root'[j])
    <2>1. root'[j] = root[j] /\ root[j] \in Seat
      BY Zenon, <1>1, <1>2
    <2> QED
      BY <2>1, AdmissionAssumption DEF Moves, Seat
  <1> QED
    BY Zenon, <1>2, <1>3 DEF RootMoves, Seats

\* The words of the slots stay.
LEMMA SameSeats ==
    ASSUME AInv, UNCHANGED root
    PROVE  \A s \in Numbers : Moves(root[s], root'[s])
  <1>1. ASSUME NEW s \in Numbers PROVE Moves(root[s], root'[s])
    <2>1. root'[s] = root[s] /\ root[s] \in Seat
      BY Zenon DEF AInv, Types
    <2> QED
      BY <2>1, AdmissionAssumption DEF Moves, Seat
  <1> QED
    BY Zenon, <1>1

SlotsMove == \A s \in Numbers : Moves(root[s], root'[s])

\* A step that changes no layout is within the frame.
LEMMA SeatKeeps ==
    ASSUME AInv, NEW p \in Processes, UNCHANGED layout, Apart(p), RootMoves(p), OwnBits(p), Types', Self(p)',
           pc'[p] \notin Initialising,
           member'[p] # NoMember => member'[p] = member[p] \/ \A q \in Processes \ {p} : Mine(q) # member'[p].slot
    PROVE  AInv' /\ SlotsMove
  <1>1. ASSUME NEW l \in Layouts PROVE LayoutMoves(l, p)
    BY Zenon DEF LayoutMoves, Fixed, Initialises
  <1>2. Frame(p)
    BY Zenon, <1>1 DEF Frame
  <1> QED
    BY Zenon, <1>2, FrameKeeps DEF RootMoves, SlotsMove

\* A slot that no membership word holds may be written without touching a bit.
LEMMA BareBits ==
    ASSUME AInv, NEW p \in Processes, NEW i, NEW a, Seats(p, i, a), \A k \in Shown : i \notin layout[k].members,
           pc[p] # "publish", \A k \in Shown : k \in attached[p] => k \in attached'[p] /\ member'[p] = member[p]
    PROVE  OwnBits(p)
  <1>0. layout' = layout /\ \A j \in Numbers \ {i} : root'[j] = root[j]
    BY Zenon, SeatsMove DEF Seats
  <1> SUFFICES ASSUME NEW k \in Shown, NEW j \in layout[k].members
               PROVE  /\ Mine(p) = j /\ k \in attached[p] => Backed(k, j)'
                      /\ root'[j] = root[j]
    BY Zenon, <1>0 DEF OwnBits
  <1>1. Mine(p) = j /\ k \in attached[p] => Backed(k, j)'
    BY Zenon DEF Backed, Mine
  <1>2. j \in Numbers /\ j # i
    <2>1. k \in Layouts
      BY Zenon DEF Shown, Layouts
    <2>2. layout[k] \in Record
      BY Zenon, <2>1 DEF AInv, Types
    <2>3. layout[k].members \subseteq Numbers
      BY Zenon, <2>2 DEF Record
    <2> QED
      BY Zenon, <2>3
  <1> QED
    BY Zenon, <1>0, <1>1, <1>2

\* A slot that is not live is nobody's.
LEMMA NotHeld ==
    ASSUME AInv, NEW i \in Numbers, root[i].state # "live", NEW q \in Processes
    PROVE  Mine(q) # i
  <1> SUFFICES ASSUME Mine(q) = i PROVE FALSE
    BY Zenon
  <1>1. member[q] # NoMember
    BY Zenon, Names DEF Mine
  <1>2. root[i] = [state |-> "live", gen |-> member[q].gen]
    BY Zenon, <1>1, Known DEF Self, Named
  <1>3. root[i].state = "live"
    BY <1>2
  <1> QED
    BY Zenon, <1>3

\* The words a free slot may get from Root::join.
LEMMA TakeSeat ==
    ASSUME NEW g \in 0 .. MaxMember, NEW a, a = [state |-> "free", gen |-> g]
    PROVE  /\ a \in Seat /\ a.state = "free" /\ a.gen = g
           /\ [state |-> "retired", gen |-> g] \in Seat /\ Moves(a, [state |-> "retired", gen |-> g])
           /\ g < MaxMember => /\ [state |-> "live", gen |-> g + 1] \in Seat
                               /\ Moves(a, [state |-> "live", gen |-> g + 1])
                               /\ g + 1 \in 1 .. MaxMember /\ ~(g + 1 <= g)
  <1>1. [state |-> "retired", gen |-> g] \in Seat /\ a \in Seat /\ a.state = "free" /\ a.gen = g
    BY Zenon DEF Seat, States
  <1>2. Moves(a, [state |-> "retired", gen |-> g])
    BY AdmissionAssumption DEF Moves
  <1>3. ASSUME g < MaxMember
        PROVE  /\ [state |-> "live", gen |-> g + 1] \in Seat
               /\ Moves(a, [state |-> "live", gen |-> g + 1])
               /\ g + 1 \in 1 .. MaxMember /\ ~(g + 1 <= g)
    <2>1. g + 1 \in 0 .. MaxMember /\ g + 1 \in 1 .. MaxMember /\ ~(g + 1 <= g)
      BY <1>3, AdmissionAssumption
    <2>2. [state |-> "live", gen |-> g + 1] \in Seat
      BY Zenon, <2>1 DEF Seat, States
    <2>3. Moves(a, [state |-> "live", gen |-> g + 1])
      BY AdmissionAssumption DEF Moves
    <2> QED
      BY Zenon, <2>1, <2>2, <2>3
  <1> QED
    BY Zenon, <1>1, <1>2, <1>3

\* a call of Root::join looks at the next slot
LEMMA JoinOnKeeps ==
    ASSUME AInv, NEW p \in Processes, NEW j, Go(p, "join", j, Nobody), j \in 1 .. Participants + 1,
           pc[p] = "join swap", UNCHANGED <<layout, root, plan, member, attached, victim, lost, exits>>
    PROVE  AInv'
  <1>0. /\ "join" \in Steps /\ "join swap" \in Joining /\ "join" \in Joining
        /\ "join" \notin Reaping \cup Initialising /\ "join swap" \notin Reaping \cup {"publish"}
        /\ "join" \notin Admitting /\ "join" \notin {"claim", "claim swap"}
    BY Zenon DEF Steps, Admitting, Reaping, Initialising, Joining
  <1>1. Went(p, "join", j, Nobody)
    BY Zenon, <1>0, Goes
  <1>2. pc'[p] = "join" /\ at'[p] = j
    BY Zenon, <1>1 DEF Went
  <1>3. /\ attached[p] = {"root"} /\ member[p] = NoMember /\ victim[p] = NoMember /\ plan[p] \in Hows
    BY Zenon, <1>0, Known DEF Self, Place
  <1>4. Place(p)'
    BY Zenon, <1>0, <1>2, <1>3 DEF Place
  <1>5. UNCHANGED <<shared, Others>>
    BY Zenon DEF shared, Others
  <1> QED
    BY Zenon, <1>0, <1>4, <1>5, WalkKeeps

\* Root::join takes a free slot for one process, with a generation it never had; at the
\* last generation it retires the slot (JoinSwap).
LEMMA JoinSwapKeeps ==
    ASSUME AInv, NEW p \in Processes, JoinSwap(p)
    PROVE  AInv' /\ SlotsMove
  <1>0. /\ {"join", "admit"} \subseteq Steps /\ "join swap" \in Joining /\ "join" \in Joining
        /\ {"join", "admit"} \cap (Reaping \cup Initialising) = {} /\ "join swap" \notin Reaping \cup {"publish"}
        /\ "admit" \in Admitting /\ "admit" \notin Joining /\ "join" \notin Admitting
        /\ "root" \in Layouts /\ "dir" \in Layouts /\ "root" \notin Shown
    BY Zenon DEF Steps, Admitting, Reaping, Initialising, Joining, Layouts, Shown
  <1>1. PICK i, j, g, h : i = at[p] /\ j = at[p] + 1 /\ g = saw[p] /\ h = saw[p] + 1
    BY Zenon
  <1>2. pc[p] = "join swap" /\ UNCHANGED <<layout, plan, attached, victim, lost, exits>>
    BY Zenon DEF JoinSwap, Runs
  <1>3. /\ i \in Numbers /\ g \in 0 .. MaxMember /\ attached[p] = {"root"} /\ member[p] = NoMember
        /\ victim[p] = NoMember /\ plan[p] \in Hows /\ Fits(p, "root") /\ Mine(p) = Nobody
    <2>1. Place(p) /\ Built(p)
      BY Zenon, Known DEF Self
    <2>2. /\ i \in Numbers /\ g \in 0 .. MaxMember /\ attached[p] = {"root"} /\ member[p] = NoMember
          /\ victim[p] = NoMember /\ plan[p] \in Hows
      BY Zenon, <1>0, <1>1, <1>2, <2>1 DEF Place
    <2>3. Fits(p, "root")
      BY Zenon, <2>1, <2>2 DEF Built
    <2> QED
      BY Zenon, <2>2, <2>3, Names DEF Mine
  <1>4. j \in 1 .. Participants + 1
    BY <1>1, <1>3, AdmissionAssumption DEF Numbers
  <1>5. \/ /\ root[i] = [state |-> "free", gen |-> g] /\ g < MaxMember
           /\ root' = [root EXCEPT ![i] = [state |-> "live", gen |-> h]]
           /\ member' = [member EXCEPT ![p] = [slot |-> i, gen |-> h]]
           /\ Go(p, "admit", "dir", Nobody)
        \/ /\ root[i] = [state |-> "free", gen |-> g] /\ UNCHANGED member
           /\ root' = [root EXCEPT ![i] = [state |-> "retired", gen |-> g]]
           /\ Go(p, "join", j, Nobody)
        \/ UNCHANGED <<root, member>> /\ Go(p, "join", j, Nobody)
    BY Zenon, <1>1 DEF JoinSwap, Become
  <1>6. CASE UNCHANGED <<root, member>> /\ Go(p, "join", j, Nobody)
    BY Zenon, <1>2, <1>4, <1>6, JoinOnKeeps, SameSeats DEF SlotsMove
  <1>7. layout["root"].status = "initialized" /\ \A k \in Shown : k \notin attached[p]
    BY Zenon, <1>0, <1>3 DEF Fits
  <1>8. ASSUME root[i] = [state |-> "free", gen |-> g]
        PROVE  /\ root[i] \in Seat /\ root[i].state = "free" /\ root[i].gen = g
               /\ [state |-> "retired", gen |-> g] \in Seat
               /\ Moves(root[i], [state |-> "retired", gen |-> g])
               /\ g < MaxMember => /\ [state |-> "live", gen |-> h] \in Seat
                                   /\ Moves(root[i], [state |-> "live", gen |-> h])
                                   /\ h \in 1 .. MaxMember /\ ~(h <= g)
               /\ \A k \in Shown : i \notin layout[k].members
               /\ \A q \in Processes : Mine(q) # i
    <2>0. h = g + 1
      BY Zenon, <1>1
    <2>1. /\ root[i] \in Seat /\ root[i].state = "free" /\ root[i].gen = g
          /\ [state |-> "retired", gen |-> g] \in Seat /\ Moves(root[i], [state |-> "retired", gen |-> g])
          /\ g < MaxMember => /\ [state |-> "live", gen |-> h] \in Seat
                              /\ Moves(root[i], [state |-> "live", gen |-> h])
                              /\ h \in 1 .. MaxMember /\ ~(h <= g)
      BY Zenon, <1>3, <1>8, <2>0, TakeSeat
    <2>2. root[i].state \in {"free", "retired"} /\ root[i].state # "live"
      BY Zenon, <2>1
    <2> QED
      BY Zenon, <1>3, <2>1, <2>2, FreeIsBare, NotHeld
  <1>9. CASE /\ root[i] = [state |-> "free", gen |-> g] /\ UNCHANGED member
             /\ root' = [root EXCEPT ![i] = [state |-> "retired", gen |-> g]]
             /\ Go(p, "join", j, Nobody)
    <2>1. Seats(p, i, [state |-> "retired", gen |-> g])
      BY Zenon, <1>2, <1>3, <1>7, <1>8, <1>9 DEF Seats
    <2>2. Went(p, "join", j, Nobody)
      BY Zenon, <1>0, <1>9, Goes
    <2>3. RootMoves(p) /\ root' \in [Numbers -> Seat]
      BY Zenon, <2>1, SeatsMove
    <2>4. OwnBits(p)
      <3>1. pc[p] # "publish" /\ \A k \in Shown : i \notin layout[k].members
        BY Zenon, <1>0, <1>2, <1>8, <1>9
      <3> QED
        BY Zenon, <1>7, <2>1, <3>1, BareBits
    <2>5. Types' /\ Apart(p)
      BY Zenon, <1>2, <1>9, <2>2, <2>3 DEF AInv, Types, Apart, Went
    <2>6. pc'[p] = "join" /\ at'[p] = j
      BY Zenon, <2>2 DEF Went
    <2>7. Place(p)'
      <3>1. "join" \notin {"claim", "claim swap"} /\ "join" \notin {"in"} \cup Reaping
        BY Zenon DEF Reaping
      <3> QED
        BY Zenon, <1>0, <1>2, <1>3, <1>4, <1>9, <2>6, <3>1 DEF Place
    <2>8. Built(p)'
      <3>1. Fits(p, "root")'
        BY Zenon, <1>2, <1>3 DEF Fits, Info
      <3>2. attached'[p] = {"root"} /\ "join" \notin Initialising
        BY Zenon, <1>0, <1>2, <1>3
      <3> QED
        BY Zenon, <2>6, <3>1, <3>2 DEF Built
    <2>9. Self(p)'
      BY Zenon, <1>2, <1>3, <1>9, <2>7, <2>8 DEF Self, Named, Recovers
    <2>10. member'[p] = NoMember /\ pc'[p] \notin Initialising
      BY Zenon, <1>0, <1>3, <1>9, <2>6
    <2> QED
      BY Zenon, <1>2, <2>3, <2>4, <2>5, <2>9, <2>10, SeatKeeps
  <1>10. CASE /\ root[i] = [state |-> "free", gen |-> g] /\ g < MaxMember
              /\ root' = [root EXCEPT ![i] = [state |-> "live", gen |-> h]]
              /\ member' = [member EXCEPT ![p] = [slot |-> i, gen |-> h]]
              /\ Go(p, "admit", "dir", Nobody)
    <2>0. PICK m : m = [slot |-> i, gen |-> h]
      BY Zenon
    <2>1. m \in Members /\ m.slot = i /\ m.gen = h
      <3>1. h \in 1 .. MaxMember
        BY Zenon, <1>8, <1>10
      <3> QED
        BY Zenon, <1>3, <2>0, <3>1 DEF Members
    <2>2. Seats(p, i, [state |-> "live", gen |-> h])
      BY Zenon, <1>2, <1>3, <1>7, <1>8, <1>10 DEF Seats
    <2>3. Went(p, "admit", "dir", Nobody)
      BY Zenon, <1>0, <1>10, Goes
    <2>4. RootMoves(p) /\ root' \in [Numbers -> Seat] /\ root'[i] = [state |-> "live", gen |-> h]
      BY Zenon, <2>2, SeatsMove
    <2>5. OwnBits(p)
      <3>1. pc[p] # "publish" /\ \A k \in Shown : i \notin layout[k].members
        BY Zenon, <1>0, <1>2, <1>8, <1>10
      <3> QED
        BY Zenon, <1>7, <2>2, <3>1, BareBits
    <2>6. /\ member' \in [Processes -> Members \cup {NoMember}] /\ member'[p] = m
          /\ \A q \in Processes \ {p} : member'[q] = member[q]
      <3>1. member \in [Processes -> Members \cup {NoMember}] /\ member' = [member EXCEPT ![p] = m]
        BY Zenon, <1>10, <2>0 DEF AInv, Types
      <3> QED
        BY Zenon, <2>1, <3>1
    <2>7. Types' /\ Apart(p)
      BY Zenon, <1>2, <2>3, <2>4, <2>6 DEF AInv, Types, Apart, Went
    <2>8. pc'[p] = "admit" /\ at'[p] = "dir"
      BY Zenon, <2>3 DEF Went
    <2>9. m # NoMember /\ \A q \in Processes \ {p} : Mine(q) # i
      BY Zenon, <1>8, <1>10, <2>1, Names
    <2>10. Place(p)'
      <3>1. "admit" \notin {"claim", "claim swap"} /\ "admit" \notin {"in"} \cup Reaping
            /\ "dir" # "root" /\ "dir" # "heap"
        BY Zenon DEF Reaping
      <3> QED
        BY Zenon, <1>0, <1>2, <1>3, <2>6, <2>8, <2>9, <3>1 DEF Place
    <2>11. Built(p)'
      <3>1. Fits(p, "root")'
        BY Zenon, <1>2, <1>3 DEF Fits, Info
      <3>2. attached'[p] = {"root"} /\ "admit" \notin Initialising
        BY Zenon, <1>0, <1>2, <1>3
      <3> QED
        BY Zenon, <2>8, <3>1, <3>2 DEF Built
    <2>12. Named(p)'
      <3>1. m \notin lost
        <4>1. root[i].gen = g /\ ~(h <= g)
          BY Zenon, <1>8, <1>10
        <4> QED
          BY Zenon, <2>1, <4>1 DEF AInv, Past
      <3> QED
        BY Zenon, <1>2, <2>1, <2>4, <2>6, <2>9, <3>1 DEF Named, Mine
    <2>13. Self(p)'
      BY Zenon, <1>2, <1>3, <2>10, <2>11, <2>12 DEF Self, Recovers
    <2>14. member'[p].slot = i /\ pc'[p] \notin Initialising
      BY Zenon, <1>0, <2>1, <2>6, <2>8
    <2> QED
      BY Zenon, <1>2, <2>4, <2>5, <2>7, <2>9, <2>13, <2>14, SeatKeeps
  <1> QED
    BY Zenon, <1>5, <1>6, <1>9, <1>10

\* p is out, and has nothing
Gone(p) ==
    /\ Went(p, "out", Nobody, Nobody)
    /\ plan' = [plan EXCEPT ![p] = Nobody] /\ member' = [member EXCEPT ![p] = NoMember]
    /\ attached' = [attached EXCEPT ![p] = {}] /\ victim' = [victim EXCEPT ![p] = NoMember]
    /\ UNCHANGED <<layout, exits>>

\* A process that is out is in order.
LEMMA GoneSelf ==
    ASSUME AInv, NEW p \in Processes, Gone(p), root' \in [Numbers -> Seat],
           lost \subseteq lost', lost' \subseteq Members
    PROVE  Types' /\ Apart(p) /\ Self(p)' /\ member'[p] = NoMember /\ pc'[p] \notin Initialising
  <1>1. /\ plan \in [Processes -> Hows \cup {Nobody}] /\ member \in [Processes -> Members \cup {NoMember}]
        /\ attached \in [Processes -> SUBSET Layouts] /\ victim \in [Processes -> Members \cup {NoMember}]
        /\ layout \in [Layouts -> Record] /\ exits \subseteq lost
    BY Zenon DEF AInv, Types
  <1>2. /\ plan' \in [Processes -> Hows \cup {Nobody}] /\ member' \in [Processes -> Members \cup {NoMember}]
        /\ attached' \in [Processes -> SUBSET Layouts] /\ victim' \in [Processes -> Members \cup {NoMember}]
    BY Zenon, <1>1 DEF Gone
  <1>3. /\ member'[p] = NoMember /\ attached'[p] = {} /\ victim'[p] = NoMember
        /\ \A q \in Processes \ {p} : /\ plan'[q] = plan[q] /\ member'[q] = member[q]
                                      /\ attached'[q] = attached[q] /\ victim'[q] = victim[q]
    BY Zenon, <1>1 DEF Gone
  <1>4. Types'
    BY Zenon, <1>1, <1>2 DEF Gone, Went, Types
  <1>5. Apart(p)
    BY Zenon, <1>3 DEF Gone, Went, Apart
  <1>6. pc'[p] = "out"
    BY Zenon DEF Gone, Went
  <1>7. /\ "out" \notin Admitting /\ "out" \notin Joining /\ "out" \notin Reaping /\ "out" \notin Initialising
        /\ "out" \notin {"in"} \cup Reaping /\ "out" \notin {"claim", "claim swap"}
    BY Zenon DEF Admitting, Joining, Reaping, Initialising
  <1>8. Place(p)'
    BY Zenon, <1>3, <1>6, <1>7 DEF Place
  <1>9. Built(p)'
    BY Zenon, <1>3, <1>6, <1>7 DEF Built
  <1>10. Named(p)' /\ Recovers(p)'
    BY Zenon, <1>3 DEF Named, Recovers
  <1> QED
    BY Zenon, <1>3, <1>4, <1>5, <1>6, <1>7, <1>8, <1>9, <1>10 DEF Self

\* What a held slot is.
LEMMA HeldSeat ==
    ASSUME AInv, NEW p \in Processes, member[p] # NoMember
    PROVE  /\ member[p] \in Members /\ Mine(p) \in Numbers /\ root[Mine(p)] \in Seat
           /\ root[Mine(p)] = [state |-> "live", gen |-> member[p].gen]
           /\ root[Mine(p)].state = "live" /\ root[Mine(p)].gen = member[p].gen
           /\ member[p] = [slot |-> Mine(p), gen |-> member[p].gen]
           /\ member[p] \notin lost /\ (\A q \in Processes \ {p} : Mine(q) # Mine(p))
           /\ layout["root"].status = "initialized"
  <1>1. member[p] \in Members /\ Self(p)
    BY Zenon, Known
  <1>2. Mine(p) \in Numbers /\ member[p] = [slot |-> Mine(p), gen |-> member[p].gen]
    BY Zenon, <1>1, Names DEF Mine
  <1>3. /\ root[Mine(p)] = [state |-> "live", gen |-> member[p].gen] /\ member[p] \notin lost
        /\ \A q \in Processes \ {p} : Mine(q) # Mine(p)
    BY Zenon, <1>1 DEF Self, Named
  <1>4. root[Mine(p)].state = "live" /\ root[Mine(p)].gen = member[p].gen
    BY <1>3
  <1>5. root[Mine(p)] \in Seat
    BY Zenon, <1>2 DEF AInv, Types
  <1>6. "root" \in attached[p]
    BY Zenon, <1>1 DEF Self, Place
  <1>7. layout["root"].status = "initialized"
    BY Zenon, <1>1, <1>6 DEF Self, Built, Fits
  <1> QED
    BY Zenon, <1>1, <1>2, <1>3, <1>4, <1>5, <1>7

\* The region is left last: the slot is freed when no membership word holds it (LeaveRoot).
LEMMA LeaveRootKeeps ==
    ASSUME AInv, NEW p \in Processes, LeaveRoot(p)
    PROVE  AInv' /\ SlotsMove
  <1>0. "out" \in Steps /\ "leave root" # "publish" /\ "leave root" \notin Reaping /\ "root" \notin Shown
    BY Zenon DEF Steps, Reaping, Shown
  <1>1. PICK m, i : m = member[p] /\ i = Mine(p)
    BY Zenon
  <1>2. /\ pc[p] = "leave root" /\ UNCHANGED <<layout, victim, lost, exits>>
        /\ plan' = [plan EXCEPT ![p] = Nobody] /\ member' = [member EXCEPT ![p] = NoMember]
        /\ attached' = [attached EXCEPT ![p] = {}] /\ Go(p, "out", Nobody, Nobody)
    BY Zenon DEF LeaveRoot, Runs
  <1>3. attached[p] \subseteq {"root"} /\ victim[p] = NoMember
    BY Zenon, <1>0, <1>2, Known DEF Self, Place
  <1>4. Gone(p)
    <2>1. Went(p, "out", Nobody, Nobody)
      BY Zenon, <1>0, <1>2, Goes
    <2>2. victim \in [Processes -> Members \cup {NoMember}]
      BY Zenon DEF AInv, Types
    <2>3. victim' = [victim EXCEPT ![p] = NoMember]
      BY Zenon, <1>2, <1>3, <2>2
    <2> QED
      BY Zenon, <1>2, <2>1, <2>3 DEF Gone
  <1>5. \A k \in Shown : k \notin attached[p]
    BY Zenon, <1>0, <1>3
  <1>6. CASE m = NoMember
    <2>1. root' = root
      BY Zenon, <1>1, <1>6 DEF LeaveRoot
    <2>2. RootMoves(p)
      <3>1. ASSUME NEW s \in Numbers PROVE Moves(root[s], root'[s])
        <4>1. root'[s] = root[s] /\ root[s] \in Seat
          BY Zenon, <2>1 DEF AInv, Types
        <4> QED
          BY <4>1, AdmissionAssumption DEF Moves, Seat
      <3> QED
        BY Zenon, <1>2, <2>1, <3>1 DEF RootMoves
    <2>3. OwnBits(p)
      BY Zenon, <1>0, <1>2, <1>5, <2>1 DEF OwnBits
    <2>4. root' \in [Numbers -> Seat] /\ lost \subseteq lost' /\ lost' \subseteq Members
      BY Zenon, <1>2, <2>1 DEF AInv, Types
    <2>5. Types' /\ Apart(p) /\ Self(p)' /\ member'[p] = NoMember /\ pc'[p] \notin Initialising
      BY Zenon, <1>4, <2>4, GoneSelf
    <2> QED
      BY Zenon, <1>2, <2>2, <2>3, <2>5, SeatKeeps
  <1>7. CASE m # NoMember
    <2>1. /\ m \in Members /\ i \in Numbers /\ root[i] \in Seat
          /\ root[i] = [state |-> "live", gen |-> m.gen] /\ root[i].state = "live" /\ root[i].gen = m.gen
          /\ m = [slot |-> i, gen |-> m.gen] /\ m \notin lost
          /\ (\A q \in Processes \ {p} : Mine(q) # i) /\ layout["root"].status = "initialized"
      BY Zenon, <1>1, <1>7, HeldSeat
    <2>2. PICK a : a = [state |-> "free", gen |-> m.gen]
      BY Zenon
    <2>3. root' = [root EXCEPT ![i] = a]
      BY Zenon, <1>1, <1>7, <2>1, <2>2 DEF LeaveRoot, Become, Mine
    <2>4. a \in Seat /\ Moves(root[i], a)
      <3>1. PICK b : b = root[i]
        BY Zenon
      <3>2. b \in Seat /\ b.state = "live" /\ b.gen = m.gen /\ m.gen = b.gen
        BY Zenon, <2>1, <3>1
      <3>3. a \in Seat /\ a.state = "free" /\ a.gen = b.gen
        BY Zenon, <2>2, <3>2 DEF Seat, States
      <3>4. Moves(b, a)
        BY <3>2, <3>3, AdmissionAssumption DEF Moves, Seat
      <3> QED
        BY Zenon, <3>1, <3>3, <3>4
    <2>5. Seats(p, i, a)
      BY Zenon, <1>2, <2>1, <2>3, <2>4 DEF Seats
    <2>6. ASSUME NEW k \in Shown PROVE i \notin layout[k].members
      <3> SUFFICES ASSUME i \in layout[k].members PROVE FALSE
        BY Zenon
      <3>1. Backed(k, i)
        BY Zenon DEF AInv, Listed
      <3>2. [slot |-> i, gen |-> root[i].gen] \notin lost
        BY Zenon, <2>1
      <3>3. PICK q \in Processes : Mine(q) = i /\ (k \in attached[q] \/ (pc[q] = "publish" /\ at[q] = k))
        BY Zenon, <3>1, <3>2 DEF Backed
      <3>4. q = p
        BY Zenon, <2>1, <3>3
      <3> QED
        BY Zenon, <1>0, <1>2, <1>5, <3>3, <3>4
    <2>7. OwnBits(p)
      <3>1. pc[p] # "publish"
        BY Zenon, <1>0, <1>2
      <3> QED
        BY Zenon, <1>5, <2>5, <2>6, <3>1, BareBits
    <2>8. RootMoves(p) /\ root' \in [Numbers -> Seat]
      BY Zenon, <2>5, SeatsMove
    <2>9. lost \subseteq lost' /\ lost' \subseteq Members
      BY Zenon, <1>2 DEF AInv, Types
    <2>10. Types' /\ Apart(p) /\ Self(p)' /\ member'[p] = NoMember /\ pc'[p] \notin Initialising
      BY Zenon, <1>4, <2>8, <2>9, GoneSelf
    <2> QED
      BY Zenon, <1>2, <2>7, <2>8, <2>10, SeatKeeps
  <1> QED
    BY Zenon, <1>6, <1>7

\* A process dies at any step: its slot and its bits are those of one that was lost (Die).
LEMMA DieKeeps ==
    ASSUME AInv, NEW p \in Processes, Die(p)
    PROVE  AInv'
  <1>0. "out" \in Steps
    BY Zenon DEF Steps
  <1>1. PICK m, i : m = member[p] /\ i = Mine(p)
    BY Zenon
  <1>2. /\ UNCHANGED <<layout, root, exits>> /\ lost' = IF m = NoMember THEN lost ELSE lost \cup {m}
        /\ plan' = [plan EXCEPT ![p] = Nobody] /\ member' = [member EXCEPT ![p] = NoMember]
        /\ attached' = [attached EXCEPT ![p] = {}] /\ victim' = [victim EXCEPT ![p] = NoMember]
        /\ Go(p, "out", Nobody, Nobody)
    BY Zenon, <1>1 DEF Die, shared
  <1>3. Gone(p)
    <2>1. Went(p, "out", Nobody, Nobody)
      BY Zenon, <1>0, <1>2, Goes
    <2> QED
      BY Zenon, <1>2, <2>1 DEF Gone
  <1>4. m # NoMember => /\ m \in Members /\ root[i].state = "live" /\ root[i].gen = m.gen
                        /\ m = [slot |-> i, gen |-> m.gen] /\ layout["root"].status = "initialized"
    BY Zenon, <1>1, HeldSeat
  <1>5. /\ root' \in [Numbers -> Seat] /\ lost \subseteq lost' /\ lost' \subseteq Members
        /\ lost' \subseteq lost \cup {member[p]}
    <2>1. root \in [Numbers -> Seat] /\ lost \subseteq Members
      BY Zenon DEF AInv, Types
    <2> QED
      BY Zenon, <1>1, <1>2, <1>4, <2>1
  <1>6. RootMoves(p)
    BY Zenon, <1>2, <1>4, <1>5, SameSeats DEF RootMoves
  <1>7. OwnBits(p)
    <2> SUFFICES ASSUME NEW k \in Shown, NEW s \in layout[k].members, Mine(p) = s
                 PROVE  Backed(k, s)'
      BY Zenon, <1>2 DEF OwnBits
    <2>1. m # NoMember
      <3>1. k \in Layouts
        BY Zenon DEF Shown, Layouts
      <3>2. layout[k] \in Record
        BY Zenon, <3>1 DEF AInv, Types
      <3>3. layout[k].members \subseteq Numbers
        BY Zenon, <3>2 DEF Record
      <3> QED
        BY Zenon, <1>1, <3>3, Names DEF Mine
    <2>2. [slot |-> s, gen |-> root'[s].gen] \in lost' /\ root'[s].state = "live"
      BY Zenon, <1>1, <1>2, <1>4, <2>1
    <2> QED
      BY Zenon, <2>2 DEF Backed
  <1>8. Types' /\ Apart(p) /\ Self(p)' /\ member'[p] = NoMember /\ pc'[p] \notin Initialising
    BY Zenon, <1>3, <1>5, GoneSelf
  <1> QED
    BY Zenon, <1>2, <1>6, <1>7, <1>8, SeatKeeps

\* what a session that recovers keeps
LEMMA ReaperSelf ==
    ASSUME AInv, NEW p \in Processes, NEW s \in {"in", "reap heap"}, NEW v \in Members \cup {NoMember},
           pc[p] \in {"in"} \cup Reaping, Went(p, s, Nobody, Nobody), victim' = [victim EXCEPT ![p] = v],
           v # NoMember <=> s = "reap heap", root' \in [Numbers -> Seat],
           UNCHANGED <<layout, plan, member, attached, lost, exits>>
    PROVE  Types' /\ Apart(p) /\ Place(p)' /\ Built(p)' /\ pc'[p] \notin Initialising /\ victim'[p] = v
  <1>1. victim \in [Processes -> Members \cup {NoMember}]
    BY Zenon DEF AInv, Types
  <1>2. /\ victim' \in [Processes -> Members \cup {NoMember}] /\ victim'[p] = v
        /\ \A q \in Processes \ {p} : victim'[q] = victim[q]
    BY Zenon, <1>1
  <1>3. Types' /\ Apart(p)
    BY Zenon, <1>2 DEF AInv, Types, Apart, Went
  <1>4. pc'[p] = s
    BY Zenon DEF Went
  <1>5. /\ s \notin Admitting /\ s \notin Joining /\ s \in {"in"} \cup Reaping /\ s \notin Initialising
        /\ s # "out" /\ s # "join swap" /\ s \notin {"claim", "claim swap"} /\ s # "publish"
        /\ s # "leave heap" /\ s # "leave root" /\ (s \in Reaping <=> s = "reap heap")
    BY Zenon DEF Admitting, Joining, Reaping, Initialising
  <1>6. attached[p] = Layouts /\ member[p] # NoMember /\ "root" \in Layouts
    BY Zenon, Known DEF Self, Place, Layouts
  <1>7. Place(p)'
    BY Zenon, <1>2, <1>4, <1>5, <1>6 DEF Place
  <1>8. \A k \in attached'[p] : Fits(p, k)'
    BY Zenon, Known DEF Self, Built, Fits, Info
  <1>9. Built(p)'
    BY Zenon, <1>4, <1>5, <1>8 DEF Built
  <1> QED
    BY Zenon, <1>2, <1>3, <1>4, <1>5, <1>7, <1>9

\* The words a dead participant's slot gets.
LEMMA DeadSeat ==
    ASSUME NEW a \in Seat, NEW g \in 1 .. MaxMember,
           a \in {[state |-> "live", gen |-> g], [state |-> "dead", gen |-> g]}
    PROVE  /\ [state |-> "dead", gen |-> g] \in Seat /\ Moves(a, [state |-> "dead", gen |-> g])
           /\ a.gen = g /\ a.state \in {"live", "dead"}
           /\ \A s \in {"free", "retired"} : /\ [state |-> s, gen |-> g] \in Seat
                                             /\ Moves(a, [state |-> s, gen |-> g])
  <1>1. a.gen = g /\ a.state \in {"live", "dead"} /\ g \in 0 .. MaxMember
    BY AdmissionAssumption DEF Seat
  <1>2. ASSUME NEW s \in {"dead", "free", "retired"} PROVE [state |-> s, gen |-> g] \in Seat
    BY Zenon, <1>1 DEF Seat, States
  <1>3. Moves(a, [state |-> "dead", gen |-> g])
    BY <1>1, AdmissionAssumption DEF Moves
  <1>4. ASSUME NEW s \in {"free", "retired"} PROVE Moves(a, [state |-> s, gen |-> g])
    BY <1>1, AdmissionAssumption DEF Moves
  <1> QED
    BY Zenon, <1>1, <1>2, <1>3, <1>4

\* The slot of a participant that was lost is nobody's as long as it has its generation.
LEMMA LostSlot ==
    ASSUME AInv, NEW m \in lost, root[m.slot].gen = m.gen, NEW q \in Processes
    PROVE  Mine(q) # m.slot
  <1> SUFFICES ASSUME Mine(q) = m.slot PROVE FALSE
    BY Zenon
  <1>1. m \in Members /\ m.slot \in Numbers /\ m = [slot |-> m.slot, gen |-> m.gen]
    BY Zenon, Names DEF AInv, Types
  <1>2. member[q] # NoMember
    BY Zenon, <1>1, Names DEF Mine
  <1>3. member[q] = [slot |-> Mine(q), gen |-> root[Mine(q)].gen] /\ member[q] \notin lost
    BY Zenon, <1>2, HeldSeat
  <1> QED
    BY Zenon, <1>1, <1>3

\* Evidence marks the generation it is about, which no live process has (AssumeDead).
LEMMA AssumeDeadKeeps ==
    ASSUME AInv, NEW p \in Processes, NEW m, AssumeDead(p, m)
    PROVE  AInv' /\ SlotsMove
  <1>0. /\ "reap heap" \in Steps /\ "in" # "publish" /\ "root" \in Layouts
    BY Zenon DEF Steps, Reaping, Layouts
  <1>1. PICK i, a : i = m.slot /\ a = [state |-> "dead", gen |-> m.gen]
    BY Zenon
  <1>2. /\ pc[p] = "in" /\ m \in exits /\ victim[p] = NoMember
        /\ root[i] \in {[state |-> "live", gen |-> m.gen], [state |-> "dead", gen |-> m.gen]}
        /\ root' = [root EXCEPT ![i] = a] /\ victim' = [victim EXCEPT ![p] = m]
        /\ Go(p, "reap heap", Nobody, Nobody)
        /\ UNCHANGED <<layout, plan, member, attached, lost, exits>>
    BY Zenon, <1>1 DEF AssumeDead, Runs, Become
  <1>3. m \in lost /\ m \in Members /\ i \in Numbers /\ m.gen \in 1 .. MaxMember /\ m # NoMember /\ root[i] \in Seat
    BY Zenon, <1>1, <1>2, Names DEF AInv, Types
  <1>4. a \in Seat /\ Moves(root[i], a) /\ root[i].gen = m.gen
    BY Zenon, <1>1, <1>2, <1>3, DeadSeat
  <1>5. \A q \in Processes : Mine(q) # i
    BY Zenon, <1>1, <1>3, <1>4, LostSlot
  <1>6. layout["root"].status = "initialized" /\ attached[p] = Layouts /\ member[p] # NoMember
    BY Zenon, <1>0, <1>2, Known DEF Self, Place, Built, Fits
  <1>7. Seats(p, i, a)
    BY Zenon, <1>2, <1>3, <1>4, <1>5, <1>6 DEF Seats
  <1>8. RootMoves(p) /\ root' \in [Numbers -> Seat] /\ root'[i] = a /\ \A j \in Numbers \ {i} : root'[j] = root[j]
    BY Zenon, <1>7, SeatsMove
  <1>9. Went(p, "reap heap", Nobody, Nobody)
    BY Zenon, <1>0, <1>2, Goes
  <1>10. Types' /\ Apart(p) /\ Place(p)' /\ Built(p)' /\ pc'[p] \notin Initialising /\ victim'[p] = m
    BY Zenon, <1>2, <1>3, <1>8, <1>9, ReaperSelf
  <1>11. OwnBits(p)
    <2> SUFFICES ASSUME NEW k \in Shown, NEW s \in layout[k].members
                 PROVE  /\ Mine(p) = s /\ k \in attached[p] => Backed(k, s)'
                        /\ root'[s] # root[s] => root'[s].state = "dead"
      BY Zenon, <1>0, <1>2 DEF OwnBits
    <2>1. Mine(p) = s /\ k \in attached[p] => Backed(k, s)'
      BY Zenon, <1>2 DEF Backed, Mine
    <2>2. s \in Numbers
      <3>1. k \in Layouts
        BY Zenon DEF Shown, Layouts
      <3>2. layout[k] \in Record
        BY Zenon, <3>1 DEF AInv, Types
      <3>3. layout[k].members \subseteq Numbers
        BY Zenon, <3>2 DEF Record
      <3> QED
        BY Zenon, <3>3
    <2>3. a.state = "dead"
      BY Zenon, <1>1
    <2> QED
      BY Zenon, <1>8, <2>1, <2>2, <2>3
  <1>12. Named(p)'
    <2>1. /\ root[Mine(p)] = [state |-> "live", gen |-> member[p].gen] /\ member[p] \notin lost
          /\ Mine(p) \in Numbers /\ \A q \in Processes \ {p} : Mine(q) # Mine(p)
      BY Zenon, <1>6, HeldSeat
    <2>2. root'[Mine(p)] = root[Mine(p)]
      BY Zenon, <1>5, <1>8, <2>1
    <2> QED
      BY Zenon, <1>2, <2>1, <2>2 DEF Named, Mine
  <1>13. Recovers(p)'
    <2>1. pc'[p] = "reap heap" /\ "reap heap" # "release dead"
      BY Zenon, <1>9 DEF Went
    <2>2. victim'[p] = m /\ m \in lost' /\ root'[m.slot] = [state |-> "dead", gen |-> m.gen]
      BY Zenon, <1>1, <1>2, <1>3, <1>8, <1>10
    <2> QED
      BY Zenon, <2>1, <2>2 DEF Recovers
  <1> QED
    BY Zenon, <1>2, <1>8, <1>10, <1>11, <1>12, <1>13, SeatKeeps DEF Self

\* The slot of the dead participant is released, or was released by another (ReleaseDead).
LEMMA ReleaseDeadKeeps ==
    ASSUME AInv, NEW p \in Processes, ReleaseDead(p)
    PROVE  AInv' /\ SlotsMove
  <1>0. /\ "in" \in Steps /\ "release dead" # "publish" /\ "release dead" \in Reaping /\ "root" \in Layouts
        /\ "release dead" # "reap heap" /\ "in" # "reap heap" /\ Shown = {"heap", "dir"}
    BY Zenon DEF Steps, Reaping, Layouts, Shown
  <1>1. PICK m, i : m = victim[p] /\ i = m.slot
    BY Zenon
  <1>2. /\ pc[p] = "release dead" /\ victim' = [victim EXCEPT ![p] = NoMember]
        /\ Go(p, "in", Nobody, Nobody)
        /\ UNCHANGED <<layout, plan, member, attached, lost, exits>>
    BY Zenon DEF ReleaseDead, Runs
  <1>3. /\ m # NoMember /\ m \in lost /\ Recovers(p) /\ layout["root"].status = "initialized"
        /\ attached[p] = Layouts /\ member[p] # NoMember
    BY Zenon, <1>0, <1>1, <1>2, Known DEF Self, Place, Built, Fits, Recovers
  <1>4. m \in Members /\ i \in Numbers /\ m.gen \in 1 .. MaxMember /\ root[i] \in Seat
    BY Zenon, <1>1, <1>3, Names DEF AInv, Types
  <1>5. Went(p, "in", Nobody, Nobody)
    BY Zenon, <1>0, <1>2, Goes
  <1>6. /\ root[Mine(p)] = [state |-> "live", gen |-> member[p].gen] /\ member[p] \notin lost
        /\ Mine(p) \in Numbers /\ \A q \in Processes \ {p} : Mine(q) # Mine(p)
    BY Zenon, <1>3, HeldSeat
  <1>7. CASE UNCHANGED root
    <2>1. RootMoves(p) /\ Named(p)' /\ root' \in [Numbers -> Seat]
      BY Zenon, <1>2, <1>7, RootRests DEF AInv, Types
    <2>2. Types' /\ Apart(p) /\ Place(p)' /\ Built(p)' /\ pc'[p] \notin Initialising /\ victim'[p] = NoMember
      BY Zenon, <1>0, <1>2, <1>5, <2>1, ReaperSelf
    <2>3. OwnBits(p)
      BY Zenon, <1>0, <1>2, <1>7, BitsRest
    <2>4. Recovers(p)'
      BY Zenon, <2>2 DEF Recovers
    <2> QED
      BY Zenon, <1>2, <2>1, <2>2, <2>3, <2>4, SeatKeeps DEF Self
  <1>8. CASE \E s \in {"free", "retired"} : /\ root' = [root EXCEPT ![i] = [state |-> s, gen |-> m.gen]]
                                            /\ root[i] = [state |-> "dead", gen |-> m.gen]
    <2>0. PICK s \in {"free", "retired"} : /\ root' = [root EXCEPT ![i] = [state |-> s, gen |-> m.gen]]
                                           /\ root[i] = [state |-> "dead", gen |-> m.gen]
      BY Zenon, <1>8
    <2>1. PICK a : a = [state |-> s, gen |-> m.gen]
      BY Zenon
    <2>2. a \in Seat /\ Moves(root[i], a) /\ root[i].gen = m.gen
      BY Zenon, <1>4, <2>0, <2>1, DeadSeat
    <2>3. \A q \in Processes : Mine(q) # i
      BY Zenon, <1>1, <1>3, <2>2, LostSlot
    <2>4. Seats(p, i, a)
      BY Zenon, <1>2, <1>3, <1>4, <2>0, <2>1, <2>2, <2>3 DEF Seats
    <2>5. RootMoves(p) /\ root' \in [Numbers -> Seat] /\ \A j \in Numbers \ {i} : root'[j] = root[j]
      BY Zenon, <2>4, SeatsMove
    <2>6. ~Over(m)
      <3>1. root[i].state = "dead"
        BY <2>0
      <3>2. ~(m.gen > m.gen)
        BY <1>4, AdmissionAssumption
      <3> QED
        BY Zenon, <1>1, <2>2, <3>1, <3>2 DEF Over
    <2>7. \A k \in Shown : i \notin layout[k].members
      BY Zenon, <1>0, <1>1, <1>2, <1>3, <2>6 DEF Recovers
    <2>8. OwnBits(p)
      BY Zenon, <1>0, <1>2, <2>4, <2>7, BareBits
    <2>9. Types' /\ Apart(p) /\ Place(p)' /\ Built(p)' /\ pc'[p] \notin Initialising /\ victim'[p] = NoMember
      BY Zenon, <1>0, <1>2, <1>5, <2>5, ReaperSelf
    <2>10. Named(p)'
      <3>1. root'[Mine(p)] = root[Mine(p)]
        BY Zenon, <1>6, <2>3, <2>5
      <3> QED
        BY Zenon, <1>2, <1>6, <3>1 DEF Named, Mine
    <2>11. Recovers(p)'
      BY Zenon, <2>9 DEF Recovers
    <2> QED
      BY Zenon, <1>2, <2>5, <2>8, <2>9, <2>10, <2>11, SeatKeeps DEF Self
  <1> QED
    <2>1. (IF m.gen = MaxMember THEN "retired" ELSE "free") \in {"free", "retired"}
      BY Zenon
    <2> QED
      BY Zenon, <1>1, <1>7, <1>8, <2>1 DEF ReleaseDead, Become
----------------------------------------------------------------------------
(* The invariant, and what follows from it.                                *)

\* A supervisor that sees an exit, and a step that changes nothing.
LEMMA IdleKeeps ==
    ASSUME AInv, UNCHANGED <<layout, root, pc, plan, at, saw, member, attached, victim, lost>>,
           exits' \subseteq lost
    PROVE  AInv'
  <1>1. Types'
    BY Zenon DEF AInv, Types
  <1>2. Empty' /\ Past'
    BY Zenon DEF AInv, Empty, Past
  <1>3. Listed'
    <2> SUFFICES ASSUME NEW l \in Shown, NEW s \in layout[l].members PROVE Backed(l, s)'
      BY Zenon DEF Listed
    <2>1. Backed(l, s)
      BY Zenon DEF AInv, Listed
    <2> QED
      BY Zenon, <2>1 DEF Backed, Mine
  <1>4. ASSUME NEW p \in Processes PROVE Self(p)'
    <2>1. Self(p)
      BY Zenon DEF AInv
    <2>2. Place(p)'
      BY Zenon, <2>1 DEF Self, Place
    <2>3. Built(p)'
      BY Zenon, <2>1 DEF Self, Built, Sole, Fits, Here, Mismatch, Info, Mine
    <2>4. Named(p)' /\ Recovers(p)'
      BY Zenon, <2>1 DEF Self, Named, Recovers, Over, Mine
    <2> QED
      BY Zenon, <2>2, <2>3, <2>4 DEF Self
  <1> QED
    BY Zenon, <1>1, <1>2, <1>3, <1>4 DEF AInv

\* The region before anybody has asked for it.
LEMMA InitInv == AdmissionInit => AInv
  <1> SUFFICES ASSUME AdmissionInit PROVE AInv
    BY Zenon
  <1>0. /\ "out" \in Steps /\ "out" \notin Admitting \cup Joining \cup Reaping \cup Initialising
        /\ "uninitialized" \in Statuses /\ "uninitialized" # "initialized"
    BY Zenon DEF Steps, Admitting, Joining, Reaping, Initialising, Statuses
  <1>1. Unmapped \in Record /\ Unmapped.members = {} /\ Unmapped.status = "uninitialized"
    BY Zenon DEF Unmapped, Record, Statuses, Regions, Infos
  <1>2. [state |-> "free", gen |-> 0] \in Seat
    BY AdmissionAssumption DEF Seat, States
  <1>3. /\ layout \in [Layouts -> Record] /\ root \in [Numbers -> Seat] /\ pc \in [Processes -> Steps]
        /\ plan \in [Processes -> Hows \cup {Nobody}] /\ member \in [Processes -> Members \cup {NoMember}]
        /\ victim \in [Processes -> Members \cup {NoMember}]
    BY Zenon, <1>0, <1>1, <1>2 DEF AdmissionInit
  <1>4. /\ attached \in [Processes -> SUBSET Layouts] /\ DOMAIN at = Processes /\ DOMAIN saw = Processes
        /\ exits = {} /\ lost = {}
    BY Zenon DEF AdmissionInit
  <1>5. Types
    BY Zenon, <1>3, <1>4 DEF Types
  <1>6. Empty /\ Past
    BY Zenon DEF AdmissionInit, Empty, Past
  <1>7. Listed
    <2>1. Shown \subseteq Layouts
      BY Zenon DEF Shown, Layouts
    <2>2. \A l \in Shown : layout[l].members = {}
      BY Zenon, <1>1, <2>1 DEF AdmissionInit
    <2> QED
      BY Zenon, <2>2 DEF Listed
  <1>8. ASSUME NEW p \in Processes PROVE Self(p)
    <2>1. pc[p] = "out" /\ attached[p] = {} /\ member[p] = NoMember /\ victim[p] = NoMember
      BY Zenon DEF AdmissionInit
    <2>2. Place(p)
      BY Zenon, <1>0, <2>1 DEF Place, Joining
    <2>3. Built(p)
      BY Zenon, <1>0, <2>1 DEF Built
    <2>4. Named(p) /\ Recovers(p)
      BY Zenon, <2>1 DEF Named, Recovers
    <2> QED
      BY Zenon, <2>2, <2>3, <2>4 DEF Self
  <1> QED
    BY Zenon, <1>5, <1>6, <1>7, <1>8 DEF AInv

\* Every step of the specification keeps the invariant.
LEMMA NextInv == AInv /\ [AdmissionNext]_admissionVars => AInv'
  <1> SUFFICES ASSUME AInv, [AdmissionNext]_admissionVars PROVE AInv'
    BY Zenon
  <1>1. CASE UNCHANGED admissionVars
    <2>1. /\ UNCHANGED <<layout, root, pc, plan, at, saw, member, attached, victim, lost>>
          /\ exits' \subseteq lost
      BY Zenon, <1>1 DEF admissionVars, AInv, Types
    <2> QED
      BY Zenon, <2>1, IdleKeeps
  <1>2. ASSUME NEW m, Supervise(m) PROVE AInv'
    <2>1. /\ UNCHANGED <<layout, root, pc, plan, at, saw, member, attached, victim, lost>>
          /\ exits' \subseteq lost
      BY Zenon, <1>2 DEF Supervise, Wait, AInv, Types
    <2> QED
      BY Zenon, <2>1, IdleKeeps
  <1>3. ASSUME NEW p \in Processes, Step(p) PROVE AInv'
    <2>1. CASE \E how \in Plans[p] : Ask(p, how)
      BY Zenon, <2>1, AskKeeps
    <2>2. CASE Admit(p) \/ Begin(p) \/ Publish(p) \/ ClaimLoad(p) \/ ClaimSwap(p)
      BY Zenon, <2>2, AdmitKeeps, BeginKeeps, PublishKeeps, ClaimLoadKeeps, ClaimSwapKeeps
    <2>3. CASE JoinLoad(p) \/ JoinSwap(p) \/ Close(p) \/ LeaveDir(p) \/ LeaveHeap(p) \/ LeaveRoot(p)
      BY Zenon, <2>3, JoinLoadKeeps, JoinSwapKeeps, CloseKeeps, LeaveDirKeeps, LeaveHeapKeeps, LeaveRootKeeps
    <2>4. CASE \E m \in exits : AssumeDead(p, m)
      BY Zenon, <2>4, AssumeDeadKeeps
    <2>5. CASE ReapHeap(p) \/ ReapDir(p) \/ ReleaseDead(p) \/ Die(p)
      BY Zenon, <2>5, ReapHeapKeeps, ReapDirKeeps, ReleaseDeadKeeps, DieKeeps
    <2> QED
      BY Zenon, <1>3, <2>1, <2>2, <2>3, <2>4, <2>5 DEF Step
  <1>4. ASSUME NEW p \in Processes, InitBody(p) PROVE AInv'
    BY Zenon, <1>4, InitBodyKeeps
  <1> QED
    BY Zenon, <1>1, <1>2, <1>3, <1>4 DEF AdmissionNext

\* The invariant holds at every step of every behaviour of the admission of processes
\* to a region (RcHeader::admit, Root, Session, Recovery::reap_with).
THEOREM AdmissionInvariant == AdmissionSpec => []AInv
  <1>1. AdmissionInit => AInv
    BY Zenon, InitInv
  <1>2. AInv /\ [AdmissionNext]_admissionVars => AInv'
    BY Zenon, NextInv
  <1> QED
    BY <1>1, <1>2, PTL DEF AdmissionSpec

\* The variables have their types (header.rs, mem.rs).
THEOREM AdmissionTypeCorrect == AdmissionSpec => []AdmissionTypeOK
  <1>1. AInv => AdmissionTypeOK
    <2> SUFFICES ASSUME AInv PROVE AdmissionTypeOK
      BY Zenon
    <2>1. ASSUME NEW l \in Layouts
          PROVE  layout[l].status \in Statuses /\ layout[l].members \subseteq Numbers
      <3>1. layout[l] \in Record
        BY Zenon DEF AInv, Types
      <3> QED
        BY Zenon, <3>1 DEF Record
    <2> QED
      BY Zenon, <2>1 DEF AInv, Types, AdmissionTypeOK, Statuses, Seat, States
  <1> QED
    BY <1>1, AdmissionInvariant, PTL

\* Whoever has been admitted to a layout finds it initialised, for its own region and
\* with its own information (RcHeader::admit).
THEOREM AttachedIsBuiltHolds == AdmissionSpec => []AttachedIsBuilt
  <1>1. AInv => AttachedIsBuilt
    BY Zenon DEF AInv, Self, Built, Fits, AttachedIsBuilt
  <1> QED
    BY <1>1, AdmissionInvariant, PTL

\* A free participant slot is in no membership word, so that the next process to take it
\* is not refused with DuplicateMember (RcHeader::claim, Root::release_dead).
THEOREM FreeSlotIsCleanHolds == AdmissionSpec => []FreeSlotIsClean
  <1>1. AInv => FreeSlotIsClean
    <2> SUFFICES ASSUME AInv, NEW s \in Numbers, root[s].state = "free", NEW l \in Shown
                 PROVE  s \notin layout[l].members
      BY Zenon DEF FreeSlotIsClean, Shown
    <2>1. root[s].state \in {"free", "retired"}
      BY Zenon
    <2> QED
      BY Zenon, <2>1, FreeIsBare
  <1> QED
    BY <1>1, AdmissionInvariant, PTL

\* What a step does to the participant slots.
LEMMA NextMoves ==
    ASSUME AInv, AdmissionNext
    PROVE  SlotsMove
  <1>1. ASSUME UNCHANGED root PROVE SlotsMove
    BY Zenon, <1>1, SameSeats DEF SlotsMove
  <1>2. ASSUME NEW m, Supervise(m) PROVE UNCHANGED root
    BY Zenon, <1>2 DEF Supervise
  <1>3. ASSUME NEW p \in Processes, InitBody(p) PROVE UNCHANGED root
    BY Zenon, <1>3, InitBodyKeeps
  <1>4. ASSUME NEW p \in Processes, Step(p) PROVE SlotsMove
    <2>1. CASE JoinSwap(p) \/ LeaveRoot(p) \/ ReleaseDead(p) \/ \E m \in exits : AssumeDead(p, m)
      BY Zenon, <2>1, JoinSwapKeeps, LeaveRootKeeps, ReleaseDeadKeeps, AssumeDeadKeeps
    <2>2. CASE \E how \in Plans[p] : Ask(p, how)
      BY Zenon, <1>1, <2>2 DEF Ask
    <2>3. CASE Admit(p) \/ Begin(p) \/ Publish(p) \/ ClaimLoad(p) \/ ClaimSwap(p) \/ JoinLoad(p)
      BY Zenon, <1>1, <2>3 DEF Admit, Begin, Publish, ClaimLoad, ClaimSwap, JoinLoad, shared
    <2>4. CASE Close(p) \/ LeaveDir(p) \/ LeaveHeap(p) \/ ReapHeap(p) \/ ReapDir(p) \/ Die(p)
      BY Zenon, <1>1, <2>4 DEF Close, LeaveDir, LeaveHeap, LeaveLayout, ReapHeap, ReapDir, Unlist, Die, shared
    <2> QED
      BY Zenon, <1>4, <2>1, <2>2, <2>3, <2>4 DEF Step
  <1> QED
    BY Zenon, <1>1, <1>2, <1>3, <1>4 DEF AdmissionNext

\* A name, a slot with a generation, is given once, and a retired slot stays as it is
\* (Root::join, mark_dead, release_dead).
THEOREM NamesAreGivenOnceHolds == AdmissionSpec => NamesAreGivenOnce
  <1>1. ASSUME NEW a \in Seat, NEW b \in Seat, Moves(a, b)
        PROVE  /\ b.gen >= a.gen /\ (b.state = "live" /\ a.state # "live" => b.gen > a.gen)
               /\ (a.state = "retired" => b = a)
    BY <1>1, AdmissionAssumption DEF Moves, Seat
  <1>2. AInv /\ AInv' /\ [AdmissionNext]_admissionVars =>
          [\A s \in Numbers :
             /\ root'[s].gen >= root[s].gen
             /\ root'[s].state = "live" /\ root[s].state # "live" => root'[s].gen > root[s].gen
             /\ root[s].state = "retired" => root'[s] = root[s]]_root
    <2> SUFFICES ASSUME AInv, AInv', [AdmissionNext]_admissionVars, root' # root, NEW s \in Numbers
                 PROVE  /\ root'[s].gen >= root[s].gen
                        /\ root'[s].state = "live" /\ root[s].state # "live" => root'[s].gen > root[s].gen
                        /\ root[s].state = "retired" => root'[s] = root[s]
      BY Zenon
    <2>1. AdmissionNext
      BY Zenon DEF admissionVars
    <2>2. Moves(root[s], root'[s])
      BY Zenon, <2>1, NextMoves DEF SlotsMove
    <2>3. root[s] \in Seat /\ root'[s] \in Seat
      BY Zenon DEF AInv, Types
    <2> QED
      BY Zenon, <1>1, <2>2, <2>3
  <1> QED
    BY <1>2, AdmissionInvariant, PTL DEF AdmissionSpec, NamesAreGivenOnce
----------------------------------------------------------------------------
(* Holders stay in the membership words, as long as no two sessions        *)
(* recover one participant at the same time.                               *)

\* A step that changes no layout.
LEMMA EnlistedSame ==
    ASSUME Enlisted, UNCHANGED layout,
           \A q \in Processes : \/ attached'[q] \subseteq {"root"}
                                \/ Mine(q)' = Mine(q) /\ attached'[q] \subseteq attached[q] \cup {"root"}
    PROVE  Enlisted'
  <1> SUFFICES ASSUME NEW q \in Processes, NEW l \in attached'[q] \ {"root"}
               PROVE  Mine(q)' \in layout'[l].members
    BY Zenon DEF Enlisted
  <1> QED
    BY Zenon DEF Enlisted

\* A step of p that changes the layout l.
LEMMA EnlistedKept ==
    ASSUME AInv, Enlisted, NEW p \in Processes, NEW l \in Layouts, UNCHANGED member,
           \A k \in Layouts \ {l} : layout'[k] = layout[k],
           \A q \in Processes : attached'[q] \subseteq attached[q] \cup {l},
           \A q \in Processes : l \in attached'[q] /\ l # "root" => Mine(q) \in layout'[l].members
    PROVE  Enlisted'
  <1> SUFFICES ASSUME NEW q \in Processes, NEW k \in attached'[q] \ {"root"}
               PROVE  Mine(q) \in layout'[k].members
    BY Zenon DEF Enlisted, Mine
  <1>1. CASE k = l
    BY Zenon, <1>1
  <1>2. CASE k # l
    <2>1. k \in attached[q] /\ k \in Layouts
      BY Zenon, <1>2, Known
    <2> QED
      BY Zenon, <1>2, <2>1 DEF Enlisted
  <1> QED
    BY Zenon, <1>1, <1>2

\* p is the only one whose admissions change
LEMMA AttachedBy ==
    ASSUME AInv, NEW p \in Processes, NEW A, attached' = [attached EXCEPT ![p] = A]
    PROVE  attached'[p] = A /\ \A q \in Processes \ {p} : attached'[q] = attached[q]
  <1>1. attached \in [Processes -> SUBSET Layouts]
    BY Zenon DEF AInv, Types
  <1> QED
    BY Zenon, <1>1

\* nobody is attached to a layout that is not initialised
LEMMA AttachedLater ==
    ASSUME AInv, NEW q \in Processes, NEW l \in attached[q]
    PROVE  l \in Layouts /\ layout[l].status = "initialized"
  BY Zenon, Known DEF Self, Built, Fits

\* A process goes in: Begin, InitBody, Publish and ClaimSwap.
LEMMA BeginEnlisted ==
    ASSUME AInv, Enlisted, NEW p \in Processes, Begin(p)
    PROVE  Enlisted'
  <1>1. PICK l : l = at[p]
    BY Zenon
  <1>2. UNCHANGED <<member, attached>> /\ pc[p] = "begin" /\ "begin" \in Admitting /\ "initializing" \in Statuses
    BY Zenon DEF Begin, Others, Runs, Admitting, Statuses
  <1>3. l \in Layouts
    BY Zenon, <1>1, <1>2, Known DEF Self, Place
  <1>4. CASE UNCHANGED layout
    BY Zenon, <1>2, <1>4, EnlistedSame DEF Mine
  <1>5. CASE layout' = [layout EXCEPT ![l].status = "initializing"]
    <2>1. StatusBecomes(l, "initializing")
      BY Zenon, <1>2, <1>3, <1>5, StatusSet
    <2>2. PICK r \in Record : layout' = [layout EXCEPT ![l] = r] /\ r.members = layout[l].members
      BY Zenon, <2>1 DEF StatusBecomes
    <2>3. layout'[l] = r /\ \A k \in Layouts \ {l} : layout'[k] = layout[k]
      BY Zenon, <1>3, <2>2, Rewrites
    <2>4. \A q \in Processes : l \in attached'[q] /\ l # "root" => Mine(q) \in layout'[l].members
      BY Zenon, <1>2, <2>2, <2>3 DEF Enlisted
    <2>5. \A q \in Processes : attached'[q] \subseteq attached[q] \cup {l}
      BY Zenon, <1>2
    <2> QED
      BY Zenon, <1>2, <1>3, <2>3, <2>4, <2>5, EnlistedKept
  <1> QED
    BY Zenon, <1>1, <1>4, <1>5 DEF Begin

\* nobody is attached to the layout that is being initialised
LEMMA InitBodyEnlisted ==
    ASSUME AInv, Enlisted, NEW p \in Processes, InitBody(p)
    PROVE  Enlisted'
  <1>1. PICK l, r : l = at[p] /\ layout' = [layout EXCEPT ![l] = r]
    BY Zenon DEF InitBody
  <1>2. UNCHANGED <<member, attached>> /\ pc[p] = "init" /\ "init" \in Admitting \cap Initialising
    BY Zenon DEF InitBody, Others, Runs, Admitting, Initialising
  <1>3. l \in Layouts /\ layout[l].status = "initializing"
    BY Zenon, <1>1, <1>2, Known DEF Self, Place, Built, Here
  <1>4. \A q \in Processes : l \notin attached'[q]
    <2>1. layout[l].status # "initialized"
      BY Zenon, <1>3
    <2> QED
      BY Zenon, <1>2, <2>1, AttachedLater
  <1>5. \A k \in Layouts \ {l} : layout'[k] = layout[k]
    <2>1. layout \in [Layouts -> Record]
      BY Zenon DEF AInv, Types
    <2> QED
      BY Zenon, <1>1, <1>3, <2>1
  <1>6. \A q \in Processes : attached'[q] \subseteq attached[q] \cup {l}
    BY Zenon, <1>2
  <1> QED
    BY Zenon, <1>2, <1>3, <1>4, <1>5, <1>6, EnlistedKept

\* the initialiser is the first member of its layout
LEMMA PublishEnlisted ==
    ASSUME AInv, Enlisted, NEW p \in Processes, Publish(p)
    PROVE  Enlisted'
  <1>0. "publish" \in Admitting \cap Initialising /\ "initialized" \in Statuses
    BY Zenon DEF Admitting, Initialising, Statuses
  <1>1. PICK l : l = at[p]
    BY Zenon
  <1>2. /\ pc[p] = "publish" /\ layout' = [layout EXCEPT ![l].status = "initialized"] /\ UNCHANGED member
        /\ attached' = [attached EXCEPT ![p] = attached[p] \cup {l}]
    BY Zenon, <1>1 DEF Publish, Runs, Admitted
  <1>3. /\ l \in Layouts /\ layout[l].status = "initializing" /\ (l # "root" => layout[l].members = {Mine(p)})
    BY Zenon, <1>0, <1>1, <1>2, Known DEF Self, Place, Built, Here
  <1>4. StatusBecomes(l, "initialized")
    BY Zenon, <1>0, <1>2, <1>3, StatusSet
  <1>5. PICK r \in Record : layout' = [layout EXCEPT ![l] = r] /\ r.members = layout[l].members
    BY Zenon, <1>4 DEF StatusBecomes
  <1>6. layout'[l] = r /\ \A k \in Layouts \ {l} : layout'[k] = layout[k]
    BY Zenon, <1>3, <1>5, Rewrites
  <1>7. attached'[p] = attached[p] \cup {l} /\ \A q \in Processes \ {p} : attached'[q] = attached[q]
    BY Zenon, <1>2, AttachedBy
  <1>8. \A q \in Processes : l \in attached'[q] /\ l # "root" => Mine(q) \in layout'[l].members
    <2>1. layout[l].status # "initialized"
      BY Zenon, <1>3
    <2>2. \A q \in Processes : l \notin attached[q]
      BY Zenon, <2>1, AttachedLater
    <2>3. l # "root" => Mine(p) \in layout'[l].members
      BY Zenon, <1>3, <1>5, <1>6
    <2> QED
      BY Zenon, <1>7, <2>2, <2>3
  <1>9. \A q \in Processes : attached'[q] \subseteq attached[q] \cup {l}
    BY Zenon, <1>7
  <1> QED
    BY Zenon, <1>2, <1>3, <1>6, <1>8, <1>9, EnlistedKept

\* a claim adds a bit
LEMMA ClaimEnlisted ==
    ASSUME AInv, Enlisted, NEW p \in Processes, ClaimSwap(p)
    PROVE  Enlisted'
  <1>1. PICK l, M : l = at[p] /\ M = layout[l].members \cup {Mine(p)}
    BY Zenon
  <1>2. pc[p] = "claim swap" /\ UNCHANGED member /\ "claim swap" \in Admitting
    BY Zenon DEF ClaimSwap, Runs, Admitting
  <1>3. CASE UNCHANGED <<layout, attached>>
    BY Zenon, <1>2, <1>3, EnlistedSame DEF Mine
  <1>4. CASE /\ layout' = [layout EXCEPT ![l].members = M]
             /\ attached' = [attached EXCEPT ![p] = attached[p] \cup {l}]
    <2>1. l \in Layouts /\ l # "root"
      BY Zenon, <1>1, <1>2, Known DEF Self, Place
    <2>2. M \in SUBSET Numbers
      <3>1. layout[l] \in Record
        BY Zenon, <2>1 DEF AInv, Types
      <3>2. layout[l].members \subseteq Numbers
        BY Zenon, <3>1 DEF Record
      <3>3. l = "dir" \/ l = "heap"
        BY Zenon, <2>1 DEF Layouts
      <3>4. member[p] # NoMember
        BY Zenon, <1>1, <1>2, <3>3, Known DEF Self, Place
      <3>5. Mine(p) \in Numbers
        BY Zenon, <3>4, HeldSeat
      <3> QED
        BY Zenon, <1>1, <3>2, <3>5
    <2>3. MembersBecome(l, M)
      BY Zenon, <1>4, <2>1, <2>2, MembersSet
    <2>4. PICK r \in Record : layout' = [layout EXCEPT ![l] = r] /\ r.members = M
      BY Zenon, <2>3 DEF MembersBecome
    <2>5. layout'[l] = r /\ \A k \in Layouts \ {l} : layout'[k] = layout[k]
      BY Zenon, <2>1, <2>4, Rewrites
    <2>6. attached'[p] = attached[p] \cup {l} /\ \A q \in Processes \ {p} : attached'[q] = attached[q]
      BY Zenon, <1>4, AttachedBy
    <2>7. ASSUME NEW q \in Processes, l \in attached'[q] PROVE Mine(q) \in layout'[l].members
      <3>1. CASE q = p
        BY Zenon, <1>1, <2>4, <2>5, <3>1
      <3>2. CASE q # p
        <4>1. Mine(q) \in layout[l].members
          BY Zenon, <2>1, <2>6, <2>7, <3>2 DEF Enlisted
        <4> QED
          BY Zenon, <1>1, <2>4, <2>5, <4>1
      <3> QED
        BY Zenon, <3>1, <3>2
    <2>8. \A q \in Processes : attached'[q] \subseteq attached[q] \cup {l}
      BY Zenon, <2>6
    <2> QED
      BY Zenon, <1>2, <2>1, <2>5, <2>7, <2>8, EnlistedKept
  <1> QED
    BY Zenon, <1>1, <1>3, <1>4 DEF ClaimSwap, Admitted

\* A bit that is taken out is that of nobody who needs it.
LEMMA RemovedEnlisted ==
    ASSUME AInv, Enlisted, NEW p \in Processes, NEW l \in Shown, NEW b, Removes(p, l),
           layout'[l].members = layout[l].members \ {b},
           \A q \in Processes : attached'[q] \subseteq attached[q],
           \A q \in Processes : l \in attached'[q] => Mine(q) # b
    PROVE  Enlisted'
  <1>1. l \in Layouts /\ l # "root"
    BY Zenon DEF Shown, Layouts
  <1>2. UNCHANGED member /\ \A k \in Layouts \ {l} : layout'[k] = layout[k]
    BY Zenon DEF Removes
  <1>3. ASSUME NEW q \in Processes, l \in attached'[q] PROVE Mine(q) \in layout'[l].members
    BY Zenon, <1>1, <1>3 DEF Enlisted
  <1>4. \A q \in Processes : attached'[q] \subseteq attached[q] \cup {l}
    BY Zenon
  <1> QED
    BY Zenon, <1>1, <1>2, <1>3, <1>4, EnlistedKept

\* a session that leaves takes out its own bit
LEMMA LeaveEnlisted ==
    ASSUME AInv, Enlisted, NEW p \in Processes, NEW l \in Shown, NEW s, LeaveLayout(p, l, s)
    PROVE  Enlisted'
  <1>1. /\ attached' = [attached EXCEPT ![p] = attached[p] \ {l}]
        /\ UNCHANGED <<root, plan, member, victim, lost, exits>>
    BY Zenon DEF LeaveLayout
  <1>2. attached'[p] = attached[p] \ {l} /\ \A q \in Processes \ {p} : attached'[q] = attached[q]
    BY Zenon, <1>1, AttachedBy
  <1>3. l \in Layouts /\ l # "root"
    BY Zenon DEF Shown, Layouts
  <1>4. CASE l \notin attached[p]
    <2>1. layout' = layout
      BY Zenon, <1>4 DEF LeaveLayout
    <2>2. \A q \in Processes : Mine(q)' = Mine(q) /\ attached'[q] \subseteq attached[q] \cup {"root"}
      BY Zenon, <1>1, <1>2 DEF Mine
    <2> QED
      BY Zenon, <2>1, <2>2, EnlistedSame
  <1>5. CASE l \in attached[p]
    <2>1. layout' = [layout EXCEPT ![l].members = @ \ {Mine(p)}]
      BY Zenon, <1>5 DEF LeaveLayout
    <2>2. Removes(p, l) /\ layout'[l].members = layout[l].members \ {Mine(p)}
      BY Zenon, <1>1, <1>3, <2>1, TakeBit
    <2>3. ASSUME NEW q \in Processes, l \in attached'[q] PROVE Mine(q) # Mine(p)
      <3>1. q # p /\ l \in attached[q]
        BY Zenon, <1>2, <2>3
      <3>2. member[q] # NoMember
        BY Zenon, <1>3, <3>1, Known DEF Self, Place
      <3> QED
        BY Zenon, <3>1, <3>2, HeldSeat
    <2>4. \A q \in Processes : attached'[q] \subseteq attached[q]
      BY Zenon, <1>2
    <2> QED
      BY Zenon, <2>2, <2>3, <2>4, RemovedEnlisted
  <1> QED
    BY Zenon, <1>4, <1>5

\* a reaper takes out that of a slot that is dead
LEMMA UnlistEnlisted ==
    ASSUME AInv, Enlisted, Exact, NEW p \in Processes, NEW l \in Shown, NEW h \in Reaping, NEW s, Unlist(p, l, h, s)
    PROVE  Enlisted'
  <1>1. /\ UNCHANGED <<root, plan, member, victim, lost, exits>> /\ UNCHANGED attached /\ pc[p] = h
    BY Zenon DEF Unlist, Others, Runs
  <1>2. PICK m : m = victim[p]
    BY Zenon
  <1>3. l \in Layouts
    BY Zenon DEF Shown, Layouts
  <1>4. Removes(p, l) /\ layout'[l].members = layout[l].members \ {m.slot}
    <2>1. layout' = [layout EXCEPT ![l].members = @ \ {m.slot}]
      BY Zenon, <1>2 DEF Unlist
    <2> QED
      BY Zenon, <1>1, <1>3, <2>1, TakeBit
  <1>5. m # NoMember /\ m \in Members
    BY Zenon, <1>1, <1>2, Known DEF Self, Place
  <1>6. root[m.slot] = [state |-> "dead", gen |-> m.gen] /\ m.slot \in Numbers
    BY Zenon, <1>2, <1>5, Names DEF Exact
  <1>7. root[m.slot].state # "live"
    BY <1>6
  <1>8. \A q \in Processes : Mine(q) # m.slot
    BY Zenon, <1>6, <1>7, NotHeld
  <1>9. \A q \in Processes : attached'[q] \subseteq attached[q]
    BY Zenon, <1>1
  <1> QED
    BY Zenon, <1>4, <1>8, <1>9, RemovedEnlisted

\* p drops what it has
LEMMA DropEnlisted ==
    ASSUME AInv, Enlisted, NEW p \in Processes, UNCHANGED layout, attached' = [attached EXCEPT ![p] = {}],
           member' = [member EXCEPT ![p] = NoMember]
    PROVE  Enlisted'
  <1>1. attached'[p] = {} /\ \A q \in Processes \ {p} : attached'[q] = attached[q]
    BY Zenon, AttachedBy
  <1>2. \A q \in Processes \ {p} : member'[q] = member[q]
    <2>1. member \in [Processes -> Members \cup {NoMember}]
      BY Zenon DEF AInv, Types
    <2> QED
      BY Zenon, <2>1
  <1>3. \A q \in Processes : \/ attached'[q] \subseteq {"root"}
                             \/ Mine(q)' = Mine(q) /\ attached'[q] \subseteq attached[q] \cup {"root"}
    BY Zenon, <1>1, <1>2 DEF Mine
  <1> QED
    BY Zenon, <1>3, EnlistedSame

\* the root has no membership word
LEMMA AdmitEnlisted ==
    ASSUME AInv, Enlisted, NEW p \in Processes, Admit(p)
    PROVE  Enlisted'
  <1>1. UNCHANGED <<layout, member>>
    BY Zenon DEF Admit, shared
  <1>2. UNCHANGED attached \/ attached' = [attached EXCEPT ![p] = attached[p] \cup {"root"}]
    BY Zenon DEF Admit, Admitted
  <1>3. \A q \in Processes : attached'[q] \subseteq attached[q] \cup {"root"}
    <2>1. CASE UNCHANGED attached
      BY Zenon, <2>1
    <2>2. CASE attached' = [attached EXCEPT ![p] = attached[p] \cup {"root"}]
      BY Zenon, <2>2, AttachedBy
    <2> QED
      BY Zenon, <1>2, <2>1, <2>2
  <1> QED
    BY Zenon, <1>1, <1>3, EnlistedSame DEF Mine

\* a process joins before it is a member of anything
LEMMA JoinEnlisted ==
    ASSUME AInv, Enlisted, NEW p \in Processes, JoinSwap(p)
    PROVE  Enlisted'
  <1>1. UNCHANGED <<layout, attached>> /\ pc[p] = "join swap" /\ "join swap" \in Joining
    BY Zenon DEF JoinSwap, Runs, Joining
  <1>2. attached[p] = {"root"}
    BY Zenon, <1>1, Known DEF Self, Place
  <1>3. \A q \in Processes \ {p} : member'[q] = member[q]
    <2>1. member \in [Processes -> Members \cup {NoMember}]
      BY Zenon DEF AInv, Types
    <2>2. member' = member \/ \E m : member' = [member EXCEPT ![p] = m]
      BY Zenon DEF JoinSwap
    <2> QED
      BY Zenon, <2>1, <2>2
  <1>4. \A q \in Processes : \/ attached'[q] \subseteq {"root"}
                             \/ Mine(q)' = Mine(q) /\ attached'[q] \subseteq attached[q] \cup {"root"}
    BY Zenon, <1>1, <1>2, <1>3 DEF Mine
  <1> QED
    BY Zenon, <1>1, <1>4, EnlistedSame

\* No step takes a holder out of a membership word (RcHeader::claim, leave, recover_member).
LEMMA NextEnlisted ==
    ASSUME AInv, Enlisted, Exact, [AdmissionNext]_admissionVars
    PROVE  Enlisted'
  <1>1. ASSUME UNCHANGED <<layout, member, attached>> PROVE Enlisted'
    BY Zenon, <1>1, EnlistedSame DEF Mine
  <1>2. CASE UNCHANGED admissionVars
    BY Zenon, <1>1, <1>2 DEF admissionVars
  <1>3. ASSUME NEW m, Supervise(m) PROVE Enlisted'
    BY Zenon, <1>1, <1>3 DEF Supervise
  <1>4. ASSUME NEW p \in Processes, Step(p) PROVE Enlisted'
    <2>1. CASE Admit(p) \/ Begin(p) \/ Publish(p) \/ ClaimSwap(p) \/ JoinSwap(p)
      BY Zenon, <2>1, AdmitEnlisted, BeginEnlisted, PublishEnlisted, ClaimEnlisted, JoinEnlisted
    <2>2. CASE LeaveDir(p) \/ LeaveHeap(p)
      BY Zenon, <2>2, LeaveEnlisted DEF LeaveDir, LeaveHeap, Shown
    <2>3. CASE ReapHeap(p) \/ ReapDir(p)
      BY Zenon, <2>3, UnlistEnlisted DEF ReapHeap, ReapDir, Shown, Reaping
    <2>4. CASE LeaveRoot(p) \/ Die(p)
      BY Zenon, <2>4, DropEnlisted DEF LeaveRoot, Die, shared
    <2>5. CASE ClaimLoad(p) \/ JoinLoad(p) \/ Close(p) \/ ReleaseDead(p)
      BY Zenon, <1>1, <2>5 DEF ClaimLoad, JoinLoad, Close, ReleaseDead, shared, Others
    <2>6. CASE (\E how \in Plans[p] : Ask(p, how)) \/ \E m \in exits : AssumeDead(p, m)
      BY Zenon, <1>1, <2>6 DEF Ask, AssumeDead
    <2> QED
      BY Zenon, <1>4, <2>1, <2>2, <2>3, <2>4, <2>5, <2>6 DEF Step
  <1>5. ASSUME NEW p \in Processes, InitBody(p) PROVE Enlisted'
    BY Zenon, <1>5, InitBodyEnlisted
  <1> QED
    BY Zenon, <1>2, <1>3, <1>4, <1>5 DEF AdmissionNext

\* What is recovered stays dead when the slots do.
LEMMA ExactSame ==
    ASSUME Exact, UNCHANGED root, \A q \in Processes : victim'[q] = victim[q] \/ victim'[q] = NoMember
    PROVE  Exact'
  BY Zenon DEF Exact

\* So it does when the slot that is written was not dead.
LEMMA ExactOther ==
    ASSUME AInv, Exact, NEW i \in Numbers, NEW a, root[i].state # "dead", root' = [root EXCEPT ![i] = a],
           UNCHANGED victim
    PROVE  Exact'
  <1> SUFFICES ASSUME NEW q \in Processes, NEW v, v = victim[q], v # NoMember
               PROVE  root'[v.slot] = [state |-> "dead", gen |-> v.gen]
    BY Zenon DEF Exact
  <1>1. v \in Members /\ v.slot \in Numbers /\ root[v.slot] = [state |-> "dead", gen |-> v.gen]
    BY Zenon, Known, Names DEF Exact
  <1>2. root[v.slot].state = "dead"
    BY <1>1
  <1>3. v.slot # i /\ root \in [Numbers -> Seat]
    BY Zenon, <1>2 DEF AInv, Types
  <1> QED
    BY Zenon, <1>1, <1>3

\* A free slot is joined, or retired.
LEMMA JoinExact ==
    ASSUME AInv, Exact, NEW p \in Processes, JoinSwap(p)
    PROVE  Exact'
  <1>1. PICK i, g : i = at[p] /\ g = saw[p]
    BY Zenon
  <1>2. UNCHANGED victim /\ pc[p] = "join swap"
    BY Zenon DEF JoinSwap, Runs
  <1>3. i \in Numbers
    BY Zenon, <1>1, <1>2, Known DEF Self, Place
  <1>4. UNCHANGED root \/ (root[i] = [state |-> "free", gen |-> g] /\ \E a : root' = [root EXCEPT ![i] = a])
    BY Zenon, <1>1 DEF JoinSwap, Become
  <1>5. root[i] = [state |-> "free", gen |-> g] => root[i].state # "dead"
    BY SMT
  <1> QED
    BY Zenon, <1>2, <1>3, <1>4, <1>5, ExactSame, ExactOther

\* A session frees its own slot, which is live.
LEMMA LeaveRootExact ==
    ASSUME AInv, Exact, NEW p \in Processes, LeaveRoot(p)
    PROVE  Exact'
  <1>1. UNCHANGED victim
    BY Zenon DEF LeaveRoot
  <1>2. CASE UNCHANGED root
    BY Zenon, <1>1, <1>2, ExactSame
  <1>3. CASE member[p] # NoMember /\ \E a : root' = [root EXCEPT ![Mine(p)] = a]
    <2>1. Mine(p) \in Numbers /\ root[Mine(p)].state = "live"
      BY Zenon, <1>3, HeldSeat
    <2>2. root[Mine(p)].state # "dead"
      BY Zenon, <2>1
    <2> QED
      BY Zenon, <1>1, <1>3, <2>1, <2>2, ExactOther
  <1> QED
    BY Zenon, <1>2, <1>3 DEF LeaveRoot, Become, Mine

\* A slot that was marked dead already, for the same generation, is marked again.
LEMMA AssumeExact ==
    ASSUME AInv, Exact, NEW p \in Processes, NEW m, AssumeDead(p, m)
    PROVE  Exact'
  <1>1. PICK i, a : i = m.slot /\ a = [state |-> "dead", gen |-> m.gen]
    BY Zenon
  <1>2. /\ m \in exits /\ root' = [root EXCEPT ![i] = a] /\ victim' = [victim EXCEPT ![p] = m]
        /\ root[i] \in {[state |-> "live", gen |-> m.gen], a}
    BY Zenon, <1>1 DEF AssumeDead, Become
  <1>3. /\ i \in Numbers /\ root \in [Numbers -> Seat] /\ victim \in [Processes -> Members \cup {NoMember}]
    BY Zenon, <1>1, <1>2, Names DEF AInv, Types
  <1>4. victim'[p] = m /\ root'[i] = a /\ \A q \in Processes \ {p} : victim'[q] = victim[q]
    BY Zenon, <1>2, <1>3
  <1>5. ASSUME NEW q \in Processes \ {p}, NEW v, v = victim[q], v # NoMember
        PROVE  root'[v.slot] = [state |-> "dead", gen |-> v.gen]
    <2>1. v \in Members /\ v.slot \in Numbers /\ root[v.slot] = [state |-> "dead", gen |-> v.gen]
      BY Zenon, <1>5, Known, Names DEF Exact
    <2>2. CASE v.slot = i
      <3>1. root[i] = a
        <4>1. root[i].state = "dead"
          BY <2>1, <2>2
        <4>2. root[i] # [state |-> "live", gen |-> m.gen]
          BY <4>1
        <4> QED
          BY Zenon, <1>2, <4>2
      <3> QED
        BY Zenon, <1>4, <2>1, <2>2, <3>1
    <2>3. CASE v.slot # i
      BY Zenon, <1>2, <1>3, <2>1, <2>3
    <2> QED
      BY Zenon, <2>2, <2>3
  <1> QED
    BY Zenon, <1>1, <1>4, <1>5 DEF Exact

\* The slot that is released is recovered by nobody else.
LEMMA ReleaseExact ==
    ASSUME AInv, Exact, SoleRecovery, NEW p \in Processes, ReleaseDead(p)
    PROVE  Exact'
  <1>1. PICK m : m = victim[p]
    BY Zenon
  <1>2. pc[p] = "release dead" /\ "release dead" \in Reaping /\ victim' = [victim EXCEPT ![p] = NoMember]
    BY Zenon DEF ReleaseDead, Runs, Reaping
  <1>3. UNCHANGED root \/ \E a : root' = [root EXCEPT ![m.slot] = a]
    BY Zenon, <1>1 DEF ReleaseDead, Become
  <1>4. /\ root \in [Numbers -> Seat] /\ victim \in [Processes -> Members \cup {NoMember}]
    BY Zenon DEF AInv, Types
  <1>5. victim'[p] = NoMember /\ \A q \in Processes \ {p} : victim'[q] = victim[q]
    BY Zenon, <1>2, <1>4
  <1>6. /\ m # NoMember /\ m \in Members /\ root[m.slot] = [state |-> "dead", gen |-> m.gen]
        /\ m = [slot |-> m.slot, gen |-> m.gen]
    <2>1. m # NoMember /\ m \in Members
      BY Zenon, <1>1, <1>2, Known DEF Self, Place
    <2> QED
      BY Zenon, <1>1, <2>1, Names DEF Exact
  <1>7. ASSUME NEW q \in Processes \ {p}, NEW v, v = victim[q], v # NoMember
        PROVE  root'[v.slot] = [state |-> "dead", gen |-> v.gen]
    <2>1. /\ v \in Members /\ v.slot \in Numbers /\ root[v.slot] = [state |-> "dead", gen |-> v.gen]
          /\ v = [slot |-> v.slot, gen |-> v.gen]
      BY Zenon, <1>7, Known, Names DEF Exact
    <2>2. v # m
      BY Zenon, <1>1, <1>7 DEF SoleRecovery
    <2>3. v.slot # m.slot
      <3> SUFFICES ASSUME v.slot = m.slot PROVE FALSE
        BY Zenon
      <3>1. v.gen = m.gen
        BY <1>6, <2>1
      <3> QED
        BY Zenon, <1>6, <2>1, <2>2, <3>1
    <2> QED
      BY Zenon, <1>3, <1>4, <2>1, <2>3
  <1> QED
    BY Zenon, <1>5, <1>7 DEF Exact

\* What is recovered is still the participant that died (Root::release_dead).
LEMMA NextExact ==
    ASSUME AInv, Exact, SoleRecovery, [AdmissionNext]_admissionVars
    PROVE  Exact'
  <1>1. ASSUME UNCHANGED <<root, victim>> PROVE Exact'
    BY Zenon, <1>1, ExactSame
  <1>2. CASE UNCHANGED admissionVars
    BY Zenon, <1>1, <1>2 DEF admissionVars
  <1>3. ASSUME NEW m, Supervise(m) PROVE Exact'
    BY Zenon, <1>1, <1>3 DEF Supervise
  <1>4. ASSUME NEW p \in Processes, Step(p) PROVE Exact'
    <2>1. CASE JoinSwap(p) \/ LeaveRoot(p) \/ ReleaseDead(p) \/ \E m \in exits : AssumeDead(p, m)
      BY Zenon, <2>1, JoinExact, LeaveRootExact, ReleaseExact, AssumeExact
    <2>2. CASE \E how \in Plans[p] : Ask(p, how)
      BY Zenon, <1>1, <2>2 DEF Ask
    <2>3. CASE Admit(p) \/ Begin(p) \/ Publish(p) \/ ClaimLoad(p) \/ ClaimSwap(p) \/ JoinLoad(p)
      BY Zenon, <1>1, <2>3 DEF Admit, Begin, Publish, ClaimLoad, ClaimSwap, JoinLoad, shared, Others
    <2>4. CASE Close(p) \/ LeaveDir(p) \/ LeaveHeap(p) \/ ReapHeap(p) \/ ReapDir(p)
      BY Zenon, <1>1, <2>4 DEF Close, LeaveDir, LeaveHeap, LeaveLayout, ReapHeap, ReapDir, Unlist, shared, Others
    <2>5. CASE Die(p)
      <3>1. UNCHANGED root /\ victim' = [victim EXCEPT ![p] = NoMember] /\ DOMAIN victim = Processes
        BY Zenon, <2>5 DEF Die, shared, AInv, Types
      <3>2. \A q \in Processes : victim'[q] = victim[q] \/ victim'[q] = NoMember
        BY Zenon, <3>1
      <3> QED
        BY Zenon, <3>1, <3>2, ExactSame
    <2> QED
      BY Zenon, <1>4, <2>1, <2>2, <2>3, <2>4, <2>5 DEF Step
  <1>5. ASSUME NEW p \in Processes, InitBody(p) PROVE Exact'
    <2>1. UNCHANGED victim
      BY Zenon, <1>5 DEF InitBody, Others
    <2> QED
      BY Zenon, <1>1, <1>5, <2>1, InitBodyKeeps
  <1> QED
    BY Zenon, <1>2, <1>3, <1>4, <1>5 DEF AdmissionNext

\* A live process keeps its participant slot for itself and stays in the membership words
\* of the layouts it is attached to, as long as no two sessions recover one participant at
\* the same time (Root::join, RcHeader::claim, Recovery::reap_with).
THEOREM HoldersAreMembersHolds == AdmissionSpec /\ []SoleRecovery => []HoldersAreMembers
  <1>1. AdmissionInit => Enlisted /\ Exact
    BY Zenon DEF AdmissionInit, Enlisted, Exact
  <1>2. AInv /\ SoleRecovery /\ Enlisted /\ Exact /\ [AdmissionNext]_admissionVars => (Enlisted /\ Exact)'
    BY Zenon, NextEnlisted, NextExact
  <1>3. AInv /\ Enlisted => HoldersAreMembers
    BY Zenon DEF AInv, Self, Named, Enlisted, HoldersAreMembers
  <1> QED
    BY <1>1, <1>2, <1>3, AdmissionInvariant, PTL DEF AdmissionSpec

\* The part of it that does not depend on who recovers whom: the slot is its own.
THEOREM HoldersAreAlone ==
    AdmissionSpec => [](\A p \in Processes : member[p] # NoMember =>
                            /\ root[Mine(p)] = [state |-> "live", gen |-> member[p].gen]
                            /\ \A q \in Processes \ {p} : Mine(q) # Mine(p))
  <1>1. AInv => \A p \in Processes : member[p] # NoMember =>
                    /\ root[Mine(p)] = [state |-> "live", gen |-> member[p].gen]
                    /\ \A q \in Processes \ {p} : Mine(q) # Mine(p)
    BY Zenon DEF AInv, Self, Named
  <1> QED
    BY <1>1, AdmissionInvariant, PTL
=============================================================================
