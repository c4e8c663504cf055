--------------------------- MODULE ChannelProofs ---------------------------
(***************************************************************************)
(* Proofs about Channel, for any number of participants, generations and   *)
(* transfers.  RoleInv says who holds the two roles and which ports are    *)
(* spent; RingInv says how far a removal has got with the two directions.  *)
(***************************************************************************)
EXTENDS Channel, TLAPS

Ends == [index : Sides, gen : 0 .. MaxGeneration]
ReapSteps == {"slots", "role0", "role1", "member"}

RoleTypes ==
    /\ entry \in {"none", "published", "removed"} /\ members \subseteq Participants
    /\ roles \in [Sides -> Role]
    /\ alive \subseteq Participants
    /\ pc \in [Participants -> Steps]
    /\ seat \in [Participants -> Ends]
    /\ raw \in [Participants -> Role]
    /\ ports \cup used \subseteq Ends
    /\ dead \in [who : Participants \cup {NoOne}, step : ReapSteps]

\* only the dead are recovered
Buried == dead.who \notin alive /\ (dead.step # "slots" => dead.who # NoOne)

\* before the roles are stored nobody but the creator knows the channel
Fresh ==
    /\ entry = "none" => ports = {} /\ roles = [i \in Sides |-> Blank]
    /\ \A p \in alive : pc[p] \in {"create", "offer"} =>
         /\ ports = {} /\ roles[1] = Blank
         /\ pc[p] = "create" => roles[0] = Blank
         /\ \A q \in Participants : Attached(q) => q = p

\* the word of the role a living participant claims, holds or closed
Owns(p) == Mine(p).gen = seat[p].gen /\ Mine(p).owner = p
Gone(p) == Mine(p) = Word(seat[p].gen, NoOne, TRUE)
Holds(p) ==
    /\ pc[p] = "offer" => seat[p].index = 0
    /\ pc[p] \in {"offer", "check", "undo"} => Mine(p) = Word(seat[p].gen, p, FALSE)
    /\ pc[p] \in {"check", "undo"} => seat[p] \notin used
    /\ pc[p] \in {"open", "invite"} => Owns(p) \/ Gone(p)
    /\ pc[p] \in Closing => Mine(p) = Word(seat[p].gen, p, TRUE)
    /\ pc[p] \in {"peer", "reclaim"} => Gone(p)

\* the role of a port that admitted a holder is taken, closed, or at a later generation
Spent(port, w) == w.gen > port.gen \/ (w.gen = port.gen /\ (w.owner # NoOne \/ w.terminal))

RoleInv ==
    /\ RoleTypes /\ Buried /\ RemovedIsAlone /\ Fresh
    /\ \A p \in alive : Holds(p)
    /\ \A p \in Participants : raw[p].owner = NoOne /\ ~raw[p].terminal
    /\ \A port \in used : Spent(port, roles[port.index])

----------------------------------------------------------------------------
Slot == [is : SlotStates, owner : Participants \cup {NoOne}, held : BOOLEAN]

RingTypes ==
    /\ lifecycle \in [{"send", "recv"} -> [Sides -> {0, 1, 3}]]
    /\ slot \in [Sides -> Slot]
    /\ at \in [Participants -> Sides]
    /\ count \in [published : Nat, settled : Nat]

Named(w) ==
    /\ w.owner = NoOne <=> w.is \in {"empty", "full", "skipped"}
    /\ w.owner = NoOne => ~w.held

\* a direction without senders; one without transfers; one that is closed
Gated(d) ==
    /\ lifecycle["send"][d] = 3 => slot[d].is \notin Producer
    /\ lifecycle["recv"][d] = 3 => lifecycle["send"][d] = 3 /\ slot[d].is = "empty"
Drained(d) == lifecycle["send"][d] = 3 /\ slot[d].is \in {"empty", "consumer"}
Sealed == \A d \in Sides : lifecycle["recv"][d] = 3

Phase(p) ==
    /\ pc[p] = "release" => slot[at[p]] = [is |-> "consumer", owner |-> p, held |-> TRUE]
    /\ pc[p] \in {"drain", "release", "sent"} /\ at[p] = 1 => Drained(0)
    /\ pc[p] = "seal" =>
         /\ Drained(0) /\ Drained(1)
         /\ at[p] = 1 => lifecycle["recv"][0] = 3
    /\ pc[p] \in {"retire", "peer", "reclaim"} => Sealed
    /\ pc[p] \in {"open", "invite"} /\ Gone(p) => Sealed

\* transfers under way
Weight(w) == IF w.is \in {"full", "consumer"} THEN 1 ELSE 0
Load(d) == Weight(slot[d])

RingInv ==
    /\ RingTypes
    /\ \A d \in Sides : Named(slot[d]) /\ Gated(d)
    /\ \A p \in alive : Phase(p)
    /\ count.published = count.settled + Load(0) + Load(1)
    /\ entry = "removed" => Sealed

----------------------------------------------------------------------------
(* Roles.                                                                  *)

\* what a step of p, or the recovery of p, may do to a role word
Advances(w, v, p) ==
    v = w \/ /\ w.owner \in {NoOne, p} /\ ~(w.owner = NoOne /\ w.terminal)
             /\ w.terminal => v.terminal
             /\ v.gen >= w.gen
             /\ v.gen = w.gen /\ w.owner # NoOne => v.owner # NoOne \/ v.terminal

\* the locals of everyone but p are untouched
Others(p) == \A q \in Participants \ {p} : pc'[q] = pc[q] /\ seat'[q] = seat[q] /\ raw'[q] = raw[q]

RoleMoves(p) == \A i \in Sides : Advances(roles[i], roles'[i], p)

\* A spent port stays spent when the role word advances: generations grow, and the
\* same generation is not offered again.
LEMMA SpentStays ==
    ASSUME NEW w \in Role, NEW v \in Role, NEW p, NEW port \in Ends,
           Advances(w, v, p), Spent(port, w)
    PROVE  Spent(port, v)
  BY ChannelAssumption DEF Advances, Spent, Role, Ends

\* The next word of a released role is a word of a later generation, or terminal.
LEMMA ReleasedAdvances ==
    ASSUME NEW w \in Role, NEW p, w.owner \in {NoOne, p}, ~(w.owner = NoOne /\ w.terminal)
    PROVE  Released(w) \in Role /\ Advances(w, Released(w), p) /\ Released(w).owner = NoOne
  BY ChannelAssumption DEF Advances, Released, Role, Word

\* Everyone who claims, holds or closed a role, other than the one who takes a step,
\* finds its word as it was.
LEMMA OthersKeep ==
    ASSUME RoleInv, NEW p \in Participants, RoleMoves(p), Others(p),
           NEW q \in alive \ {p}, pc[q] \notin {"idle", "create", "claim", "unmap"}
    PROVE  roles'[seat[q].index] = roles[seat[q].index]
  <1>1. q \in Participants /\ q # p /\ q # NoOne /\ seat[q].index \in Sides
    BY Zenon, ChannelAssumption DEF RoleInv, RoleTypes, Ends
  <1>2. PICK w : w = Mine(q)
    BY Zenon
  <1>3. w.owner = q \/ (w.owner = NoOne /\ w.terminal)
    <2>1. Holds(q) /\ pc[q] \in Steps
      BY Zenon, <1>1 DEF RoleInv, RoleTypes
    <2> QED
      BY <1>2, <2>1 DEF Holds, Owns, Gone, Word, Steps, Closing
  <1>4. Advances(w, roles'[seat[q].index], p)
    BY Zenon, <1>1, <1>2 DEF RoleMoves, Mine
  <1> QED
    BY Zenon, <1>1, <1>2, <1>3, <1>4 DEF Advances, Mine

\* A step of p keeps what is said of the others, when p finds itself well and the
\* ports that were spent stay spent.
LEMMA RoleKeeps ==
    ASSUME RoleInv, NEW p \in Participants, RoleMoves(p), Others(p), RoleTypes',
           alive' \subseteq alive, Buried', RemovedIsAlone', Fresh',
           p \in alive' => Holds(p)',
           raw'[p].owner = NoOne /\ ~raw'[p].terminal,
           \A port \in used' : port \in used \/ Spent(port, roles'[port.index]),
           \A q \in alive \ {p} : pc[q] \in {"check", "undo"} => seat[q] \notin used'
    PROVE  RoleInv'
  <1>1. ASSUME NEW q \in alive' PROVE Holds(q)'
    <2>1. CASE q = p
      BY Zenon, <2>1
    <2>2. CASE q # p
      <3>1. q \in alive \ {p} /\ q \in Participants /\ Holds(q) /\ pc[q] \in Steps
        BY Zenon, <2>2 DEF RoleInv, RoleTypes
      <3>2. pc'[q] = pc[q] /\ seat'[q] = seat[q]
        BY Zenon, <3>1 DEF Others
      <3>3. CASE pc[q] \in {"idle", "create", "claim", "unmap"}
        BY Zenon, <3>2, <3>3 DEF Holds, Closing
      <3>4. CASE pc[q] \notin {"idle", "create", "claim", "unmap"}
        <4>1. roles'[seat[q].index] = roles[seat[q].index]
          BY Zenon, <3>1, <3>4, OthersKeep
        <4> QED
          BY Zenon, <3>1, <3>2, <4>1 DEF Holds, Owns, Gone, Mine
      <3> QED
        BY Zenon, <3>3, <3>4
    <2> QED
      BY Zenon, <2>1, <2>2
  <1>2. \A q \in Participants : raw'[q].owner = NoOne /\ ~raw'[q].terminal
    BY Zenon DEF RoleInv, Others
  <1>3. ASSUME NEW port \in used' PROVE Spent(port, roles'[port.index])
    <2>1. CASE port \in used
      <3>1. port \in Ends /\ port.index \in Sides
        BY Zenon, <2>1 DEF RoleInv, RoleTypes, Ends
      <3>2. roles[port.index] \in Role /\ roles'[port.index] \in Role
        BY Zenon, <3>1 DEF RoleInv, RoleTypes
      <3> QED
        BY Zenon, <2>1, <3>1, <3>2, SpentStays DEF RoleInv, RoleMoves
    <2> QED
      BY Zenon, <2>1
  <1> QED
    BY Zenon, <1>1, <1>2, <1>3 DEF RoleInv

\* p goes on in a call that began
Walks(p) ==
    /\ pc[p] \notin {"idle", "create", "offer"} /\ pc'[p] \notin {"create", "offer"}
    /\ Others(p) /\ UNCHANGED <<entry, alive, dead, used>> /\ members' = members

\* Whoever goes on in a call is a member, and nobody is creating the channel.
LEMMA WalkKeeps ==
    ASSUME RoleInv, NEW p \in alive, Walks(p), RoleMoves(p), RoleTypes', Holds(p)',
           raw'[p].owner = NoOne /\ ~raw'[p].terminal
    PROVE  RoleInv'
  <1>1. p \in Participants /\ alive \subseteq Participants
    BY Zenon DEF RoleInv, RoleTypes
  <1>2. Attached(p) /\ entry = "published" /\ p \in members
    BY Zenon, <1>1 DEF RoleInv, RemovedIsAlone, Attached, Walks
  <1>3. \A q \in alive : pc'[q] \notin {"create", "offer"}
    BY Zenon, <1>1, <1>2 DEF RoleInv, Fresh, Walks, Others
  <1>4. RemovedIsAlone'
    BY Zenon, <1>1, <1>2 DEF RoleInv, RemovedIsAlone, Attached, Walks, Others
  <1>5. Fresh'
    BY Zenon, <1>2, <1>3 DEF Fresh, Walks
  <1>6. Buried'
    BY Zenon DEF RoleInv, Buried, Walks
  <1>7. \A q \in alive \ {p} : pc[q] \in {"check", "undo"} => seat[q] \notin used'
    BY Zenon DEF RoleInv, Holds, Walks
  <1> QED
    BY Zenon, <1>1, <1>4, <1>5, <1>6, <1>7, RoleKeeps DEF Walks

\* what a living participant knows of itself
LEMMA Known ==
    ASSUME RoleInv, NEW p \in alive
    PROVE  /\ p \in Participants /\ p # NoOne /\ seat[p] \in Ends /\ seat[p].index \in Sides
           /\ seat[p].gen \in 0 .. MaxGeneration /\ Peer(p) \in Sides /\ Peer(p) # seat[p].index
           /\ Mine(p) \in Role /\ roles[Peer(p)] \in Role /\ Holds(p) /\ pc[p] \in Steps
           /\ raw[p] \in Role /\ raw[p].owner = NoOne /\ ~raw[p].terminal
  <1>1. p \in Participants /\ p # NoOne /\ seat[p] \in Ends /\ Holds(p) /\ pc[p] \in Steps
    BY Zenon, ChannelAssumption DEF RoleInv, RoleTypes
  <1>2. /\ seat[p].index \in Sides /\ seat[p].gen \in 0 .. MaxGeneration
        /\ Peer(p) \in Sides /\ Peer(p) # seat[p].index
    BY <1>1 DEF Ends, Peer, Sides
  <1> QED
    BY Zenon, <1>1, <1>2 DEF RoleInv, RoleTypes, Mine

\* steps of a call that change no role, port or seat
Stays(p) == Walks(p) /\ pc'[p] \in Steps /\ UNCHANGED <<roles, ports, seat>>

\* A step of a call that touches no role word keeps the roles, when its own step is in order.
LEMMA StaysKeeps ==
    ASSUME RoleInv, NEW p \in alive, Stays(p), raw' \in [Participants -> Role],
           pc' \in [Participants -> Steps], Holds(p)', raw'[p].owner = NoOne /\ ~raw'[p].terminal
    PROVE  RoleInv' /\ RoleMoves(p)
  <1>1. RoleMoves(p)
    BY Zenon DEF Stays, RoleMoves, Advances
  <1>2. RoleTypes'
    BY Zenon DEF RoleInv, RoleTypes, Stays, Walks
  <1> QED
    BY Zenon, <1>1, <1>2, WalkKeeps DEF Stays

\* a step of p that stores w in its own role, or leaves the role as it is
Stores(p, w) == roles' = [roles EXCEPT ![seat[p].index] = w]

\* Only the role of p changes when p stores a word in it (the exchanges of adopt, drop
\* and close_with).
LEMMA StoresMoves ==
    ASSUME RoleInv, NEW p \in alive, NEW w \in Role, Stores(p, w), Advances(Mine(p), w, p)
    PROVE  RoleMoves(p) /\ roles' \in [Sides -> Role] /\ roles'[seat[p].index] = w
  <1>1. seat[p].index \in Sides /\ roles \in [Sides -> Role]
    BY Zenon, Known DEF RoleInv, RoleTypes
  <1> QED
    BY Zenon, <1>1 DEF Stores, RoleMoves, Advances, Mine

\* the claim of an offered role: AdoptClaim
LEMMA AdoptClaimRole ==
    ASSUME RoleInv, NEW p \in alive, UNCHANGED <<alive, dead>>, AdoptClaim(p)
    PROVE  RoleInv' /\ RoleMoves(p) /\ Others(p)
  <1>0. Others(p) /\ Walks(p) /\ seat' = seat /\ raw' = raw /\ ports' = ports /\ used' = used
    BY Zenon, Known DEF AdoptClaim, Goto, Walks, Others, Locals, History, RoleInv, RoleTypes
  <1>1. CASE Mine(p) = Word(seat[p].gen, NoOne, FALSE)
    <2>1. PICK w : w = Word(seat[p].gen, p, FALSE)
      BY Zenon
    <2>2. w \in Role /\ Advances(Mine(p), w, p)
      BY <1>1, <2>1, Known, ChannelAssumption DEF Word, Role, Advances
    <2>3. Stores(p, w) /\ pc' = [pc EXCEPT ![p] = "check"]
      BY Zenon, <1>1, <2>1 DEF AdoptClaim, Stores, SetRole, Goto
    <2>4. RoleMoves(p) /\ roles' \in [Sides -> Role] /\ roles'[seat[p].index] = w
      BY Zenon, <2>2, <2>3, StoresMoves
    <2>5. RoleTypes'
      BY Zenon, <1>0, <2>3, <2>4, Known DEF RoleInv, RoleTypes, Walks, Steps
    <2>6. seat[p] \notin used
      BY <1>1, Known, ChannelAssumption DEF RoleInv, Spent, Word, Mine, Ends
    <2>7. Holds(p)'
      BY Zenon, <1>0, <2>1, <2>3, <2>4, <2>6, Known DEF Holds, Mine, Closing, RoleInv, RoleTypes
    <2> QED
      BY Zenon, <1>0, <2>4, <2>5, <2>7, Known, WalkKeeps
  <1>2. CASE Mine(p) # Word(seat[p].gen, NoOne, FALSE)
    <2>1. pc' = [pc EXCEPT ![p] = "unmap"] /\ roles' = roles
      BY Zenon, <1>2 DEF AdoptClaim, Goto
    <2>2. Stays(p) /\ pc' \in [Participants -> Steps] /\ Holds(p)'
      BY Zenon, <1>0, <2>1, Known DEF Stays, Holds, Steps, Closing, RoleInv, RoleTypes
    <2> QED
      BY Zenon, <1>0, <2>2, Known, StaysKeeps DEF RoleInv, RoleTypes
  <1> QED
    BY Zenon, <1>1, <1>2

\* Orphaned: the claimed word is released (AdoptUndo).
LEMMA AdoptUndoRole ==
    ASSUME RoleInv, NEW p \in alive, UNCHANGED <<alive, dead>>, AdoptUndo(p)
    PROVE  RoleInv' /\ RoleMoves(p) /\ Others(p)
  <1>1. /\ Others(p) /\ Walks(p) /\ seat' = seat /\ raw' = raw /\ ports' = ports /\ used' = used
        /\ pc[p] = "undo" /\ pc' = [pc EXCEPT ![p] = "unmap"]
    BY Zenon, Known DEF AdoptUndo, Goto, Walks, Others, Locals, History, RoleInv, RoleTypes
  <1>2. PICK w : w = Released(Word(seat[p].gen, p, FALSE))
    BY Zenon
  <1>3. Mine(p) = Word(seat[p].gen, p, FALSE)
    BY Zenon, <1>1, Known DEF Holds
  <1>9. w = Released(Mine(p)) /\ Mine(p).owner = p
    BY <1>2, <1>3 DEF Word
  <1>4. w \in Role /\ Advances(Mine(p), w, p)
    BY <1>9, Known, ReleasedAdvances
  <1>5. Stores(p, w)
    BY Zenon, <1>2, <1>3 DEF AdoptUndo, Stores, SetRole
  <1>6. RoleMoves(p) /\ roles' \in [Sides -> Role]
    BY Zenon, <1>4, <1>5, StoresMoves
  <1>7. RoleTypes'
    BY Zenon, <1>1, <1>6, Known DEF RoleInv, RoleTypes, Walks, Steps
  <1>8. Holds(p)'
    BY Zenon, <1>1, Known DEF Holds, Closing, RoleInv, RoleTypes
  <1> QED
    BY Zenon, <1>1, <1>6, <1>7, <1>8, Known, WalkKeeps

\* Role::drop releases the word of the role if it still is the holder's (DropRole).
LEMMA DropRoleRole ==
    ASSUME RoleInv, NEW p \in alive, UNCHANGED <<alive, dead>>, DropRole(p)
    PROVE  RoleInv' /\ RoleMoves(p) /\ Others(p)
  <1>1. /\ Others(p) /\ Walks(p) /\ seat' = seat /\ raw' = raw /\ ports' = ports /\ used' = used
        /\ pc[p] = "open" /\ pc' = [pc EXCEPT ![p] = "unmap"]
    BY Zenon, Known DEF DropRole, Goto, Walks, Others, Locals, History, RoleInv, RoleTypes
  <1>2. Holds(p)'
    BY Zenon, <1>1, Known DEF Holds, Closing, RoleInv, RoleTypes
  <1>3. CASE Mine(p).gen = seat[p].gen /\ Mine(p).owner = p
    <2>1. PICK w : w = Released(Mine(p))
      BY Zenon
    <2>2. w \in Role /\ Advances(Mine(p), w, p)
      BY <1>3, <2>1, Known, ReleasedAdvances
    <2>3. Stores(p, w)
      BY Zenon, <1>3, <2>1 DEF DropRole, Stores, SetRole
    <2>4. RoleMoves(p) /\ roles' \in [Sides -> Role]
      BY Zenon, <2>2, <2>3, StoresMoves
    <2>5. RoleTypes'
      BY Zenon, <1>1, <2>4, Known DEF RoleInv, RoleTypes, Walks, Steps
    <2> QED
      BY Zenon, <1>1, <1>2, <2>4, <2>5, Known, WalkKeeps
  <1>4. CASE ~(Mine(p).gen = seat[p].gen /\ Mine(p).owner = p)
    <2>1. Stays(p) /\ pc' \in [Participants -> Steps]
      BY Zenon, <1>1, <1>4, Known DEF DropRole, Stays, Steps, RoleInv, RoleTypes
    <2> QED
      BY Zenon, <1>1, <1>2, <2>1, Known, StaysKeeps DEF RoleInv, RoleTypes
  <1> QED
    BY Zenon, <1>3, <1>4

\* invite loads an unowned word (InviteLoad).
LEMMA InviteLoadRole ==
    ASSUME RoleInv, NEW p \in alive, UNCHANGED <<alive, dead>>, InviteLoad(p)
    PROVE  RoleInv' /\ RoleMoves(p) /\ Others(p)
  <1>1. /\ Others(p) /\ Stays(p) /\ pc[p] = "open" /\ pc' = [pc EXCEPT ![p] = "invite"]
        /\ raw' = [raw EXCEPT ![p] = roles[Peer(p)]] /\ used' = used
        /\ ~roles[Peer(p)].terminal /\ roles[Peer(p)].owner = NoOne
    BY Zenon, Known DEF InviteLoad, Goto, Stays, Walks, Others, History, Steps, RoleInv, RoleTypes
  <1>2. /\ raw' \in [Participants -> Role] /\ raw'[p] = roles[Peer(p)]
        /\ pc' \in [Participants -> Steps] /\ pc'[p] = "invite"
    BY Zenon, <1>1, Known DEF RoleInv, RoleTypes, Steps
  <1>3. Holds(p)'
    BY Zenon, <1>1, <1>2, Known DEF Holds, Owns, Gone, Mine, Closing, Stays
  <1> QED
    BY Zenon, <1>1, <1>2, <1>3, StaysKeeps

\* A new generation is offered if the loaded word is still there (InviteSwap).
LEMMA InviteSwapRole ==
    ASSUME RoleInv, NEW p \in alive, UNCHANGED <<alive, dead>>, InviteSwap(p)
    PROVE  RoleInv' /\ RoleMoves(p) /\ Others(p)
  <1>1. /\ Others(p) /\ Walks(p) /\ seat' = seat /\ used' = used
        /\ pc[p] = "invite" /\ pc' = [pc EXCEPT ![p] = "open"]
        /\ raw' = [raw EXCEPT ![p] = Blank]
    BY Zenon, Known DEF InviteSwap, Goto, Walks, Others, History, RoleInv, RoleTypes
  <1>2. /\ pc' \in [Participants -> Steps] /\ pc'[p] = "open"
        /\ raw' \in [Participants -> Role] /\ raw'[p].owner = NoOne /\ ~raw'[p].terminal
    BY <1>1, Known, ChannelAssumption DEF RoleInv, RoleTypes, Steps, Blank, Word, Role
  <1>3. Owns(p) \/ Gone(p)
    BY Zenon, <1>1, Known DEF Holds
  <1>4. CASE roles[Peer(p)] = raw[p]
    <2>1. PICK w : w = Released(raw[p])
      BY Zenon
    <2>2. w \in Role /\ Advances(roles[Peer(p)], w, p)
      BY <1>4, <2>1, Known, ReleasedAdvances
    <2>3. roles' = [roles EXCEPT ![Peer(p)] = w]
      BY Zenon, <1>4, <2>1 DEF InviteSwap, SetRole
    <2>4. /\ RoleMoves(p) /\ roles' \in [Sides -> Role]
          /\ roles'[seat[p].index] = roles[seat[p].index]
      BY Zenon, <2>2, <2>3, Known DEF RoleMoves, Advances, RoleInv, RoleTypes
    <2>5. ports \subseteq ports' /\ ports' \subseteq Ends
      <3>1. CASE raw[p].gen = MaxGeneration
        BY Zenon, <1>4, <3>1 DEF InviteSwap, RoleInv, RoleTypes
      <3>2. CASE raw[p].gen # MaxGeneration
        <4>1. raw[p].gen + 1 \in 0 .. MaxGeneration
          BY <3>2, Known, ChannelAssumption DEF Role
        <4>2. [index |-> Peer(p), gen |-> raw[p].gen + 1] \in Ends
          BY Zenon, <4>1, Known DEF Ends
        <4> QED
          BY Zenon, <1>4, <3>2, <4>2 DEF InviteSwap, RoleInv, RoleTypes
      <3> QED
        BY Zenon, <3>1, <3>2
    <2>6. RoleTypes'
      BY Zenon, <1>1, <1>2, <2>4, <2>5 DEF RoleInv, RoleTypes, Walks
    <2>7. Holds(p)'
      BY Zenon, <1>1, <1>2, <1>3, <2>4 DEF Holds, Owns, Gone, Mine, Closing
    <2> QED
      BY Zenon, <1>1, <1>2, <2>4, <2>6, <2>7, WalkKeeps
  <1>5. CASE roles[Peer(p)] # raw[p]
    <2>1. Stays(p) /\ roles' = roles
      BY <1>1, <1>2, <1>5 DEF InviteSwap, Stays
    <2>2. Holds(p)'
      BY Zenon, <1>1, <1>2, <1>3, <2>1 DEF Holds, Owns, Gone, Mine, Closing
    <2> QED
      BY Zenon, <1>1, <1>2, <2>1, <2>2, StaysKeeps
  <1> QED
    BY Zenon, <1>4, <1>5

\* A terminal word keeps its generation and its owner.
LEMMA Terminated ==
    ASSUME NEW w \in Role PROVE [w EXCEPT !.terminal = TRUE] = Word(w.gen, w.owner, TRUE)
  <1>1. PICK v : v = [w EXCEPT !.terminal = TRUE]
    BY Zenon
  <1>2. v \in Role /\ v.gen = w.gen /\ v.owner = w.owner /\ v.terminal = TRUE
    BY Zenon, <1>1 DEF Role
  <1>3. v = [gen |-> v.gen, owner |-> v.owner, terminal |-> TRUE]
    BY Zenon, <1>2 DEF Role
  <1> QED
    BY Zenon, <1>1, <1>2, <1>3 DEF Word

\* close_with makes the own role terminal, or finds that it did so before (CloseRole).
LEMMA CloseRoleRole ==
    ASSUME RoleInv, NEW p \in alive, UNCHANGED <<alive, dead>>, CloseRole(p)
    PROVE  RoleInv' /\ RoleMoves(p) /\ Others(p)
  <1>1. /\ Others(p) /\ Walks(p) /\ seat' = seat /\ raw' = raw /\ ports' = ports /\ used' = used
        /\ pc[p] = "open"
    BY Zenon, Known DEF CloseRole, Goto, Walks, Others, History, RoleInv, RoleTypes
  <1>2. Owns(p) \/ Gone(p)
    BY Zenon, <1>1, Known DEF Holds
  <1>3. CASE Owns(p)
    <2>1. PICK w : w = [Mine(p) EXCEPT !.terminal = TRUE]
      BY Zenon
    <2>7. w = Word(seat[p].gen, p, TRUE)
      BY Zenon, <1>3, <2>1, Known, Terminated DEF Owns
    <2>2. w = Word(seat[p].gen, p, TRUE) /\ w \in Role /\ Advances(Mine(p), w, p)
      BY <1>3, <2>7, Known DEF Owns, Role, Word, Advances
    <2>3. Stores(p, w) /\ pc' = [pc EXCEPT ![p] = "stop"]
      BY Zenon, <1>3, <2>1 DEF CloseRole, Owns, Stores, SetRole, Goto
    <2>4. RoleMoves(p) /\ roles' \in [Sides -> Role] /\ roles'[seat[p].index] = w
      BY Zenon, <2>2, <2>3, StoresMoves
    <2>5. RoleTypes'
      BY Zenon, <1>1, <2>3, <2>4, Known DEF RoleInv, RoleTypes, Walks, Steps
    <2>6. Holds(p)'
      BY Zenon, <1>1, <2>2, <2>3, <2>4, Known DEF Holds, Mine, Closing, RoleInv, RoleTypes
    <2> QED
      BY Zenon, <1>1, <2>4, <2>5, <2>6, Known, WalkKeeps
  <1>4. CASE ~Owns(p)
    <2>1. Gone(p) /\ roles' = roles /\ pc' = [pc EXCEPT ![p] = "peer"]
      BY Zenon, <1>2, <1>4 DEF CloseRole, Owns, Goto
    <2>2. Stays(p) /\ pc' \in [Participants -> Steps] /\ Holds(p)'
      BY Zenon, <1>1, <2>1, Known DEF Stays, Holds, Gone, Mine, Steps, Closing, RoleInv, RoleTypes
    <2> QED
      BY Zenon, <1>1, <2>2, Known, StaysKeeps DEF RoleInv, RoleTypes
  <1> QED
    BY Zenon, <1>3, <1>4

\* The issuer is looked at after the claim; the port is spent when it admits (AdoptCheck).
LEMMA AdoptCheckRole ==
    ASSUME RoleInv, NEW p \in alive, UNCHANGED <<alive, dead>>, AdoptCheck(p)
    PROVE  RoleInv' /\ RoleMoves(p) /\ Others(p)
  <1>1. /\ Others(p) /\ seat' = seat /\ raw' = raw /\ ports' = ports /\ roles' = roles
        /\ entry' = entry /\ members' = members /\ pc[p] = "check"
    BY Zenon, Known DEF AdoptCheck, Goto, Others, Locals, RoleInv, RoleTypes
  <1>2. Mine(p) = Word(seat[p].gen, p, FALSE) /\ seat[p] \notin used
    BY Zenon, <1>1, Known DEF Holds
  <1>3. CASE pc' = [pc EXCEPT ![p] = "undo"] /\ used' = used
    <2>1. Stays(p) /\ Walks(p) /\ pc' \in [Participants -> Steps] /\ pc'[p] = "undo"
      BY Zenon, <1>1, <1>3, Known DEF Stays, Walks, Steps, RoleInv, RoleTypes
    <2>2. Holds(p)'
      BY Zenon, <1>1, <1>2, <1>3, <2>1 DEF Holds, Mine, Closing
    <2> QED
      BY Zenon, <1>1, <2>1, <2>2, Known, StaysKeeps DEF RoleInv, RoleTypes
  <1>4. CASE pc' = [pc EXCEPT ![p] = "open"] /\ used' = used \cup {seat[p]}
    <2>1. RoleMoves(p)
      BY Zenon, <1>1 DEF RoleMoves, Advances
    <2>2. pc' \in [Participants -> Steps] /\ pc'[p] = "open"
      BY Zenon, <1>4, Known DEF RoleInv, RoleTypes, Steps
    <2>3. Attached(p) /\ entry = "published" /\ p \in members
      BY Zenon, <1>1, Known DEF RoleInv, RemovedIsAlone, Attached
    <2>5. RoleTypes'
      BY Zenon, <1>1, <1>4, <2>2, Known DEF RoleInv, RoleTypes
    <2>6. \A q \in alive : pc'[q] \notin {"create", "offer"}
      BY Zenon, <1>1, <2>2, <2>3, Known DEF RoleInv, RoleTypes, Fresh, Others
    <2>7. RemovedIsAlone' /\ Fresh' /\ Buried'
      BY Zenon, <1>1, <2>3, <2>6, Known DEF RoleInv, RoleTypes, RemovedIsAlone, Fresh, Buried,
         Attached, Others
    <2>8. Holds(p)'
      BY <1>1, <1>2, <2>2 DEF Holds, Owns, Mine, Word, Closing
    <2>9. Spent(seat[p], roles'[seat[p].index])
      BY <1>1, <1>2, Known DEF Spent, Mine, Word
    <2>10. ASSUME NEW q \in alive \ {p}, pc[q] \in {"check", "undo"} PROVE seat[q] \notin used'
      <3>1. Mine(q) = Word(seat[q].gen, q, FALSE) /\ seat[q] \notin used
        BY Zenon, <2>10, Known DEF Holds
      <3> QED
        BY <1>2, <1>4, <3>1 DEF Mine, Word
    <2> QED
      BY Zenon, <1>1, <1>4, <2>1, <2>5, <2>7, <2>8, <2>9, <2>10, Known, RoleKeeps
  <1> QED
    BY Zenon, <1>3, <1>4 DEF AdoptCheck, Goto

\* close_with releases the own role for good (CloseFinal).
LEMMA CloseFinalRole ==
    ASSUME RoleInv, NEW p \in alive, UNCHANGED <<alive, dead>>, CloseFinal(p)
    PROVE  RoleInv' /\ RoleMoves(p) /\ Others(p)
  <1>1. /\ Others(p) /\ seat' = seat /\ raw' = raw /\ ports' = ports /\ used' = used
        /\ entry' = entry /\ members' = members /\ pc[p] = "retire"
    BY Zenon, Known DEF CloseFinal, Goto, Others, Locals, History, RoleInv, RoleTypes
  <1>2. PICK w : w = Word(seat[p].gen, NoOne, TRUE)
    BY Zenon
  <1>3. Mine(p) = Word(seat[p].gen, p, TRUE)
    BY Zenon, <1>1, Known DEF Holds, Closing
  <1>4. w \in Role /\ Advances(Mine(p), w, p)
    BY <1>2, <1>3, Known DEF Word, Role, Advances
  <1>5. Stores(p, w) /\ pc' = [pc EXCEPT ![p] = "peer"]
    BY Zenon, <1>2, <1>3 DEF CloseFinal, Stores, SetRole, Goto
  <1>6. RoleMoves(p) /\ roles' \in [Sides -> Role] /\ roles'[seat[p].index] = w
    BY Zenon, <1>4, <1>5, StoresMoves
  <1>7. RoleTypes' /\ Walks(p)
    BY Zenon, <1>1, <1>5, <1>6, Known DEF RoleInv, RoleTypes, Walks, Steps
  <1>8. Holds(p)'
    BY Zenon, <1>1, <1>2, <1>5, <1>6, Known DEF Holds, Gone, Mine, Closing, RoleInv, RoleTypes
  <1> QED
    BY Zenon, <1>1, <1>6, <1>7, <1>8, Known, WalkKeeps

\* a step of close_with, or of remove after it, that leaves the roles alone
Closes(p, s) ==
    /\ pc' = [pc EXCEPT ![p] = s]
    /\ \/ pc[p] \in Closing /\ s \in Closing \cup {"open"}
       \/ pc[p] \in {"peer", "reclaim"} /\ s \in {"reclaim", "open"}
    /\ UNCHANGED <<entry, members, roles, seat, raw, ports, used>>

\* The steps of close_with and remove that touch no role word.
LEMMA ClosesRole ==
    ASSUME RoleInv, NEW p \in alive, UNCHANGED <<alive, dead>>, NEW s, Closes(p, s)
    PROVE  RoleInv' /\ RoleMoves(p) /\ Others(p)
  <1>1. /\ Others(p) /\ Walks(p) /\ Stays(p) /\ pc' \in [Participants -> Steps]
        /\ pc'[p] = s /\ raw' = raw
    BY Zenon, Known DEF Closes, Stays, Walks, Others, Steps, Closing, RoleInv, RoleTypes
  <1>2. Holds(p)'
    BY <1>1, Known DEF Closes, Holds, Owns, Gone, Mine, Word, Closing
  <1> QED
    BY Zenon, <1>1, <1>2, Known, StaysKeeps DEF RoleInv, RoleTypes

\* dir.open makes the participant a member before it claims the role (AdoptOpen).
LEMMA AdoptOpenRole ==
    ASSUME RoleInv, NEW p \in alive, UNCHANGED <<alive, dead>>, AdoptOpen(p)
    PROVE  RoleInv' /\ RoleMoves(p) /\ Others(p)
  <1>1. /\ pc[p] = "idle" /\ pc' = [pc EXCEPT ![p] = "claim"] /\ entry = "published"
        /\ members' = members \cup {p}
        /\ UNCHANGED <<entry, roles, raw, ports, used>>
    BY Zenon DEF AdoptOpen, Goto, History
  <1>2. PICK port \in ports : seat' = [seat EXCEPT ![p] = port]
    BY Zenon DEF AdoptOpen
  <1>3. Others(p) /\ RoleMoves(p) /\ pc'[p] = "claim"
    BY Zenon, <1>1, <1>2, Known DEF Others, RoleMoves, Advances, RoleInv, RoleTypes
  <1>4. RoleTypes'
    BY Zenon, <1>1, <1>2, Known DEF RoleInv, RoleTypes, Steps
  <1>5. \A q \in alive : pc'[q] \notin {"create", "offer"}
    BY Zenon, <1>1, <1>2, <1>3, Known DEF RoleInv, RoleTypes, Fresh, Others
  <1>6. RemovedIsAlone' /\ Fresh' /\ Buried'
    BY Zenon, <1>1, <1>3, <1>5, Known DEF RoleInv, RoleTypes, RemovedIsAlone, Fresh, Buried,
       Attached, Others
  <1>7. Holds(p)'
    BY Zenon, <1>3 DEF Holds, Closing
  <1>8. \A q \in alive \ {p} : pc[q] \in {"check", "undo"} => seat[q] \notin used'
    BY Zenon, <1>1 DEF RoleInv, Holds
  <1> QED
    BY Zenon, <1>1, <1>3, <1>4, <1>6, <1>7, <1>8, Known, RoleKeeps

\* p leaves: it is neither a member nor inside a call any more
Leaves(p) ==
    /\ pc[p] \notin {"idle", "create", "offer"} /\ pc' = [pc EXCEPT ![p] = "idle"]
    /\ seat' = [seat EXCEPT ![p] = NoSeat]
    /\ UNCHANGED <<roles, raw, ports, used>>
    /\ \/ entry' = entry /\ members' = members \ {p}
       \/ entry' = "removed" /\ members = {p} /\ members' = {}

\* The mapping is dropped (Unmap), or reclaimed by its only member (Reclaim).
LEMMA LeavesRole ==
    ASSUME RoleInv, NEW p \in alive, UNCHANGED <<alive, dead>>, Leaves(p)
    PROVE  RoleInv' /\ RoleMoves(p) /\ Others(p)
  <1>1. Others(p) /\ RoleMoves(p) /\ pc'[p] = "idle"
    BY Zenon, Known DEF Leaves, Others, RoleMoves, Advances, RoleInv, RoleTypes
  <1>2. RoleTypes'
    BY Known, ChannelAssumption DEF Leaves, RoleInv, RoleTypes, Steps, NoSeat, Ends, Sides
  <1>3. Attached(p) /\ entry = "published"
    BY Zenon, Known DEF RoleInv, RemovedIsAlone, Attached, Leaves
  <1>4. \A q \in alive : pc'[q] \notin {"create", "offer"}
    BY Zenon, <1>1, <1>3, Known DEF RoleInv, RoleTypes, Fresh, Others, Leaves
  <1>5. RemovedIsAlone'
    BY Zenon, <1>1, <1>3 DEF RoleInv, RoleTypes, RemovedIsAlone, Attached, Others, Leaves
  <1>6. Fresh' /\ Buried'
    BY Zenon, <1>3, <1>4 DEF RoleInv, Fresh, Buried, Leaves
  <1>7. Holds(p)'
    BY Zenon, <1>1 DEF Holds, Closing
  <1>8. \A q \in alive \ {p} : pc[q] \in {"check", "undo"} => seat[q] \notin used'
    BY Zenon DEF RoleInv, Holds, Leaves
  <1> QED
    BY Zenon, <1>1, <1>2, <1>5, <1>6, <1>7, <1>8, Known, RoleKeeps DEF Leaves

\* The layout is published before the roles are stored (Create).
LEMMA CreateRole ==
    ASSUME RoleInv, NEW p \in alive, UNCHANGED <<alive, dead>>, Create(p)
    PROVE  RoleInv' /\ RoleMoves(p) /\ Others(p)
  <1>1. /\ pc[p] = "idle" /\ pc' = [pc EXCEPT ![p] = "create"] /\ entry = "none"
        /\ entry' = "published" /\ members' = {p}
        /\ UNCHANGED <<roles, seat, raw, ports, used>>
    BY Zenon DEF Create, Goto, History, Locals
  <1>2. Others(p) /\ RoleMoves(p) /\ pc'[p] = "create"
    BY Zenon, <1>1, Known DEF Others, RoleMoves, Advances, RoleInv, RoleTypes
  <1>3. RoleTypes'
    BY Zenon, <1>1, Known DEF RoleInv, RoleTypes, Steps
  <1>4. \A q \in Participants : Attached(q)' => q = p
    BY Zenon, <1>1, <1>2 DEF RoleInv, RemovedIsAlone, Attached, Others
  <1>5. RemovedIsAlone' /\ Buried'
    BY Zenon, <1>1, <1>4 DEF RoleInv, RemovedIsAlone, Buried
  <1>9. /\ ports = {} /\ roles = [i \in Sides |-> Blank] /\ entry' # "none"
        /\ \A q \in alive : pc'[q] \in {"create", "offer"} => q = p
    BY Zenon, <1>1, <1>4, Known DEF RoleInv, RoleTypes, Fresh, Attached
  <1>10. roles'[0] = Blank /\ roles'[1] = Blank /\ ports' = {}
    BY Zenon, <1>1, <1>9 DEF Sides
  <1>6. Fresh'
    BY Zenon, <1>2, <1>4, <1>9, <1>10 DEF Fresh
  <1>7. Holds(p)'
    BY Zenon, <1>2 DEF Holds, Closing
  <1>8. \A q \in alive \ {p} : pc[q] \in {"check", "undo"} => seat[q] \notin used'
    BY Zenon, <1>1 DEF RoleInv, Holds
  <1> QED
    BY Zenon, <1>1, <1>2, <1>3, <1>5, <1>6, <1>7, <1>8, Known, RoleKeeps

\* The creator takes role 0 (CreateIssuer).
LEMMA CreateIssuerRole ==
    ASSUME RoleInv, NEW p \in alive, UNCHANGED <<alive, dead>>, CreateIssuer(p)
    PROVE  RoleInv' /\ RoleMoves(p) /\ Others(p)
  <1>1. /\ pc[p] = "create" /\ pc' = [pc EXCEPT ![p] = "offer"]
        /\ roles' = [roles EXCEPT ![0] = Word(1, p, FALSE)]
        /\ seat' = [seat EXCEPT ![p] = [index |-> 0, gen |-> 1]]
        /\ UNCHANGED <<entry, members, raw, ports, used>>
    BY Zenon DEF CreateIssuer, Goto, SetRole, History
  <1>2. Others(p) /\ pc'[p] = "offer" /\ seat'[p].index = 0 /\ seat'[p].gen = 1
    BY Zenon, <1>1, Known DEF Others, RoleInv, RoleTypes
  <1>3. roles[0] = Blank /\ roles[1] = Blank /\ ports = {} /\ \A q \in Participants : Attached(q) => q = p
    BY Zenon, <1>1, Known DEF RoleInv, Fresh
  <1>4. /\ roles'[0] = Word(1, p, FALSE) /\ roles'[1] = Blank /\ roles' \in [Sides -> Role]
        /\ RoleMoves(p)
    BY <1>1, <1>3, Known, ChannelAssumption DEF RoleInv, RoleTypes, RoleMoves, Advances, Blank,
       Word, Role, Sides
  <1>5. RoleTypes'
    <2>1. [index |-> 0, gen |-> 1] \in Ends
      BY ChannelAssumption DEF Ends, Sides
    <2>2. PICK e \in Ends : seat' = [seat EXCEPT ![p] = e]
      BY Zenon, <1>1, <2>1
    <2>3. seat' \in [Participants -> Ends]
      BY Zenon, <2>2 DEF RoleInv, RoleTypes
    <2>4. pc' \in [Participants -> Steps]
      BY Zenon, <1>1 DEF RoleInv, RoleTypes, Steps
    <2>5. UNCHANGED <<entry, members, raw, ports, used, alive, dead>>
      BY Zenon, <1>1
    <2> QED
      BY Zenon, <1>4, <2>3, <2>4, <2>5 DEF RoleInv, RoleTypes
  <1>6. Attached(p) /\ entry = "published" /\ p \in members
    BY Zenon, <1>1, Known DEF RoleInv, RemovedIsAlone, Attached
  <1>7. RemovedIsAlone' /\ Buried'
    <2>1. \A q \in Participants : Attached(q)' => Attached(q)
      BY Zenon, <1>2, <1>6 DEF Attached, Others
    <2>2. entry' = entry /\ members' = members
      BY Zenon, <1>1
    <2> QED
      BY Zenon, <2>1, <2>2 DEF RoleInv, RemovedIsAlone, Buried
  <1>8. Fresh'
    <2>1. \A q \in Participants : Attached(q)' => q = p
      BY Zenon, <1>2, <1>3, <1>6 DEF Attached, Others
    <2>2. entry' # "none" /\ ports' = {} /\ pc'[p] # "create"
      BY Zenon, <1>1, <1>2, <1>3, <1>6
    <2>3. \A q \in alive' : pc'[q] \in {"create", "offer"} => q = p
      BY Zenon, <2>1, Known DEF RoleInv, RoleTypes, Attached
    <2> QED
      BY Zenon, <1>4, <2>1, <2>2, <2>3 DEF Fresh
  <1>9. Holds(p)'
    BY Zenon, <1>2, <1>4 DEF Holds, Mine, Closing
  <1>10. \A q \in alive \ {p} : pc[q] \in {"check", "undo"} => seat[q] \notin used'
    BY Zenon, <1>1 DEF RoleInv, Holds
  <1> QED
    BY Zenon, <1>1, <1>2, <1>4, <1>5, <1>7, <1>8, <1>9, <1>10, Known, RoleKeeps

\* The creator offers role 1 and issues the first port (CreateOffer).
LEMMA CreateOfferRole ==
    ASSUME RoleInv, NEW p \in alive, UNCHANGED <<alive, dead>>, CreateOffer(p)
    PROVE  RoleInv' /\ RoleMoves(p) /\ Others(p)
  <1>1. /\ pc[p] = "offer" /\ pc' = [pc EXCEPT ![p] = "open"]
        /\ roles' = [roles EXCEPT ![1] = Word(1, NoOne, FALSE)]
        /\ UNCHANGED <<entry, members, seat, raw, used>>
    BY Zenon DEF CreateOffer, Goto, SetRole, History, Locals
  <1>2. Others(p) /\ pc'[p] = "open" /\ pc' \in [Participants -> Steps]
    BY Zenon, <1>1, Known DEF Others, RoleInv, RoleTypes, Steps
  <1>3. roles[1] = Blank /\ \A q \in Participants : Attached(q) => q = p
    BY Zenon, <1>1, Known DEF RoleInv, Fresh
  <1>4. /\ roles'[0] = roles[0] /\ roles' \in [Sides -> Role] /\ RoleMoves(p)
    BY <1>1, <1>3, ChannelAssumption DEF RoleInv, RoleTypes, RoleMoves, Advances, Blank, Word,
       Role, Sides
  <1>5. ports' \subseteq Ends
    BY ChannelAssumption DEF CreateOffer, Ends, Sides
  <1>6. RoleTypes'
    BY Zenon, <1>1, <1>2, <1>4, <1>5 DEF RoleInv, RoleTypes
  <1>7. Attached(p) /\ entry = "published" /\ p \in members
    BY Zenon, <1>1, Known DEF RoleInv, RemovedIsAlone, Attached
  <1>8. \A q \in Participants : Attached(q)' => q = p
    BY Zenon, <1>2, <1>3, <1>7 DEF Attached, Others
  <1>9. RemovedIsAlone' /\ Buried' /\ Fresh'
    BY Zenon, <1>1, <1>2, <1>7, <1>8, Known DEF RoleInv, RoleTypes, RemovedIsAlone, Buried, Fresh,
       Attached
  <1>10. Holds(p)'
    <2>1. seat[p].index = 0 /\ Mine(p) = Word(seat[p].gen, p, FALSE)
      BY Zenon, <1>1, Known DEF Holds
    <2>2. Owns(p)
      BY <2>1 DEF Owns, Word
    <2>3. Owns(p)'
      BY Zenon, <1>1, <1>4, <2>1, <2>2 DEF Owns, Mine
    <2> QED
      BY Zenon, <1>2, <2>3 DEF Holds, Closing
  <1>11. \A q \in alive \ {p} : pc[q] \in {"check", "undo"} => seat[q] \notin used'
    BY Zenon, <1>1 DEF RoleInv, Holds
  <1> QED
    BY Zenon, <1>1, <1>2, <1>4, <1>6, <1>9, <1>10, <1>11, Known, RoleKeeps

\* The death of a participant changes nothing for the others (Die).
LEMMA DieRole ==
    ASSUME RoleInv, NEW p \in Participants, Die(p)
    PROVE  RoleInv' /\ RoleMoves(p) /\ Others(p)
  <1>1. /\ p \in alive /\ alive' = alive \ {p}
        /\ pc' = [pc EXCEPT ![p] = "idle"] /\ seat' = [seat EXCEPT ![p] = NoSeat]
        /\ raw' = [raw EXCEPT ![p] = Blank]
        /\ UNCHANGED <<entry, members, roles, ports, dead, used>>
    BY Zenon DEF Die, History
  <1>2. Others(p) /\ RoleMoves(p) /\ raw'[p].owner = NoOne /\ ~raw'[p].terminal
    BY Zenon, <1>1 DEF Others, RoleMoves, Advances, Blank, Word, RoleInv, RoleTypes
  <1>3. NoSeat \in Ends /\ Blank \in Role /\ "idle" \in Steps
    BY ChannelAssumption DEF NoSeat, Ends, Sides, Blank, Word, Role, Steps
  <1>4. RoleTypes'
    BY Zenon, <1>1, <1>3 DEF RoleInv, RoleTypes
  <1>5. \A q \in Participants : Attached(q)' => Attached(q) /\ q # p /\ pc'[q] = pc[q]
    BY Zenon, <1>1, <1>2 DEF Attached, Others
  <1>6. RemovedIsAlone' /\ Buried'
    BY Zenon, <1>1, <1>5 DEF RoleInv, RemovedIsAlone, Buried
  <1>7. Fresh'
    BY Zenon, <1>1, <1>2, <1>5 DEF RoleInv, RoleTypes, Fresh, Others
  <1>8. \A q \in alive \ {p} : pc[q] \in {"check", "undo"} => seat[q] \notin used'
    BY Zenon, <1>1 DEF RoleInv, Holds
  <1> QED
    BY Zenon, <1>1, <1>2, <1>4, <1>6, <1>7, <1>8, RoleKeeps

\* Recovery touches only words that name its dead participant (ReaperStep).
LEMMA ReaperRole ==
    ASSUME RoleInv, ReaperStep
    PROVE  RoleInv' /\ \E p \in Participants : RoleMoves(p) /\ Others(p) /\ p \notin alive
  <1>1. UNCHANGED <<entry, alive, pc, seat, raw, ports, used>> /\ entry = "published"
    BY Zenon DEF ReaperStep, Locals
  <1>2. PICK who, step : dead = [who |-> who, step |-> step] /\ who \in Participants \cup {NoOne}
    BY Zenon DEF RoleInv, RoleTypes
  <1>3. who \notin alive /\ (step # "slots" => who # NoOne)
    BY Zenon, <1>2 DEF RoleInv, Buried
  <1>4. ASSUME NEW p \in Participants \ alive, RoleTypes', Buried', members \ {p} \subseteq members',
               RoleMoves(p),
               \A i \in Sides : roles[i].owner = NoOne => roles'[i] = roles[i]
        PROVE  RoleInv' /\ RoleMoves(p) /\ Others(p)
    <2>1. Others(p) /\ raw'[p].owner = NoOne /\ ~raw'[p].terminal
      BY Zenon, <1>1 DEF Others, RoleInv
    <2>2. RemovedIsAlone'
      BY Zenon, <1>1, <1>4 DEF RoleInv, RemovedIsAlone, Attached
    <2>3. Fresh'
      <3>1. Blank.owner = NoOne /\ 0 \in Sides /\ 1 \in Sides
        BY Zenon DEF Blank, Word, Sides
      <3>2. \A i \in Sides : roles[i] = Blank => roles'[i] = Blank
        BY Zenon, <1>4, <3>1
      <3>3. \A q \in Participants : Attached(q)' <=> Attached(q)
        BY Zenon, <1>1 DEF Attached
      <3> QED
        BY Zenon, <1>1, <3>1, <3>2, <3>3 DEF RoleInv, Fresh
    <2>4. \A q \in alive \ {p} : pc[q] \in {"check", "undo"} => seat[q] \notin used'
      BY Zenon, <1>1 DEF RoleInv, Holds
    <2> QED
      BY Zenon, <1>1, <1>4, <2>1, <2>2, <2>3, <2>4, RoleKeeps
  <1>5. CASE ReapStart
    <2>1. PICK p \in members \ alive : dead' = [who |-> p, step |-> "slots"]
      BY Zenon, <1>5 DEF ReapStart, Reap
    <2>2. p \in Participants \ alive /\ roles' = roles /\ members' = members
      BY Zenon, <1>5 DEF ReapStart, RoleInv, RoleTypes
    <2>3. RoleTypes' /\ Buried' /\ RoleMoves(p)
      BY Zenon, <1>1, <2>1, <2>2 DEF RoleInv, RoleTypes, Buried, ReapSteps, RoleMoves, Advances
    <2> QED
      BY Zenon, <1>4, <2>2, <2>3
  <1>6. CASE ReapSlots
    <2>1. /\ dead' = [who |-> who, step |-> "role0"] /\ who \in Participants \ alive
          /\ roles' = roles /\ members' = members
      BY Zenon, <1>2, <1>3, <1>6 DEF ReapSlots, Reap
    <2>2. RoleTypes' /\ Buried' /\ RoleMoves(who)
      BY Zenon, <1>1, <2>1, ChannelAssumption DEF RoleInv, RoleTypes, Buried, ReapSteps,
         RoleMoves, Advances
    <2> QED
      BY Zenon, <1>4, <2>1, <2>2
  <1>7. CASE ReapRole
    <2>1. PICK next \in ReapSteps : dead' = [who |-> who, step |-> next]
      BY Zenon, <1>2, <1>7 DEF ReapRole, Reap, ReapSteps
    <2>2. who \in Participants \ alive /\ who # NoOne /\ members' = members
      BY Zenon, <1>2, <1>3, <1>7, ChannelAssumption DEF ReapRole
    <2>3. PICK i \in Sides : IF roles[i].owner = who
                             THEN roles' = [roles EXCEPT ![i] = Released(roles[i])]
                             ELSE roles' = roles
      BY Zenon, <1>2, <1>7 DEF ReapRole, SetRole, Sides
    <2>4. RoleMoves(who) /\ roles' \in [Sides -> Role]
      <3>1. roles[i] \in Role
        BY Zenon DEF RoleInv, RoleTypes
      <3>2. roles[i].owner = who =>
              Released(roles[i]) \in Role /\ Advances(roles[i], Released(roles[i]), who)
        BY <2>2, <3>1, ReleasedAdvances
      <3> QED
        BY Zenon, <2>3, <3>2 DEF RoleMoves, Advances, RoleInv, RoleTypes
    <2>5. \A j \in Sides : roles[j].owner = NoOne => roles'[j] = roles[j]
      BY Zenon, <2>2, <2>3 DEF RoleInv, RoleTypes
    <2>6. RoleTypes' /\ Buried'
      BY Zenon, <1>1, <2>1, <2>2, <2>4 DEF RoleInv, RoleTypes, Buried
    <2> QED
      BY Zenon, <1>4, <2>2, <2>4, <2>5, <2>6
  <1>8. CASE ReapMember
    <2>1. /\ dead' = [who |-> NoOne, step |-> "slots"] /\ who \in Participants \ alive
          /\ roles' = roles /\ members' = members \ {who}
      BY Zenon, <1>2, <1>3, <1>8 DEF ReapMember, Reap
    <2>2. RoleTypes' /\ Buried' /\ RoleMoves(who)
      BY Zenon, <1>1, <2>1, ChannelAssumption DEF RoleInv, RoleTypes, Buried, ReapSteps,
         RoleMoves, Advances
    <2> QED
      BY Zenon, <1>4, <2>1, <2>2
  <1> QED
    BY Zenon, <1>5, <1>6, <1>7, <1>8 DEF ReaperStep
----------------------------------------------------------------------------
(* Rings.                                                                  *)

\* what a step of p, or the recovery of p, may do to a direction
Flows(d, p) ==
    /\ Drained(d) => Drained(d)'
    /\ lifecycle["recv"][d] = 3 => lifecycle'["recv"][d] = 3
    /\ slot[d].owner \notin {p, NoOne} => slot'[d] = slot[d]
    /\ Named(slot'[d]) /\ Gated(d)'

RingMoves(p) ==
    /\ \A d \in Sides : Flows(d, p)
    /\ \A q \in Participants \ {p} : at'[q] = at[q]

\* A step of p keeps what is said of the others' removals.
LEMMA RingKeeps ==
    ASSUME RoleInv, RingInv, NEW p \in Participants, RoleMoves(p), Others(p), RingMoves(p),
           alive' \subseteq alive, RingTypes', p \in alive' => Phase(p)',
           count'.published = count'.settled + Load(0)' + Load(1)',
           entry' = "removed" => entry = "removed" \/ Sealed'
    PROVE  RingInv'
  <1>1. Sealed => Sealed'
    BY Zenon DEF Sealed, RingMoves, Flows
  <1>2. ASSUME NEW q \in alive' PROVE Phase(q)'
    <2>1. CASE q = p
      BY Zenon, <2>1
    <2>2. CASE q # p
      <3>1. q \in alive \ {p} /\ q \in Participants /\ q # NoOne /\ Phase(q)
        BY Zenon, <2>2, Known DEF RingInv
      <3>2. pc'[q] = pc[q] /\ seat'[q] = seat[q] /\ at'[q] = at[q] /\ at[q] \in Sides
        BY Zenon, <3>1 DEF Others, RingMoves, RingInv, RingTypes
      <3>3. pc[q] \in {"open", "invite"} /\ Gone(q)' => Gone(q)
        BY Zenon, <3>1, <3>2, OthersKeep DEF Gone, Mine
      <3>4. pc[q] = "release" => slot'[at[q]] = slot[at[q]]
        BY <3>1, <3>2 DEF Phase, RingMoves, Flows
      <3>5. (Drained(0) => Drained(0)') /\ (Drained(1) => Drained(1)')
        BY Zenon DEF RingMoves, Flows, Sides
      <3>6. lifecycle["recv"][0] = 3 => lifecycle'["recv"][0] = 3
        BY Zenon DEF RingMoves, Flows, Sides
      <3> QED
        BY Zenon, <1>1, <3>1, <3>2, <3>3, <3>4, <3>5, <3>6 DEF Phase
    <2> QED
      BY Zenon, <2>1, <2>2
  <1>3. \A d \in Sides : Named(slot'[d]) /\ Gated(d)'
    BY Zenon DEF RingMoves, Flows
  <1> QED
    BY Zenon, <1>1, <1>2, <1>3 DEF RingInv

\* Steps that leave the rings and the counters alone.
LEMMA RingRests ==
    ASSUME RoleInv, RingInv, NEW p \in Participants, RoleMoves(p), Others(p), alive' \subseteq alive,
           UNCHANGED <<lifecycle, slot, count>>, at' \in [Participants -> Sides],
           \A q \in Participants \ {p} : at'[q] = at[q], p \in alive' => Phase(p)',
           entry' = "removed" => entry = "removed" \/ Sealed
    PROVE  RingInv'
  <1>1. RingMoves(p)
    BY Zenon DEF RingMoves, Flows, Drained, Gated, RingInv
  <1>2. RingTypes' /\ count'.published = count'.settled + Load(0)' + Load(1)'
    BY Zenon DEF RingInv, RingTypes, Load, Weight
  <1>3. Sealed' <=> Sealed
    BY Zenon DEF Sealed
  <1> QED
    BY Zenon, <1>1, <1>2, <1>3, RingKeeps

\* the slot of direction d becomes w
Puts(d, w, p) ==
    /\ slot' = [slot EXCEPT ![d] = w] /\ lifecycle' = lifecycle
    /\ slot[d].owner \in {p, NoOne} /\ Named(w)
    /\ lifecycle["send"][d] = 3 => w.is \in {"empty", "consumer"}
    /\ lifecycle["recv"][d] # 3

\* the counters follow
Counts(old, new) ==
    /\ count' \in [published : Nat, settled : Nat]
    /\ count'.published + count.settled + Weight(old) = count.published + count'.settled + Weight(new)

\* A new word in one slot leaves the other direction alone, and the published transfers
\* stay the settled ones and those under way.
LEMMA PutsMoves ==
    ASSUME RingInv, NEW p, NEW d \in Sides, NEW w \in Slot, Puts(d, w, p), Counts(slot[d], w)
    PROVE  /\ \A e \in Sides : Flows(e, p)
           /\ slot' \in [Sides -> Slot] /\ slot'[d] = w
           /\ count'.published = count'.settled + Load(0)' + Load(1)'
           /\ Sealed' <=> Sealed
  <1>1. slot' \in [Sides -> Slot] /\ slot'[d] = w /\ \A e \in Sides \ {d} : slot'[e] = slot[e]
    BY Zenon DEF Puts, RingInv, RingTypes
  <1>2. ASSUME NEW e \in Sides PROVE Flows(e, p)
    <2>1. CASE e = d
      BY Zenon, <1>1, <2>1 DEF Puts, Flows, Drained, Gated, Producer, RingInv
    <2>2. CASE e # d
      BY Zenon, <1>1, <2>2 DEF Puts, Flows, Drained, Gated, RingInv
    <2> QED
      BY Zenon, <2>1, <2>2
  <1>3. count'.published = count'.settled + Load(0)' + Load(1)'
    <2>1. /\ count.published \in Nat /\ count.settled \in Nat
          /\ count'.published \in Nat /\ count'.settled \in Nat
          /\ count.published = count.settled + Weight(slot[0]) + Weight(slot[1])
      BY Zenon DEF Counts, RingInv, RingTypes, Load
    <2>2. Weight(slot[0]) \in Nat /\ Weight(slot[1]) \in Nat /\ Weight(w) \in Nat
      BY Zenon DEF Weight
    <2>3. d = 0 \/ d = 1
      BY Zenon DEF Sides
    <2>4. CASE d = 0
      <3>1. Load(0)' = Weight(w) /\ Load(1)' = Weight(slot[1])
        BY Zenon, <1>1, <2>4 DEF Load, Weight, Sides
      <3> QED
        BY <2>1, <2>2, <2>4, <3>1 DEF Counts
    <2>5. CASE d = 1
      <3>1. Load(1)' = Weight(w) /\ Load(0)' = Weight(slot[0])
        BY Zenon, <1>1, <2>5 DEF Load, Weight, Sides
      <3> QED
        BY <2>1, <2>2, <2>5, <3>1 DEF Counts
    <2> QED
      BY Zenon, <2>3, <2>4, <2>5
  <1> QED
    BY Zenon, <1>1, <1>2, <1>3 DEF Puts, Sealed

\* A step of p that changes one slot.
LEMMA PutsKeeps ==
    ASSUME RoleInv, RingInv, NEW p \in alive, RoleMoves(p), Others(p),
           NEW d \in Sides, NEW w \in Slot, Puts(d, w, p), Counts(slot[d], w),
           UNCHANGED <<entry, alive>>, at' \in [Participants -> Sides],
           \A q \in Participants \ {p} : at'[q] = at[q], Phase(p)'
    PROVE  RingInv'
  <1>1. /\ \A e \in Sides : Flows(e, p)
        /\ slot' \in [Sides -> Slot]
        /\ count'.published = count'.settled + Load(0)' + Load(1)'
    BY Zenon, PutsMoves
  <1>2. RingTypes' /\ RingMoves(p)
    BY Zenon, <1>1 DEF RingTypes, RingInv, RingMoves, Puts, Counts
  <1> QED
    BY Zenon, <1>1, <1>2, Known, RingKeeps


Cell(is, p, held) == [is |-> is, owner |-> p, held |-> held]

\* The slots that steps leave behind are well formed.
LEMMA Cells ==
    /\ \A p \in Participants, held \in BOOLEAN, is \in Producer \cup {"consumer"} :
         /\ Cell(is, p, held) \in Slot /\ Named(Cell(is, p, held)) /\ Cell(is, p, held).is = is
         /\ Weight(Cell(is, p, held)) = IF is = "consumer" THEN 1 ELSE 0
    /\ \A is \in {"empty", "full", "skipped"} :
         /\ Cell(is, NoOne, FALSE) \in Slot /\ Named(Cell(is, NoOne, FALSE))
         /\ Cell(is, NoOne, FALSE).is = is
         /\ Weight(Cell(is, NoOne, FALSE)) = IF is = "full" THEN 1 ELSE 0
  BY ChannelAssumption DEF Cell, Slot, SlotStates, Named, Weight, Producer

\* p may put w into the slot of d, as a sender or as a receiver
SendsInto(d, w, p) ==
    /\ slot' = [slot EXCEPT ![d] = w] /\ Named(w)
    /\ \/ slot[d].is \in Producer /\ slot[d].owner = p
       \/ slot[d].is = "empty" /\ OpenBoth(d)
    /\ \/ count' = count /\ Weight(w) = 0
       \/ count' = [count EXCEPT !.published = @ + 1] /\ Weight(w) = 1

TakesFrom(d, w, p) ==
    /\ slot' = [slot EXCEPT ![d] = w] /\ Named(w) /\ w.is \in {"empty", "consumer"}
    /\ slot[d].is \in {"full", "skipped"} \/ (slot[d].is = "consumer" /\ slot[d].owner = p)
    /\ \/ count' = count /\ Weight(w) = Weight(slot[d])
       \/ /\ count' = [count EXCEPT !.settled = @ + 1]
          /\ Weight(slot[d]) = 1 /\ Weight(w) = 0

\* A sender's slot is its own, or it is empty and the direction is open.
LEMMA SendPuts ==
    ASSUME RingInv, NEW p \in Participants, NEW d \in Sides, NEW w \in Slot,
           SendsInto(d, w, p), lifecycle' = lifecycle
    PROVE  Puts(d, w, p) /\ Counts(slot[d], w)
  <1>1. /\ slot[d] \in Slot /\ Named(slot[d]) /\ Gated(d)
        /\ count \in [published : Nat, settled : Nat]
    BY Zenon DEF RingInv, RingTypes
  <1>2. slot[d].owner \in {p, NoOne} /\ Weight(slot[d]) = 0
    BY Zenon, <1>1 DEF SendsInto, Named, Weight, Producer
  <1>3. lifecycle["send"][d] # 3 /\ lifecycle["recv"][d] # 3
    BY <1>1 DEF SendsInto, Gated, OpenBoth, Producer
  <1>4. Counts(slot[d], w)
    BY <1>1, <1>2 DEF SendsInto, Counts
  <1> QED
    BY Zenon, <1>2, <1>3, <1>4 DEF SendsInto, Puts

\* A receiver's slot is not closed, and carries a transfer or was cancelled.
LEMMA ReceivePuts ==
    ASSUME RingInv, NEW p \in Participants, NEW d \in Sides, NEW w \in Slot,
           TakesFrom(d, w, p), lifecycle' = lifecycle
    PROVE  Puts(d, w, p) /\ Counts(slot[d], w)
  <1>1. /\ slot[d] \in Slot /\ Named(slot[d]) /\ Gated(d)
        /\ count \in [published : Nat, settled : Nat]
    BY Zenon DEF RingInv, RingTypes
  <1>2. slot[d].owner \in {p, NoOne} /\ Weight(slot[d]) \in Nat
    BY Zenon, <1>1 DEF TakesFrom, Named, Weight
  <1>3. lifecycle["recv"][d] # 3
    BY Zenon, <1>1 DEF TakesFrom, Gated
  <1>4. Counts(slot[d], w)
    BY <1>1, <1>2 DEF TakesFrom, Counts
  <1> QED
    BY Zenon, <1>2, <1>3, <1>4 DEF TakesFrom, Puts

\* Transfers change one slot, and nothing of the roles (Reserve to Finish).
LEMMA TransferSteps ==
    ASSUME RoleInv, RingInv, NEW p \in alive, Transfer(p)
    PROVE  RoleInv' /\ RingInv' /\ RoleMoves(p) /\ Others(p)
  <1>0. /\ p \in Participants /\ Sends(p) \in Sides /\ Receives(p) \in Sides
        /\ \A d \in Sides : slot[d] \in Slot /\ Named(slot[d])
    BY Zenon, Known DEF Sends, Receives, RingInv, RingTypes
  <1>1. /\ pc[p] = "open" /\ pc' = pc
        /\ UNCHANGED <<entry, members, roles, alive, seat, raw, ports, dead, used, lifecycle, at>>
    BY Zenon DEF Transfer, Uses, Reserve, ReserveAdmit, ReserveCommit, Publish, Claim, Finish,
       Locals, History
  <1>2. RoleInv' /\ RoleMoves(p) /\ Others(p)
    <2>1. RoleTypes' /\ Buried' /\ RemovedIsAlone' /\ Fresh'
      BY Zenon, <1>1 DEF RoleInv, RoleTypes, Buried, RemovedIsAlone, Fresh, Attached
    <2>2. \A q \in alive' : Holds(q)'
      BY Zenon, <1>1 DEF RoleInv, Holds, Owns, Gone, Mine
    <2>3. RoleMoves(p) /\ Others(p)
      BY Zenon, <1>1 DEF RoleMoves, Advances, Others
    <2> QED
      BY Zenon, <1>1, <2>1, <2>2, <2>3 DEF RoleInv
  <1>3. ASSUME NEW d \in Sides, NEW w \in Slot, Puts(d, w, p) /\ Counts(slot[d], w)
        PROVE  RingInv'
    <2>1. Sealed' <=> Sealed
      BY Zenon, <1>3, PutsMoves
    <2>2. Phase(p) /\ (Gone(p)' <=> Gone(p))
      BY Zenon, <1>1 DEF RingInv, Gone, Mine
    <2>3. Phase(p)'
      BY Zenon, <1>1, <2>1, <2>2 DEF Phase
    <2>4. at' \in [Participants -> Sides]
      BY Zenon, <1>1 DEF RingInv, RingTypes
    <2> QED
      BY Zenon, <1>1, <1>2, <1>3, <2>3, <2>4, PutsKeeps
  <1> SUFFICES RingInv'
    BY Zenon, <1>2
  <1>4. ASSUME NEW d \in Sides, NEW w \in Slot, SendsInto(d, w, p) \/ TakesFrom(d, w, p)
        PROVE  RingInv'
    BY Zenon, <1>0, <1>1, <1>3, <1>4, SendPuts, ReceivePuts
  <1>5. CASE Reserve(p)
    <2>1. PICK w : w = Cell("owning", p, TRUE)
      BY Zenon
    <2>2. w \in Slot /\ Named(w) /\ Weight(w) = 0
      BY Zenon, <1>0, <2>1, Cells DEF Producer
    <2>3. /\ slot' = [slot EXCEPT ![Sends(p)] = w] /\ count' = count
          /\ slot[Sends(p)].is = "empty" /\ OpenBoth(Sends(p))
      BY Zenon, <1>5, <2>1 DEF Reserve, SetSlot, Cell, History
    <2>4. SendsInto(Sends(p), w, p)
      BY Zenon, <2>2, <2>3 DEF SendsInto
    <2> QED
      BY Zenon, <1>0, <1>4, <2>2, <2>4
  <1>6. CASE ReserveAdmit(p)
    <2>1. PICK w : w = IF OpenBoth(Sends(p)) THEN Cell("admitted", p, TRUE)
                       ELSE Cell("empty", NoOne, FALSE)
      BY Zenon
    <2>2. w \in Slot /\ Named(w) /\ Weight(w) = 0
      BY Zenon, <1>0, <2>1, Cells DEF Producer
    <2>3. /\ slot' = [slot EXCEPT ![Sends(p)] = w] /\ count' = count
          /\ slot[Sends(p)].is = "owning" /\ slot[Sends(p)].owner = p
      BY Zenon, <1>6, <2>1 DEF ReserveAdmit, SetSlot, Cell, History
    <2>4. SendsInto(Sends(p), w, p)
      BY Zenon, <2>2, <2>3 DEF SendsInto, Producer
    <2> QED
      BY Zenon, <1>0, <1>4, <2>2, <2>4
  <1>7. CASE ReserveCommit(p)
    <2>1. PICK w : w = Cell("reserved", p, TRUE)
      BY Zenon
    <2>2. w \in Slot /\ Named(w) /\ Weight(w) = 0
      BY Zenon, <1>0, <2>1, Cells DEF Producer
    <2>3. /\ slot' = [slot EXCEPT ![Sends(p)] = w] /\ count' = count
          /\ slot[Sends(p)].is = "admitted" /\ slot[Sends(p)].owner = p
      BY Zenon, <1>7, <2>1 DEF ReserveCommit, SetSlot, Cell, History
    <2>4. SendsInto(Sends(p), w, p)
      BY Zenon, <2>2, <2>3 DEF SendsInto, Producer
    <2> QED
      BY Zenon, <1>0, <1>4, <2>2, <2>4
  <1>8. CASE Publish(p)
    <2>1. PICK v, w : v = Cell("full", NoOne, FALSE) /\ w = Cell("skipped", NoOne, FALSE)
      BY Zenon
    <2>2. v \in Slot /\ Named(v) /\ Weight(v) = 1 /\ w \in Slot /\ Named(w) /\ Weight(w) = 0
      BY Zenon, <2>1, Cells
    <2>3. slot[Sends(p)].is = "reserved" /\ slot[Sends(p)].owner = p
      BY <1>8 DEF Publish
    <2>4. \/ slot' = [slot EXCEPT ![Sends(p)] = v] /\ count' = [count EXCEPT !.published = @ + 1]
          \/ slot' = [slot EXCEPT ![Sends(p)] = w] /\ count' = count
      BY Zenon, <1>8, <2>1 DEF Publish, SetSlot, Cell
    <2>5. SendsInto(Sends(p), v, p) \/ SendsInto(Sends(p), w, p)
      BY Zenon, <2>2, <2>3, <2>4 DEF SendsInto, Producer
    <2> QED
      BY Zenon, <1>0, <1>4, <2>2, <2>5
  <1>9. CASE Claim(p)
    <2>1. PICK v, w : v = Cell("consumer", p, TRUE) /\ w = Cell("empty", NoOne, FALSE)
      BY Zenon
    <2>2. /\ v \in Slot /\ Named(v) /\ Weight(v) = 1 /\ v.is = "consumer"
          /\ w \in Slot /\ Named(w) /\ Weight(w) = 0 /\ w.is = "empty"
      BY Zenon, <1>0, <2>1, Cells DEF Producer
    <2>3. /\ count' = count
          /\ \/ slot' = [slot EXCEPT ![Receives(p)] = v] /\ slot[Receives(p)].is = "full"
             \/ slot' = [slot EXCEPT ![Receives(p)] = w] /\ slot[Receives(p)].is = "skipped"
      BY Zenon, <1>9, <2>1 DEF Claim, SetSlot, Cell, History
    <2>4. TakesFrom(Receives(p), v, p) \/ TakesFrom(Receives(p), w, p)
      BY Zenon, <2>2, <2>3 DEF TakesFrom, Weight
    <2> QED
      BY Zenon, <1>0, <1>4, <2>2, <2>4
  <1>10. CASE Finish(p)
    <2>1. PICK v, w : v = Cell("consumer", p, FALSE) /\ w = Cell("empty", NoOne, FALSE)
      BY Zenon
    <2>2. /\ v \in Slot /\ Named(v) /\ Weight(v) = 1 /\ v.is = "consumer"
          /\ w \in Slot /\ Named(w) /\ Weight(w) = 0 /\ w.is = "empty"
      BY Zenon, <1>0, <2>1, Cells DEF Producer
    <2>3. slot[Receives(p)].is = "consumer" /\ slot[Receives(p)].owner = p
      BY <1>10 DEF Finish
    <2>4. \/ slot' = [slot EXCEPT ![Receives(p)] = w] /\ count' = [count EXCEPT !.settled = @ + 1]
          \/ slot' = [slot EXCEPT ![Receives(p)] = v] /\ count' = count
      BY Zenon, <1>10, <2>1 DEF Finish, SetSlot, Cell
    <2>5. TakesFrom(Receives(p), v, p) \/ TakesFrom(Receives(p), w, p)
      BY Zenon, <2>2, <2>3, <2>4 DEF TakesFrom, Weight
    <2> QED
      BY Zenon, <1>0, <1>4, <2>2, <2>5
  <1> QED
    BY Zenon, <1>2, <1>5, <1>6, <1>7, <1>8, <1>9, <1>10 DEF Transfer

\* what fetch_or makes of a lifecycle field
Or(old, bits) == IF bits = 3 THEN 3 ELSE IF old = 0 THEN 1 ELSE old

\* fetch_or on one lifecycle field leaves the other fields alone (Set).
LEMMA SetField ==
    ASSUME RingInv, NEW f \in {"send", "recv"}, NEW d \in Sides, NEW bits \in {1, 3}, Set(f, d, bits)
    PROVE  /\ lifecycle' \in [{"send", "recv"} -> [Sides -> {0, 1, 3}]]
           /\ lifecycle'[f][d] = Or(lifecycle[f][d], bits)
           /\ \A e \in Sides \ {d} : lifecycle'[f][e] = lifecycle[f][e]
           /\ \A g \in {"send", "recv"} \ {f} : lifecycle'[g] = lifecycle[g]
  <1>1. PICK row : row = lifecycle[f]
    BY Zenon
  <1>2. row \in [Sides -> {0, 1, 3}] /\ Or(row[d], bits) \in {0, 1, 3}
    BY Zenon, <1>1 DEF RingInv, RingTypes, Or
  <1>3. PICK new : new = [row EXCEPT ![d] = Or(row[d], bits)]
    BY Zenon
  <1>4. new \in [Sides -> {0, 1, 3}] /\ new[d] = Or(row[d], bits) /\ \A e \in Sides \ {d} : new[e] = row[e]
    BY Zenon, <1>2, <1>3
  <1>5. lifecycle' = [lifecycle EXCEPT ![f] = new]
    BY Zenon, <1>1, <1>3 DEF Set, Or
  <1> QED
    BY Zenon, <1>1, <1>4, <1>5 DEF RingInv, RingTypes

\* A step of p that changes lifecycle fields and no slot.
LEMMA GatesKeep ==
    ASSUME RoleInv, RingInv, NEW p \in alive, RoleMoves(p), Others(p),
           UNCHANGED <<entry, alive, slot, count>>,
           lifecycle' \in [{"send", "recv"} -> [Sides -> {0, 1, 3}]],
           \A d \in Sides : /\ lifecycle["send"][d] = 3 => lifecycle'["send"][d] = 3
                            /\ lifecycle["recv"][d] = 3 => lifecycle'["recv"][d] = 3
                            /\ Gated(d)',
           at' \in [Participants -> Sides], \A q \in Participants \ {p} : at'[q] = at[q], Phase(p)'
    PROVE  RingInv'
  <1>1. RingMoves(p)
    BY Zenon DEF RingMoves, Flows, Drained, RingInv
  <1>2. RingTypes' /\ count'.published = count'.settled + Load(0)' + Load(1)'
    BY Zenon DEF RingInv, RingTypes, Load, Weight
  <1> QED
    BY Zenon, <1>1, <1>2, Known, RingKeeps

\* what the removal of p has to do with its own role and direction
LEMMA Removing ==
    ASSUME RoleInv, RingInv, NEW p \in alive
    PROVE  /\ p \in Participants /\ p # NoOne /\ at[p] \in Sides /\ Phase(p)
           /\ slot[at[p]] \in Slot /\ Named(slot[at[p]]) /\ Gated(at[p])
           /\ pc[p] \in Closing => ~Gone(p)
  BY Known DEF RingInv, RingTypes, Holds, Gone, Word

\* p moves on to step s, or gets the channel back
Turns(p, s, e) ==
    /\ pc' = [pc EXCEPT ![p] = s] /\ at' = [at EXCEPT ![p] = e] /\ e \in Sides
    /\ pc[p] \in Closing /\ s \in Closing \cup {"open"}
    /\ UNCHANGED <<entry, members, roles, seat, raw, ports, used, alive, dead>>

\* A step of close_with before its role is retired: the role is still held.
LEMMA TurnsKeeps ==
    ASSUME RoleInv, RingInv, NEW p \in alive, NEW s, NEW e, Turns(p, s, e)
    PROVE  /\ RoleInv' /\ RoleMoves(p) /\ Others(p)
           /\ pc'[p] = s /\ at'[p] = e /\ at' \in [Participants -> Sides]
           /\ \A q \in Participants \ {p} : at'[q] = at[q]
           /\ entry' = entry /\ alive' = alive /\ ~Gone(p)'
  <1>1. RoleInv' /\ RoleMoves(p) /\ Others(p)
    BY Zenon, ClosesRole DEF Turns, Closes
  <1>2. ~Gone(p)'
    BY Zenon, Removing DEF Turns, Gone, Mine
  <1> QED
    BY Zenon, <1>1, <1>2, Known DEF Turns, RoleInv, RoleTypes, RingInv, RingTypes

\* close_send marks a direction; a direction whose senders are gone stays so (CloseSend).
LEMMA CloseSendStep ==
    ASSUME RoleInv, RingInv, NEW p \in alive, UNCHANGED <<alive, dead>>, CloseSend(p)
    PROVE  RoleInv' /\ RingInv' /\ RoleMoves(p) /\ Others(p)
  <1>1. PICK s \in {"stop", "drain"} :
          Turns(p, s, 1 - at[p]) /\ (at[p] = 0 => s = "stop") /\ (at[p] = 1 => s = "drain")
    <2>1. pc[p] = "stop" /\ at' = [at EXCEPT ![p] = 1 - at[p]] /\ 1 - at[p] \in Sides
      BY Removing DEF CloseSend, Turn, Goto, Sides
    <2>2. UNCHANGED <<entry, members, roles, seat, raw, ports, used, alive, dead>>
      BY Zenon DEF CloseSend, History
    <2>3. at[p] = 0 \/ at[p] = 1
      BY Zenon, Removing DEF Sides
    <2>4. CASE at[p] = 0
      BY <2>1, <2>2, <2>4 DEF CloseSend, Turn, Goto, Turns, Closing
    <2>5. CASE at[p] = 1
      BY <2>1, <2>2, <2>5 DEF CloseSend, Turn, Goto, Turns, Closing
    <2> QED
      BY Zenon, <2>3, <2>4, <2>5
  <1>2. Set("send", at[p], 1) /\ slot' = slot /\ count' = count
    BY Zenon DEF CloseSend, History
  <1>3. at[p] = 1 => 1 - at[p] = 0
    OBVIOUS
  <1>4. Phase(p)'
    BY <1>1, <1>3, TurnsKeeps, Removing DEF Phase, Sides
  <1>5. /\ lifecycle' \in [{"send", "recv"} -> [Sides -> {0, 1, 3}]]
        /\ lifecycle'["send"][at[p]] = Or(lifecycle["send"][at[p]], 1)
        /\ \A e \in Sides \ {at[p]} : lifecycle'["send"][e] = lifecycle["send"][e]
        /\ lifecycle'["recv"] = lifecycle["recv"]
    BY Zenon, <1>2, Removing, SetField
  <1>6. \A d \in Sides : /\ lifecycle["send"][d] = 3 <=> lifecycle'["send"][d] = 3
                         /\ lifecycle["recv"][d] = 3 <=> lifecycle'["recv"][d] = 3
                         /\ Gated(d)'
    BY <1>2, <1>5 DEF Or, Gated, RingInv
  <1> QED
    BY Zenon, <1>1, <1>2, <1>4, <1>5, <1>6, TurnsKeeps, GatesKeep

\* remove is refused, or the direction is empty: no ring changes (DrainBusy, DrainEmpty).
LEMMA DrainRests ==
    ASSUME RoleInv, RingInv, NEW p \in alive, UNCHANGED <<alive, dead>>,
           DrainBusy(p) \/ DrainEmpty(p)
    PROVE  RoleInv' /\ RingInv' /\ RoleMoves(p) /\ Others(p)
  <1>1. PICK s, e : /\ Turns(p, s, e) /\ pc[p] = "drain"
                    /\ s = "open" \/ (s = "sent" /\ e = at[p])
    <2>1. DrainEmpty(p) => at' = [at EXCEPT ![p] = at[p]]
      BY Zenon DEF DrainEmpty, Locals, RingInv, RingTypes
    <2> QED
      BY Zenon, <2>1, Removing
      DEF DrainBusy, DrainEmpty, Back, Goto, Turns, Closing, Sides, Locals, History
  <1>2. UNCHANGED <<lifecycle, slot, count>>
    BY Zenon DEF DrainBusy, DrainEmpty, Rings, History
  <1>3. Phase(p)'
    BY <1>1, <1>2, TurnsKeeps, Removing DEF Phase, Drained
  <1> QED
    BY Zenon, <1>1, <1>2, <1>3, TurnsKeeps, RingRests, Known

\* close_with claims what is left, or recycles a cancelled position (DrainClaim).
LEMMA DrainClaimStep ==
    ASSUME RoleInv, RingInv, NEW p \in alive, UNCHANGED <<alive, dead>>, DrainClaim(p)
    PROVE  RoleInv' /\ RingInv' /\ RoleMoves(p) /\ Others(p)
  <1>0. PICK d \in Sides : d = at[p]
    BY Zenon, Removing
  <1>1. PICK v, w : v = Cell("consumer", p, TRUE) /\ w = Cell("empty", NoOne, FALSE)
    BY Zenon
  <1>2. /\ v \in Slot /\ Named(v) /\ Weight(v) = 1 /\ v.is = "consumer"
        /\ w \in Slot /\ Named(w) /\ Weight(w) = 0 /\ w.is = "empty"
    BY Zenon, <1>1, Removing, Cells DEF Producer
  <1>3. count' = count /\ lifecycle' = lifecycle
    BY Zenon DEF DrainClaim, History
  <1>4. CASE slot[d].is = "full"
    <2>1. Turns(p, "release", d) /\ pc[p] = "drain" /\ slot' = [slot EXCEPT ![d] = v]
      <3>1. at' = [at EXCEPT ![p] = at[p]]
        BY Zenon, <1>0, <1>4 DEF DrainClaim, RingInv, RingTypes
      <3> QED
        BY Zenon, <1>0, <1>1, <1>4, <3>1 DEF DrainClaim, Goto, SetSlot, Cell, Turns, Closing,
           History
    <2>2. TakesFrom(d, v, p)
      BY Zenon, <1>2, <1>3, <1>4, <2>1 DEF TakesFrom, Weight
    <2>3. Puts(d, v, p) /\ Counts(slot[d], v)
      BY Zenon, <1>2, <1>3, <2>2, Removing, ReceivePuts
    <2>4. (\A e \in Sides : Flows(e, p)) /\ slot'[d] = v
      BY Zenon, <1>2, <2>3, PutsMoves
    <2>5. Phase(p)'
      BY <1>0, <1>1, <2>1, <2>4, TurnsKeeps, Removing DEF Phase, Cell, Flows, Sides
    <2> QED
      BY Zenon, <1>2, <2>1, <2>3, <2>5, TurnsKeeps, PutsKeeps
  <1>5. CASE slot[d].is # "full"
    <2>1. Turns(p, "open", 0) /\ slot' = [slot EXCEPT ![d] = w] /\ slot[d].is = "skipped"
      BY Zenon, <1>0, <1>1, <1>5 DEF DrainClaim, Back, Goto, SetSlot, Cell, Turns, Closing, Sides,
         History
    <2>2. TakesFrom(d, w, p)
      BY Zenon, <1>2, <1>3, <2>1 DEF TakesFrom, Weight
    <2>3. Puts(d, w, p) /\ Counts(slot[d], w)
      BY Zenon, <1>2, <1>3, <2>2, Removing, ReceivePuts
    <2>4. Phase(p)'
      BY <2>1, TurnsKeeps DEF Phase
    <2> QED
      BY Zenon, <1>2, <2>1, <2>3, <2>4, TurnsKeeps, PutsKeeps
  <1> QED
    BY Zenon, <1>4, <1>5

\* The claim of close_with is released, or kept when release_token fails (DrainRelease).
LEMMA DrainReleaseStep ==
    ASSUME RoleInv, RingInv, NEW p \in alive, UNCHANGED <<alive, dead>>, DrainRelease(p)
    PROVE  RoleInv' /\ RingInv' /\ RoleMoves(p) /\ Others(p)
  <1>0. PICK d \in Sides : d = at[p]
    BY Zenon, Removing
  <1>1. PICK v, w : v = Cell("consumer", p, FALSE) /\ w = Cell("empty", NoOne, FALSE)
    BY Zenon
  <1>2. /\ v \in Slot /\ Named(v) /\ Weight(v) = 1 /\ v.is = "consumer"
        /\ w \in Slot /\ Named(w) /\ Weight(w) = 0 /\ w.is = "empty"
    BY Zenon, <1>1, Removing, Cells DEF Producer
  <1>3. pc[p] = "release" /\ lifecycle' = lifecycle
    BY Zenon DEF DrainRelease, Goto, Back
  <1>4. slot[d].is = "consumer" /\ slot[d].owner = p /\ Weight(slot[d]) = 1
    <2>1. slot[d] = [is |-> "consumer", owner |-> p, held |-> TRUE]
      BY Zenon, <1>0, <1>3, Removing DEF Phase
    <2> QED
      BY <2>1 DEF Weight
  <1>5. \/ /\ pc' = [pc EXCEPT ![p] = "drain"] /\ at' = at /\ slot' = [slot EXCEPT ![d] = w]
           /\ count' = [count EXCEPT !.settled = @ + 1]
        \/ /\ pc' = [pc EXCEPT ![p] = "open"] /\ at' = [at EXCEPT ![p] = 0]
           /\ slot' = [slot EXCEPT ![d] = v] /\ count' = count
    BY Zenon, <1>0, <1>1 DEF DrainRelease, Goto, Back, SetSlot, Cell
  <1>6. UNCHANGED <<entry, members, roles, seat, raw, ports, used, alive, dead>>
    BY Zenon DEF DrainRelease
  <1>7. CASE slot' = [slot EXCEPT ![d] = w] /\ pc' = [pc EXCEPT ![p] = "drain"] /\ at' = at
             /\ count' = [count EXCEPT !.settled = @ + 1]
    <2>1. Turns(p, "drain", d)
      BY Zenon, <1>0, <1>3, <1>6, <1>7 DEF Turns, Closing, RingInv, RingTypes
    <2>2. TakesFrom(d, w, p)
      BY Zenon, <1>2, <1>4, <1>7 DEF TakesFrom
    <2>3. Puts(d, w, p) /\ Counts(slot[d], w)
      BY Zenon, <1>2, <1>3, <2>2, Removing, ReceivePuts
    <2>4. \A e \in Sides : Flows(e, p)
      BY Zenon, <1>2, <2>3, PutsMoves
    <2>5. Phase(p)'
      BY <1>0, <1>3, <2>1, <2>4, TurnsKeeps, Removing DEF Phase, Flows, Sides
    <2> QED
      BY Zenon, <1>2, <2>1, <2>3, <2>5, TurnsKeeps, PutsKeeps
  <1>8. CASE slot' = [slot EXCEPT ![d] = v] /\ pc' = [pc EXCEPT ![p] = "open"]
             /\ at' = [at EXCEPT ![p] = 0] /\ count' = count
    <2>1. Turns(p, "open", 0)
      BY Zenon, <1>3, <1>6, <1>8 DEF Turns, Closing, Sides
    <2>2. TakesFrom(d, v, p)
      BY Zenon, <1>2, <1>4, <1>8 DEF TakesFrom
    <2>3. Puts(d, v, p) /\ Counts(slot[d], v)
      BY Zenon, <1>2, <1>3, <2>2, Removing, ReceivePuts
    <2>4. Phase(p)'
      BY <2>1, TurnsKeeps DEF Phase
    <2> QED
      BY Zenon, <1>2, <2>1, <2>3, <2>4, TurnsKeeps, PutsKeeps
  <1> QED
    BY Zenon, <1>5, <1>7, <1>8

\* send_closed and is_empty: a direction that passes is drained for good (DrainDone).
LEMMA DrainDoneStep ==
    ASSUME RoleInv, RingInv, NEW p \in alive, UNCHANGED <<alive, dead>>, DrainDone(p)
    PROVE  RoleInv' /\ RingInv' /\ RoleMoves(p) /\ Others(p)
  <1>0. PICK d \in Sides : d = at[p]
    BY Zenon, Removing
  <1>1. /\ pc[p] = "sent" /\ slot' = slot /\ count' = count
        /\ UNCHANGED <<entry, members, roles, seat, raw, ports, used, alive, dead>>
    BY Zenon DEF DrainDone, Turn, Back, Goto, History
  <1>2. slot[d] \in Slot /\ Named(slot[d]) /\ Gated(d)
    BY Zenon, <1>0, Removing
  <1>3. CASE SendClosed(d)
    <2>1. Set("send", d, 3)
      BY Zenon, <1>0, <1>3 DEF DrainDone
    <2>2. /\ lifecycle' \in [{"send", "recv"} -> [Sides -> {0, 1, 3}]]
          /\ lifecycle'["send"][d] = 3
          /\ \A e \in Sides \ {d} : lifecycle'["send"][e] = lifecycle["send"][e]
          /\ lifecycle'["recv"] = lifecycle["recv"]
      BY Zenon, <2>1, SetField DEF Or
    <2>3. slot[d].is \notin Producer
      BY Zenon, <1>2, <1>3 DEF SendClosed, Gated
    <2>4. ASSUME NEW e \in Sides
          PROVE  /\ lifecycle["send"][e] = 3 => lifecycle'["send"][e] = 3
                 /\ lifecycle["recv"][e] = 3 => lifecycle'["recv"][e] = 3
                 /\ Gated(e)' /\ (Drained(e) => Drained(e)')
      BY Zenon, <1>1, <2>2, <2>3 DEF Gated, Drained, RingInv
    <2>5. CASE IsEmpty(d)
      <3>1. Drained(d)'
        BY Zenon, <1>1, <2>2, <2>3, <2>5 DEF Drained, IsEmpty, Producer
      <3>2. PICK s \in {"drain", "seal"} :
              Turns(p, s, 1 - d) /\ (d = 0 => s = "drain") /\ (d = 1 => s = "seal")
        <4>1. at' = [at EXCEPT ![p] = 1 - d] /\ 1 - d \in Sides
          BY <1>0, <1>3, <2>5, Removing DEF DrainDone, Turn, Sides
        <4>2. CASE d = 0
          BY <1>0, <1>1, <1>3, <2>5, <4>1, <4>2 DEF DrainDone, Turn, Goto, Turns, Closing
        <4>3. CASE d = 1
          BY <1>0, <1>1, <1>3, <2>5, <4>1, <4>3 DEF DrainDone, Turn, Goto, Turns, Closing
        <4> QED
          BY Zenon, <4>2, <4>3 DEF Sides
      <3>3. 1 - 1 = 0 /\ 1 - 0 = 1
        OBVIOUS
      <3>4. Phase(p)'
        <4>1. CASE d = 0
          BY Zenon, <3>1, <3>2, <3>3, <4>1, TurnsKeeps DEF Phase
        <4>2. CASE d = 1
          <5>1. Drained(0)'
            BY Zenon, <1>0, <1>1, <2>4, <4>2, Removing DEF Phase, Sides
          <5> QED
            BY <3>1, <3>2, <3>3, <4>2, <5>1, TurnsKeeps DEF Phase
        <4> QED
          BY Zenon, <4>1, <4>2 DEF Sides
      <3> QED
        BY Zenon, <1>1, <2>2, <2>4, <3>2, <3>4, TurnsKeeps, GatesKeep
    <2>6. CASE ~IsEmpty(d)
      <3>1. Turns(p, "open", 0)
        BY Zenon, <1>0, <1>1, <2>6 DEF DrainDone, Back, Goto, Turns, Closing, Sides
      <3>2. Phase(p)'
        BY <3>1, TurnsKeeps DEF Phase
      <3> QED
        BY Zenon, <1>1, <2>2, <2>4, <3>1, <3>2, TurnsKeeps, GatesKeep
    <2> QED
      BY Zenon, <2>5, <2>6
  <1>4. CASE ~SendClosed(d)
    <2>1. Turns(p, "open", 0) /\ lifecycle' = lifecycle
      BY Zenon, <1>0, <1>1, <1>4 DEF DrainDone, Back, Goto, Turns, Closing, Sides
    <2>2. Phase(p)'
      BY <2>1, TurnsKeeps DEF Phase
    <2> QED
      BY Zenon, <1>1, <2>1, <2>2, TurnsKeeps, RingRests, Known
  <1> QED
    BY Zenon, <1>3, <1>4

\* A direction is closed when no claim is left in it (CloseRecv).
LEMMA CloseRecvStep ==
    ASSUME RoleInv, RingInv, NEW p \in alive, UNCHANGED <<alive, dead>>, CloseRecv(p)
    PROVE  RoleInv' /\ RingInv' /\ RoleMoves(p) /\ Others(p)
  <1>0. PICK d \in Sides : d = at[p]
    BY Zenon, Removing
  <1>1. /\ pc[p] = "seal" /\ slot' = slot /\ count' = count
        /\ UNCHANGED <<entry, members, roles, seat, raw, ports, used, alive, dead>>
    BY Zenon DEF CloseRecv, Turn, Back, Goto, History
  <1>2. /\ Drained(0) /\ Drained(1) /\ (d = 1 => lifecycle["recv"][0] = 3)
        /\ \A e \in Sides : Gated(e) /\ Drained(e)
    BY Zenon, <1>0, <1>1, Removing DEF Phase, Sides, RingInv
  <1>3. CASE slot[d].is # "consumer" \/ lifecycle["recv"][d] = 3
    <2>1. Set("recv", d, 3)
      BY Zenon, <1>0, <1>3 DEF CloseRecv
    <2>2. /\ lifecycle' \in [{"send", "recv"} -> [Sides -> {0, 1, 3}]]
          /\ lifecycle'["recv"][d] = 3
          /\ \A e \in Sides \ {d} : lifecycle'["recv"][e] = lifecycle["recv"][e]
          /\ lifecycle'["send"] = lifecycle["send"]
      BY Zenon, <2>1, SetField DEF Or
    <2>3. slot[d].is = "empty"
      BY Zenon, <1>2, <1>3 DEF Drained, Gated
    <2>4. ASSUME NEW e \in Sides
          PROVE  /\ lifecycle["send"][e] = 3 => lifecycle'["send"][e] = 3
                 /\ lifecycle["recv"][e] = 3 => lifecycle'["recv"][e] = 3
                 /\ Gated(e)' /\ Drained(e)'
      BY Zenon, <1>1, <1>2, <2>2, <2>3 DEF Gated, Drained
    <2>5. PICK s \in {"seal", "retire"} :
            Turns(p, s, 1 - d) /\ (d = 0 => s = "seal") /\ (d = 1 => s = "retire")
      <3>1. at' = [at EXCEPT ![p] = 1 - d] /\ 1 - d \in Sides
        BY <1>0, <1>3, Removing DEF CloseRecv, Turn, Sides
      <3>2. CASE d = 0
        BY <1>0, <1>1, <1>3, <3>1, <3>2 DEF CloseRecv, Turn, Goto, Turns, Closing
      <3>3. CASE d = 1
        BY <1>0, <1>1, <1>3, <3>1, <3>3 DEF CloseRecv, Turn, Goto, Turns, Closing
      <3> QED
        BY Zenon, <3>2, <3>3 DEF Sides
    <2>6. Phase(p)'
      <3>1. CASE d = 0
        BY Zenon, <2>2, <2>4, <2>5, <3>1, TurnsKeeps DEF Phase, Sides
      <3>2. CASE d = 1
        <4>1. Sealed'
          BY Zenon, <1>2, <2>2, <2>4, <3>2 DEF Sealed, Sides
        <4> QED
          BY Zenon, <2>5, <3>2, <4>1, TurnsKeeps DEF Phase
      <3> QED
        BY Zenon, <3>1, <3>2 DEF Sides
    <2> QED
      BY Zenon, <1>1, <2>2, <2>4, <2>5, <2>6, TurnsKeeps, GatesKeep
  <1>4. CASE ~(slot[d].is # "consumer" \/ lifecycle["recv"][d] = 3)
    <2>1. Turns(p, "open", 0) /\ Set("recv", d, 1)
      BY Zenon, <1>0, <1>1, <1>4 DEF CloseRecv, Back, Goto, Turns, Closing, Sides
    <2>2. /\ lifecycle' \in [{"send", "recv"} -> [Sides -> {0, 1, 3}]]
          /\ lifecycle'["recv"][d] = Or(lifecycle["recv"][d], 1)
          /\ \A e \in Sides \ {d} : lifecycle'["recv"][e] = lifecycle["recv"][e]
          /\ lifecycle'["send"] = lifecycle["send"]
      BY Zenon, <2>1, SetField
    <2>3. ASSUME NEW e \in Sides
          PROVE  /\ lifecycle["send"][e] = 3 => lifecycle'["send"][e] = 3
                 /\ lifecycle["recv"][e] = 3 => lifecycle'["recv"][e] = 3
                 /\ Gated(e)'
      BY <1>1, <1>2, <2>2 DEF Gated, Or
    <2>4. Phase(p)'
      BY <2>1, TurnsKeeps DEF Phase
    <2> QED
      BY Zenon, <1>1, <2>1, <2>2, <2>3, <2>4, TurnsKeeps, GatesKeep
  <1> QED
    BY Zenon, <1>3, <1>4

\* The rest of remove finds both directions closed (CloseRole, CloseFinal, PeerCheck,
\* Reclaim, ReclaimBusy).
LEMMA CloseRoleStep ==
    ASSUME RoleInv, RingInv, NEW p \in alive, UNCHANGED <<alive, dead>>, CloseRole(p)
    PROVE  RoleInv' /\ RingInv' /\ RoleMoves(p) /\ Others(p)
  <1>1. RoleInv' /\ RoleMoves(p) /\ Others(p)
    BY Zenon, CloseRoleRole
  <1>2. /\ pc[p] = "open" /\ at' = [at EXCEPT ![p] = 0] /\ UNCHANGED <<entry, lifecycle, slot, count>>
    BY Zenon DEF CloseRole, Goto, Rings, History
  <1>3. pc'[p] = "stop" \/ (pc'[p] = "peer" /\ ~Owns(p))
    BY Zenon, Known DEF CloseRole, Goto, Owns, RoleInv, RoleTypes
  <1>4. /\ at' \in [Participants -> Sides] /\ at'[p] = 0 /\ \A q \in Participants \ {p} : at'[q] = at[q]
    BY Zenon, <1>2, Known DEF RingInv, RingTypes, Sides
  <1>5. Phase(p)'
    <2>1. ~Owns(p) => Sealed
      BY Zenon, <1>2, Known, Removing DEF Holds, Phase
    <2>2. Sealed => Sealed'
      BY Zenon, <1>2 DEF Sealed
    <2> QED
      BY Zenon, <1>3, <2>1, <2>2 DEF Phase
  <1> QED
    BY Zenon, <1>1, <1>2, <1>4, <1>5, Known, RingRests

\* The role is retired once both directions are closed (CloseFinal).
LEMMA CloseFinalStep ==
    ASSUME RoleInv, RingInv, NEW p \in alive, UNCHANGED <<alive, dead>>, CloseFinal(p)
    PROVE  RoleInv' /\ RingInv' /\ RoleMoves(p) /\ Others(p)
  <1>1. RoleInv' /\ RoleMoves(p) /\ Others(p)
    BY Zenon, CloseFinalRole
  <1>2. /\ pc[p] = "retire" /\ pc'[p] \in {"peer", "open"}
        /\ UNCHANGED <<entry, lifecycle, slot, at, count>>
    BY Zenon, Known DEF CloseFinal, Goto, Rings, Locals, History, RoleInv, RoleTypes
  <1>3. Sealed'
    BY Zenon, <1>2, Removing DEF Phase, Sealed
  <1>4. Phase(p)'
    BY Zenon, <1>2, <1>3 DEF Phase
  <1> QED
    BY Zenon, <1>1, <1>2, <1>4, Known, RingRests DEF RingInv, RingTypes

\* a step of remove after close_with
LEMMA RemoveEndStep ==
    ASSUME RoleInv, RingInv, NEW p \in alive, UNCHANGED <<alive, dead>>,
           PeerCheck(p) \/ ReclaimBusy(p) \/ Reclaim(p)
    PROVE  RoleInv' /\ RingInv' /\ RoleMoves(p) /\ Others(p)
  <1>1. pc[p] \in {"peer", "reclaim"} /\ UNCHANGED <<lifecycle, slot, at, count>>
    BY Zenon DEF PeerCheck, ReclaimBusy, Reclaim, Goto, Rings, Locals, History
  <1>2. Sealed /\ Sealed'
    BY Zenon, <1>1, Removing DEF Phase, Sealed
  <1>3. CASE PeerCheck(p) \/ ReclaimBusy(p)
    <2>1. PICK s \in {"reclaim", "open"} : Closes(p, s)
      BY Zenon, <1>1, <1>3 DEF PeerCheck, ReclaimBusy, Goto, Closes, Locals, History
    <2>2. RoleInv' /\ RoleMoves(p) /\ Others(p) /\ entry' = entry /\ pc'[p] = s
      BY Zenon, <2>1, ClosesRole, Known DEF Closes, RoleInv, RoleTypes
    <2>3. Phase(p)'
      BY Zenon, <1>2, <2>2 DEF Phase
    <2> QED
      BY Zenon, <1>1, <2>2, <2>3, Known, RingRests DEF RingInv, RingTypes
  <1>4. CASE Reclaim(p)
    <2>1. Leaves(p)
      BY Zenon, <1>4 DEF Reclaim, Goto, Leaves, History
    <2>2. RoleInv' /\ RoleMoves(p) /\ Others(p) /\ pc'[p] = "idle"
      BY Zenon, <2>1, LeavesRole, Known DEF Leaves, RoleInv, RoleTypes
    <2>3. Phase(p)'
      BY Zenon, <2>2 DEF Phase
    <2> QED
      BY Zenon, <1>1, <1>2, <2>2, <2>3, Known, RingRests DEF RingInv, RingTypes
  <1> QED
    BY Zenon, <1>3, <1>4

\* Steps of create, adopt, invite and drop leave the rings alone.
LEMMA RoleSteps ==
    ASSUME RoleInv, RingInv, NEW p \in alive, UNCHANGED <<alive, dead>>,
           \/ Create(p) \/ CreateIssuer(p) \/ CreateOffer(p)
           \/ AdoptOpen(p) \/ AdoptClaim(p) \/ AdoptCheck(p) \/ AdoptUndo(p) \/ Unmap(p)
           \/ InviteLoad(p) \/ InviteSwap(p) \/ DropRole(p)
    PROVE  RoleInv' /\ RingInv' /\ RoleMoves(p) /\ Others(p)
  <1>1. RoleInv' /\ RoleMoves(p) /\ Others(p)
    <2>1. Unmap(p) => Leaves(p)
      BY Zenon DEF Unmap, Goto, Leaves, History
    <2> QED
      BY Zenon, <2>1, CreateRole, CreateIssuerRole, CreateOfferRole, AdoptOpenRole, AdoptClaimRole,
         AdoptCheckRole, AdoptUndoRole, LeavesRole, InviteLoadRole, InviteSwapRole, DropRoleRole
  <1>2. UNCHANGED <<lifecycle, slot, at, count>> /\ (entry' = "removed" => entry = "removed")
    BY Zenon DEF Create, CreateIssuer, CreateOffer, AdoptOpen, AdoptClaim, AdoptCheck, AdoptUndo,
       Unmap,
           InviteLoad, InviteSwap, DropRole, Rings, Locals, History
  <1>3. Phase(p)'
    <2>1. CASE Create(p) \/ CreateIssuer(p) \/ AdoptOpen(p) \/ AdoptClaim(p) \/ AdoptUndo(p)
               \/ Unmap(p) \/ DropRole(p)
      <3>1. pc'[p] \in {"create", "offer", "claim", "check", "unmap", "idle"}
        BY Zenon, <2>1, Known DEF Create, CreateIssuer, AdoptOpen, AdoptClaim, AdoptUndo, Unmap,
           DropRole,
                           Goto, RoleInv, RoleTypes
      <3> QED
        BY Zenon, <3>1 DEF Phase
    <2>2. CASE CreateOffer(p)
      <3>1. /\ pc[p] = "offer" /\ pc'[p] = "open" /\ seat' = seat
            /\ roles' = [roles EXCEPT ![1] = Word(1, NoOne, FALSE)]
        BY Zenon, <2>2, Known DEF CreateOffer, Goto, SetRole, Locals, RoleInv, RoleTypes
      <3>2. seat[p].index = 0 /\ roles'[0] = roles[0] /\ Mine(p) = Word(seat[p].gen, p, FALSE)
        BY Zenon, <3>1, Known DEF Holds, RoleInv, RoleTypes, Sides
      <3>3. ~Gone(p)'
        BY <3>1, <3>2 DEF Gone, Mine, Word
      <3> QED
        BY Zenon, <3>1, <3>3 DEF Phase
    <2>3. CASE AdoptCheck(p)
      <3>1. pc[p] = "check" /\ pc'[p] \in {"open", "undo"} /\ seat' = seat /\ roles' = roles
        BY Zenon, <2>3, Known DEF AdoptCheck, Goto, Locals, RoleInv, RoleTypes
      <3>2. Mine(p) = Word(seat[p].gen, p, FALSE)
        BY Zenon, <3>1, Known DEF Holds
      <3>3. ~Gone(p)'
        BY <3>1, <3>2 DEF Gone, Mine, Word
      <3> QED
        BY Zenon, <3>1, <3>3 DEF Phase
    <2>4. CASE InviteLoad(p)
      <3>1. pc[p] = "open" /\ pc'[p] = "invite" /\ seat' = seat /\ roles' = roles
        BY Zenon, <2>4, Known DEF InviteLoad, Goto, RoleInv, RoleTypes
      <3>2. (Gone(p)' => Gone(p)) /\ (Sealed => Sealed')
        BY Zenon, <1>2, <3>1 DEF Gone, Mine, Sealed
      <3> QED
        BY Zenon, <3>1, <3>2, Removing DEF Phase
    <2>5. CASE InviteSwap(p)
      <3>1. /\ pc[p] = "invite" /\ pc'[p] = "open" /\ seat' = seat
            /\ \A i \in Sides \ {Peer(p)} : roles'[i] = roles[i]
        BY Zenon, <2>5, Known DEF InviteSwap, Goto, SetRole, RoleInv, RoleTypes
      <3>2. (Gone(p)' => Gone(p)) /\ (Sealed => Sealed')
        BY Zenon, <1>2, <3>1, Known DEF Gone, Mine, Sealed
      <3> QED
        BY Zenon, <3>1, <3>2, Removing DEF Phase
    <2> QED
      BY Zenon, <2>1, <2>2, <2>3, <2>4, <2>5
  <1> QED
    BY Zenon, <1>1, <1>2, <1>3, Known, RingRests DEF RingInv, RingTypes

\* The locals of the dead are gone; the rings stay as they are (Die).
LEMMA DieStep ==
    ASSUME RoleInv, RingInv, NEW p \in Participants, Die(p)
    PROVE  RoleInv' /\ RingInv' /\ RoleMoves(p) /\ Others(p)
  <1>1. RoleInv' /\ RoleMoves(p) /\ Others(p)
    BY Zenon, DieRole
  <1>2. p \notin alive' /\ alive' \subseteq alive /\ UNCHANGED <<entry, lifecycle, slot, count>>
    BY Zenon DEF Die, Rings, History
  <1>3. at' \in [Participants -> Sides] /\ \A q \in Participants \ {p} : at'[q] = at[q]
    BY Zenon DEF Die, RingInv, RingTypes, Sides
  <1> QED
    BY Zenon, <1>1, <1>2, <1>3, RingRests

\* What recovery makes of a control word, and how many transfers it releases.
LEMMA RepairedSlot ==
    ASSUME NEW w \in Slot, Named(w), dead.who # NoOne
    PROVE  /\ Repaired(w) \in Slot /\ Named(Repaired(w))
           /\ w.owner # dead.who => Repaired(w) = w
           /\ w.is \notin Producer => Repaired(w) = w \/ Repaired(w) = Free
           /\ w.is \in {"empty", "full", "skipped"} => Repaired(w) = w
           /\ Weight(w) = Weight(Repaired(w)) + Settles(w)
  <1>1. CASE w.owner # dead.who
    BY <1>1 DEF Repaired, Named, Weight, Settles, Slot
  <1>2. CASE w.owner = dead.who /\ w.is = "reserved"
    <2>1. PICK v : v = [is |-> "skipped", owner |-> NoOne, held |-> FALSE]
      BY Zenon
    <2>2. Repaired(w) = v /\ v \in Slot /\ Named(v) /\ Weight(v) = 0 /\ Weight(w) = 0
      BY Zenon, <1>2, <2>1 DEF Repaired, Slot, SlotStates, Named, Weight
    <2> QED
      BY <1>2, <2>2 DEF Producer, Settles
  <1>3. CASE w.owner = dead.who /\ w.is # "reserved"
    <2>1. Repaired(w) = Free /\ Free \in Slot /\ Named(Free) /\ Weight(Free) = 0
      BY Zenon, <1>3 DEF Repaired, Free, Slot, SlotStates, Named, Weight
    <2>2. w.is \notin {"empty", "full", "skipped"}
      BY Zenon, <1>3 DEF Named
    <2> QED
      BY <1>3, <2>1, <2>2 DEF Weight, Settles
  <1> QED
    BY Zenon, <1>1, <1>2, <1>3

\* Layout::recover of Duplex repairs both directions (ReapSlots).
LEMMA ReapSlotsRing ==
    ASSUME RoleInv, RingInv, NEW p \in Participants \ alive, RoleMoves(p), Others(p),
           ReaperStep, ReapSlots, dead.who = p
    PROVE  RingInv'
  <1>1. UNCHANGED <<entry, lifecycle, at, alive>> /\ slot' = [d \in Sides |-> Repaired(slot[d])]
    BY Zenon DEF ReaperStep, ReapSlots, Locals
  <1>2. p # NoOne
    BY Zenon, ChannelAssumption
  <1>3. ASSUME NEW d \in Sides
        PROVE  /\ slot[d] \in Slot /\ Named(slot[d]) /\ slot'[d] = Repaired(slot[d])
               /\ slot'[d] \in Slot /\ Named(slot'[d])
               /\ slot[d].owner # p => slot'[d] = slot[d]
               /\ slot[d].is \notin Producer => slot'[d] = slot[d] \/ slot'[d] = Free
               /\ slot[d].is \in {"empty", "full", "skipped"} => slot'[d] = slot[d]
               /\ Load(d) = Load(d)' + Settles(slot[d])
    <2>1. slot[d] \in Slot /\ Named(slot[d]) /\ slot'[d] = Repaired(slot[d])
      BY Zenon, <1>1 DEF RingInv, RingTypes
    <2> QED
      BY Zenon, <1>2, <2>1, RepairedSlot DEF Load
  <1>4. RingMoves(p)
    <2>1. ASSUME NEW d \in Sides PROVE Flows(d, p)
      <3>1. Gated(d) /\ Free.is = "empty" /\ lifecycle' = lifecycle
        BY Zenon, <1>1 DEF RingInv, Free
      <3>2. \/ slot'[d] = slot[d]
            \/ slot'[d].is = "empty" /\ slot[d].is \notin {"empty", "full", "skipped"} \cup Producer
            \/ slot[d].is \in Producer
        BY Zenon, <1>3, <3>1
      <3>3. Drained(d) => Drained(d)'
        BY Zenon, <3>1, <3>2 DEF Drained, Producer
      <3>4. Gated(d)'
        BY Zenon, <3>1, <3>2 DEF Gated, Producer
      <3> QED
        BY Zenon, <1>3, <3>1, <3>3, <3>4 DEF Flows
    <2> QED
      BY Zenon, <1>1, <2>1 DEF RingMoves
  <1>5. count' \in [published : Nat, settled : Nat]
        /\ count'.published = count'.settled + Load(0)' + Load(1)'
    <2>1. PICK m, n : m = Settles(slot[0]) /\ n = Settles(slot[1])
      BY Zenon
    <2>2. m \in Nat /\ n \in Nat /\ count' = [count EXCEPT !.settled = @ + m + n]
      BY Zenon, <2>1 DEF ReapSlots, Settles
    <2>3. count \in [published : Nat, settled : Nat]
          /\ count.published = count.settled + Load(0) + Load(1)
      BY Zenon DEF RingInv, RingTypes
    <2>4. /\ count' \in [published : Nat, settled : Nat]
          /\ count'.published = count.published /\ count'.settled = count.settled + m + n
      BY <2>2, <2>3
    <2>5. Load(0) = Load(0)' + m /\ Load(1) = Load(1)' + n
      BY Zenon, <1>3, <2>1 DEF Sides
    <2>6. Load(0)' \in Nat /\ Load(1)' \in Nat
      BY Zenon DEF Load, Weight
    <2> QED
      BY <2>2, <2>3, <2>4, <2>5, <2>6
  <1>6. RingTypes'
    BY Zenon, <1>1, <1>3, <1>5 DEF RingInv, RingTypes
  <1> QED
    BY Zenon, <1>1, <1>4, <1>5, <1>6, RingKeeps DEF Sealed

\* One step of the recovery of a dead participant (ReaperStep).
LEMMA ReaperKeeps ==
    ASSUME RoleInv, RingInv, ReaperStep
    PROVE  RoleInv' /\ RingInv' /\ \E p \in Participants : RoleMoves(p) /\ Others(p) /\ p \notin alive
  <1>1. PICK p \in Participants : RoleMoves(p) /\ Others(p) /\ p \notin alive
    BY Zenon, ReaperRole
  <1>2. RoleInv'
    BY Zenon, ReaperRole
  <1>3. UNCHANGED <<entry, lifecycle, at, alive, pc, seat, raw>>
    BY Zenon DEF ReaperStep, Locals
  <1>4. CASE ReapSlots
    <2>1. PICK q : q = dead.who
      BY Zenon
    <2>2. q \in Participants \ alive /\ roles' = roles
      BY Zenon, <1>4, <2>1 DEF ReapSlots, RoleInv, RoleTypes, Buried
    <2>3. RoleMoves(q) /\ Others(q)
      BY Zenon, <1>3, <2>2 DEF RoleMoves, Advances, Others
    <2>4. RingInv'
      BY Zenon, <1>4, <2>1, <2>2, <2>3, ReapSlotsRing
    <2> QED
      BY Zenon, <1>1, <1>2, <2>4
  <1>5. CASE ~ReapSlots
    <2>1. UNCHANGED <<slot, count>>
      BY Zenon, <1>5 DEF ReaperStep, ReapStart, ReapRole, ReapMember
    <2>2. RingInv'
      BY Zenon, <1>1, <1>3, <2>1, RingRests DEF RingInv, RingTypes
    <2> QED
      BY Zenon, <1>1, <1>2, <2>2
  <1> QED
    BY Zenon, <1>4, <1>5

----------------------------------------------------------------------------
(* The invariant and what it shows.                                        *)

\* The initial state: no channel, both directions open and empty.
LEMMA ChannelStarts ==
    ASSUME ChannelInit
    PROVE  RoleInv /\ RingInv
  <1>1. Blank \in Role /\ Blank.owner = NoOne /\ ~Blank.terminal /\ NoSeat \in Ends
    BY ChannelAssumption DEF Blank, Word, Role, NoSeat, Ends, Sides
  <1>2. RoleTypes
    BY Zenon, <1>1 DEF ChannelInit, RoleTypes, Steps, ReapSteps
  <1>3. Buried /\ RemovedIsAlone /\ Fresh
    BY Zenon, ChannelAssumption DEF ChannelInit, Buried, RemovedIsAlone, Attached, Fresh
  <1>4. \A p \in alive : Holds(p) /\ Phase(p)
    BY Zenon DEF ChannelInit, Holds, Phase, Closing
  <1>5. RoleInv
    BY Zenon, <1>1, <1>2, <1>3, <1>4 DEF ChannelInit, RoleInv
  <1>6. Free \in Slot /\ Named(Free) /\ Weight(Free) = 0 /\ 0 \in Sides /\ 1 \in Sides
    BY Zenon DEF Free, Slot, SlotStates, Named, Weight, Sides
  <1>7. RingTypes
    BY Zenon, <1>6 DEF ChannelInit, RingTypes
  <1>8. \A d \in Sides : Named(slot[d]) /\ Gated(d)
    BY <1>6 DEF ChannelInit, Gated
  <1>9. count.published = count.settled + Load(0) + Load(1)
    BY <1>6 DEF ChannelInit, Load
  <1> QED
    BY Zenon, <1>4, <1>5, <1>7, <1>8, <1>9 DEF RingInv, ChannelInit

\* Every step keeps the invariant; a step of p, or of the recovery of p, advances
\* the role words and leaves the locals of the others alone.
LEMMA ChannelSteps ==
    ASSUME RoleInv, RingInv, ChannelNext
    PROVE  RoleInv' /\ RingInv' /\ \E p \in Participants :
             RoleMoves(p) /\ Others(p) /\ (p \in alive \/ pc' = pc)
  <1>1. ASSUME NEW p \in Participants, Continue(p) \/ Begin(p) \/ Transfer(p) \/ Remove(p)
        PROVE  RoleInv' /\ RingInv' /\ RoleMoves(p) /\ Others(p) /\ p \in alive
    <2>1. p \in alive /\ UNCHANGED <<alive, dead>>
      BY Zenon, <1>1 DEF Continue, Begin, Transfer, Remove
    <2>2. CASE Continue(p) /\ RemoveStep(p)
      BY Zenon, <2>1, <2>2, CloseSendStep, DrainRests, DrainClaimStep, DrainReleaseStep,
         DrainDoneStep,
         CloseRecvStep, CloseFinalStep, RemoveEndStep DEF RemoveStep
    <2>3. CASE (Continue(p) /\ ~RemoveStep(p)) \/ Begin(p)
      BY Zenon, <2>1, <2>3, RoleSteps DEF Continue, Begin
    <2>4. CASE Transfer(p)
      BY Zenon, <2>1, <2>4, TransferSteps
    <2>5. CASE Remove(p)
      BY Zenon, <2>1, <2>5, CloseRoleStep DEF Remove
    <2> QED
      BY Zenon, <1>1, <2>2, <2>3, <2>4, <2>5
  <1>2. ASSUME NEW p \in Participants, Die(p)
        PROVE  RoleInv' /\ RingInv' /\ RoleMoves(p) /\ Others(p) /\ p \in alive
    BY Zenon, <1>2, DieStep DEF Die
  <1>3. CASE ReaperStep
    BY Zenon, <1>3, ReaperKeeps DEF ReaperStep
  <1> QED
    BY Zenon, <1>1, <1>2, <1>3 DEF ChannelNext

\* A step that changes nothing keeps the invariant.
LEMMA ChannelStutters ==
    ASSUME RoleInv, RingInv, UNCHANGED chanVars
    PROVE  RoleInv' /\ RingInv'
  <1>1. RoleInv'
    BY Zenon DEF chanVars, RoleInv, RoleTypes, Buried, RemovedIsAlone, Attached, Fresh, Holds,
       Owns, Gone,
           Mine
  <1>2. RingInv'
    BY Zenon DEF chanVars, RingInv, RingTypes, Gated, Phase, Drained, Sealed, Gone, Mine, Load
  <1> QED
    BY Zenon, <1>1, <1>2

\* The invariant of the channel: the words of the roles name their holders, and a
\* removal has closed as much of the two directions as its step says.
THEOREM ChannelInvariant == ChannelSpec => [](RoleInv /\ RingInv)
  <1>1. ChannelInit => RoleInv /\ RingInv
    BY Zenon, ChannelStarts
  <1>2. (RoleInv /\ RingInv) /\ [ChannelNext]_chanVars => (RoleInv /\ RingInv)'
    BY Zenon, ChannelSteps, ChannelStutters
  <1> QED
    BY <1>1, <1>2, PTL DEF ChannelSpec

\* The state is well typed, a CONSUMER or PRODUCER word names its owner, and no more
\* transfers are received or released than were published.
THEOREM ChannelTypeCorrect == ChannelSpec => []ChannelTypeOK
  <1>1. RoleInv /\ RingInv => ChannelTypeOK
    <2> SUFFICES ASSUME RoleInv, RingInv PROVE ChannelTypeOK
      BY Zenon
    <2>1. count.settled <= count.published
      BY DEF RingInv, RingTypes, Load, Weight
    <2>2. \A d \in Sides : (slot[d].owner = NoOne) <=> (slot[d].is \in {"empty", "full", "skipped"})
      BY Zenon DEF RingInv, Named
    <2> QED
      BY Zenon, <2>1, <2>2 DEF RoleInv, RoleTypes, RingInv, RingTypes, Slot, ChannelTypeOK
  <1> QED
    BY <1>1, ChannelInvariant, PTL

\* A role has one holder at a time, across claims, invitations, drops, removals that
\* are repeated, deaths and their recovery (Channel::adopt, invite, close_with, reap).
THEOREM OneHolderHolds == ChannelSpec => []OneHolder
  <1>1. RoleInv /\ RingInv => OneHolder
    BY Zenon DEF RoleInv, OneHolder, Holds, Owns, Gone
  <1> QED
    BY <1>1, ChannelInvariant, PTL

\* Whoever may touch the channel's memory is a member of its layout, and nobody may
\* once Session::remove has reclaimed it.
THEOREM RemovedIsAloneHolds == ChannelSpec => []RemovedIsAlone
  <1>1. RoleInv /\ RingInv => RemovedIsAlone
    BY Zenon DEF RoleInv
  <1> QED
    BY <1>1, ChannelInvariant, PTL

\* No transfer is lost with a removed channel: both directions are closed, their slots
\* are free, and every published transfer was received or released.
THEOREM RemovedIsDrainedHolds == ChannelSpec => []RemovedIsDrained
  <1>1. RoleInv /\ RingInv => RemovedIsDrained
    <2> SUFFICES ASSUME RoleInv, RingInv, entry = "removed"
                 PROVE  count.published = count.settled /\ \A d \in Sides : slot[d] = Free
      BY Zenon DEF RemovedIsDrained
    <2>1. ASSUME NEW d \in Sides
          PROVE  slot[d] = Free /\ Load(d) = 0
      <3>1. slot[d].is = "empty" /\ Named(slot[d]) /\ slot[d] \in Slot
        BY Zenon DEF RingInv, RingTypes, Sealed, Gated
      <3>2. slot[d].owner = NoOne /\ slot[d].held = FALSE
        BY Zenon, <3>1 DEF Named, Slot
      <3> QED
        BY Zenon, <3>1, <3>2 DEF Slot, Free, Load, Weight
    <2>2. Load(0) = 0 /\ Load(1) = 0
      BY Zenon, <2>1 DEF Sides
    <2> QED
      BY <2>1, <2>2 DEF RingInv, RingTypes
  <1> QED
    BY <1>1, ChannelInvariant, PTL

\* A port admits at most one holder: the port whose claim AdoptCheck confirms has not
\* admitted anyone, however often the role was left, recovered or offered again.
THEOREM PortAdmitsOnceHolds == ChannelSpec => PortAdmitsOnce
  <1>1. RoleInv /\ RingInv /\ [ChannelNext]_chanVars =>
          [\A p \in Participants : pc[p] = "check" /\ pc'[p] = "open" => seat[p] \notin used]_chanVars
    <2> SUFFICES ASSUME RoleInv, RingInv, ChannelNext,
                        NEW p \in Participants, pc[p] = "check", pc'[p] = "open"
                 PROVE  seat[p] \notin used
      BY Zenon
    <2>1. PICK q \in Participants : Others(q) /\ (q \in alive \/ pc' = pc)
      BY Zenon, ChannelSteps
    <2>2. p \in alive
      BY Zenon, <2>1 DEF Others
    <2> QED
      BY Zenon, <2>2 DEF RoleInv, Holds
  <1> QED
    BY <1>1, ChannelInvariant, PTL DEF ChannelSpec, PortAdmitsOnce

\* A terminal role stays so and the generations of a role only grow: no invitation,
\* drop, rolled back adoption or recovery reopens a role that was closed.
THEOREM RolesOnlyAdvanceHolds == ChannelSpec => RolesOnlyAdvance
  <1>1. RoleInv /\ RingInv /\ [ChannelNext]_chanVars =>
          [\A i \in Sides : /\ roles[i].terminal => roles'[i].terminal
                            /\ roles'[i].gen >= roles[i].gen]_chanVars
    <2> SUFFICES ASSUME RoleInv, RingInv, ChannelNext, NEW i \in Sides
                 PROVE  /\ roles[i].terminal => roles'[i].terminal
                        /\ roles'[i].gen >= roles[i].gen
      BY Zenon
    <2>1. PICK q \in Participants : RoleMoves(q)
      BY Zenon, ChannelSteps
    <2>2. Advances(roles[i], roles'[i], q) /\ roles[i] \in Role
      BY Zenon, <2>1 DEF RoleMoves, RoleInv, RoleTypes
    <2> QED
      BY <2>2, ChannelAssumption DEF Advances, Role
  <1> QED
    BY <1>1, ChannelInvariant, PTL DEF ChannelSpec, RolesOnlyAdvance
=============================================================================
