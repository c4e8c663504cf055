------------------------------ MODULE Channel ------------------------------
(***************************************************************************)
(* One duplex channel from its creation to its removal: the two role words *)
(* with their generations, the ports that invite a peer to a role, the     *)
(* lifecycle fields of the two directions, the members of the layout, and  *)
(* what the death and the recovery of a participant do to them.  A         *)
(* participant holds at most one Channel value: the layout refuses a       *)
(* second attachment of one participant.                                   *)
(*                                                                         *)
(* A direction is a ring of one slot.  Its inside is the subject of Queue; *)
(* here an operation of Tx or Rx is one or two steps.  The directory is    *)
(* the subject of Directory; here it publishes and removes one entry.      *)
(***************************************************************************)
EXTENDS Integers

CONSTANTS
    Participants,   \* slots of the participant table
    NoOne,          \* the absent participant of a role word or a control word
    Mortal,         \* participants that may die
    Adopters,       \* participants that call Session::adopt
    Removers,       \* participants that call Session::remove
    Persistent,     \* those of them that call it again when they get the channel back
    MaxGeneration,  \* RoleWord::MAX_GENERATION
    MaxSends        \* bound: transfers published

ASSUME ChannelAssumption ==
    /\ NoOne \notin Participants
    /\ Mortal \cup Adopters \cup Removers \subseteq Participants
    /\ Persistent \subseteq Removers
    /\ MaxGeneration \in Nat \ {0} /\ MaxSends \in Nat

VARIABLES
    entry,      \* the directory's entry: "none", "published" or "removed"
    members,    \* RcHeader::members, without its CLOSED bit (entry = "removed")
    roles,      \* Duplex::roles
    lifecycle,  \* Duplex::lifecycle: the send and the recv field of each direction
    slot,       \* the control word of each direction's slot, and whether a handle has it
    alive,
    pc,         \* the next step of each participant's call
    seat,       \* the role a participant holds or claims: Role::index and generation
    at,         \* the direction a call of close_with looks at
    raw,        \* the role word a call of invite loaded
    ports,      \* the ports that were issued
    dead,       \* the participant the reaper recovers, and the step it is at
    used,       \* history: ports that admitted a holder
    count       \* history: transfers published, and those received or released

chanVars == <<entry, members, roles, lifecycle, slot, alive, pc, seat, at, raw, ports, dead,
              used, count>>

Sides == {0, 1}
Role == [gen : 0 .. MaxGeneration, owner : Participants \cup {NoOne}, terminal : BOOLEAN]
Word(gen, owner, terminal) == [gen |-> gen, owner |-> owner, terminal |-> terminal]

Blank == Word(0, NoOne, FALSE)
NoSeat == [index |-> 0, gen |-> 0]

\* next_unowned, or the last generation retired; a terminal word keeps its own
Released(w) ==
    IF w.terminal \/ w.gen = MaxGeneration
    THEN Word(w.gen, NoOne, TRUE)
    ELSE Word(w.gen + 1, NoOne, FALSE)

\* PRODUCER before the lifecycle was looked at again, before the tail moved and after
\* it; AVAILABLE with and without COMPLETE; CONSUMER
SlotStates == {"empty", "owning", "admitted", "reserved", "full", "skipped", "consumer"}
Producer == {"owning", "admitted", "reserved"}
Free == [is |-> "empty", owner |-> NoOne, held |-> FALSE]
IsEmpty(d) == slot[d].is \in {"empty", "owning", "admitted", "consumer"}  \* tail = head

ChannelInit ==
    /\ entry = "none" /\ members = {}
    /\ roles = [i \in Sides |-> Blank]
    /\ lifecycle = [f \in {"send", "recv"} |-> [d \in Sides |-> 0]]
    /\ slot = [d \in Sides |-> Free]
    /\ alive = Participants
    /\ pc = [p \in Participants |-> "idle"]
    /\ seat = [p \in Participants |-> NoSeat]
    /\ at = [p \in Participants |-> 0]
    /\ raw = [p \in Participants |-> Blank]
    /\ ports = {} /\ used = {}
    /\ dead = [who |-> NoOne, step |-> "slots"]
    /\ count = [published |-> 0, settled |-> 0]

Goto(p, here, there) == pc[p] = here /\ pc' = [pc EXCEPT ![p] = there]
SetRole(i, w) == roles' = [roles EXCEPT ![i] = w]
SetSlot(d, is, p, held) == slot' = [slot EXCEPT ![d] = [is |-> is, owner |-> p, held |-> held]]
Mine(p) == roles[seat[p].index]
Peer(p) == 1 - seat[p].index
Locals == <<seat, at, raw>>
History == <<used, count>>
Rings == <<lifecycle, slot>>

----------------------------------------------------------------------------
(* Session::create_channel: the layout is published, then Channel::creator *)
(* stores the two role words.                                              *)

Create(p) ==
    /\ Goto(p, "idle", "create")
    /\ entry = "none"
    /\ entry' = "published" /\ members' = {p}
    /\ UNCHANGED <<roles, Rings, Locals, ports, History>>

CreateIssuer(p) ==
    /\ Goto(p, "create", "offer")
    /\ SetRole(0, Word(1, p, FALSE))
    /\ seat' = [seat EXCEPT ![p] = [index |-> 0, gen |-> 1]]
    /\ UNCHANGED <<entry, members, Rings, at, raw, ports, History>>

CreateOffer(p) ==
    /\ Goto(p, "offer", "open")
    /\ SetRole(1, Word(1, NoOne, FALSE))
    /\ ports' = {[index |-> 1, gen |-> 1]}
    /\ UNCHANGED <<entry, members, Rings, Locals, History>>

----------------------------------------------------------------------------
(* Session::adopt and Channel::adopt.                                      *)

\* dir.open: refused when the entry is gone or the participant is attached
AdoptOpen(p) ==
    /\ p \in Adopters
    /\ Goto(p, "idle", "claim")
    /\ entry = "published" /\ p \notin members
    /\ members' = members \cup {p}
    /\ \E port \in ports : seat' = [seat EXCEPT ![p] = port]
    /\ UNCHANGED <<entry, roles, Rings, at, raw, ports, History>>

\* Mutant: an occupied role is claimed.
AdoptClaimOccupied(p) ==
    /\ IF Mine(p).gen = seat[p].gen /\ ~Mine(p).terminal
       THEN Goto(p, "claim", "check") /\ SetRole(seat[p].index, Word(seat[p].gen, p, FALSE))
       ELSE Goto(p, "claim", "unmap") /\ UNCHANGED roles
    /\ UNCHANGED <<entry, members, Rings, Locals, ports, History>>

AdoptClaim(p) ==
    /\ IF Mine(p) = Word(seat[p].gen, NoOne, FALSE)
       THEN Goto(p, "claim", "check") /\ SetRole(seat[p].index, Word(seat[p].gen, p, FALSE))
       ELSE Goto(p, "claim", "unmap") /\ UNCHANGED roles
    /\ UNCHANGED <<entry, members, Rings, Locals, ports, History>>

\* the issuer must still hold its role
AdoptCheck(p) ==
    /\ LET issuer == roles[Peer(p)] IN
       IF issuer.terminal \/ issuer.owner = NoOne
       THEN Goto(p, "check", "undo") /\ UNCHANGED used
       ELSE Goto(p, "check", "open") /\ used' = used \cup {seat[p]}
    /\ UNCHANGED <<entry, members, roles, Rings, Locals, ports, count>>

\* Orphaned: the claimed word is given back
AdoptUndo(p) ==
    /\ Goto(p, "undo", "unmap")
    /\ LET claimed == Word(seat[p].gen, p, FALSE) IN
       IF Mine(p) = claimed THEN SetRole(seat[p].index, Released(claimed)) ELSE UNCHANGED roles
    /\ UNCHANGED <<entry, members, Rings, Locals, ports, History>>

\* the mapping is dropped: AdmitLayout::leave
Unmap(p) ==
    /\ Goto(p, "unmap", "idle")
    /\ members' = members \ {p}
    /\ seat' = [seat EXCEPT ![p] = NoSeat]
    /\ UNCHANGED <<entry, roles, Rings, at, raw, ports, History>>

----------------------------------------------------------------------------
(* Channel::invite.                                                        *)

InviteLoad(p) ==
    /\ Goto(p, "open", "invite")
    /\ Mine(p) = Word(seat[p].gen, p, FALSE)
    /\ ~roles[Peer(p)].terminal /\ roles[Peer(p)].owner = NoOne
    /\ raw' = [raw EXCEPT ![p] = roles[Peer(p)]]
    /\ UNCHANGED <<entry, members, roles, Rings, seat, at, ports, History>>

\* a new generation makes the earlier ports stale; the last one is retired
InviteSwap(p) ==
    /\ Goto(p, "invite", "open")
    /\ raw' = [raw EXCEPT ![p] = Blank]
    /\ IF roles[Peer(p)] = raw[p]
       THEN /\ SetRole(Peer(p), Released(raw[p]))
            /\ ports' = IF raw[p].gen = MaxGeneration THEN ports
                        ELSE ports \cup {[index |-> Peer(p), gen |-> raw[p].gen + 1]}
       ELSE UNCHANGED <<roles, ports>>
    /\ UNCHANGED <<entry, members, Rings, seat, at, History>>

----------------------------------------------------------------------------
(* Transfers: Tx::reserve, publish, cancel; Rx::claim, adopt or discard,   *)
(* and a Received that is dropped, which keeps its claim.                  *)

Sends(p) == seat[p].index
Receives(p) == Peer(p)
OpenBoth(d) == lifecycle["send"][d] = 0 /\ lifecycle["recv"][d] = 0
Uses(p) == pc[p] = "open" /\ UNCHANGED pc

\* the slot is owned before the lifecycle is looked at again
Reserve(p) ==
    /\ Uses(p)
    /\ slot[Sends(p)].is = "empty" /\ OpenBoth(Sends(p)) /\ count.published < MaxSends
    /\ SetSlot(Sends(p), "owning", p, TRUE)
    /\ UNCHANGED <<entry, members, roles, lifecycle, Locals, ports, History>>

ReserveAdmit(p) ==
    /\ Uses(p)
    /\ slot[Sends(p)].is = "owning" /\ slot[Sends(p)].owner = p
    /\ IF OpenBoth(Sends(p))
       THEN SetSlot(Sends(p), "admitted", p, TRUE)
       ELSE SetSlot(Sends(p), "empty", NoOne, FALSE)
    /\ UNCHANGED <<entry, members, roles, lifecycle, Locals, ports, History>>

\* the tail moves, also when the direction was closed meanwhile
ReserveCommit(p) ==
    /\ Uses(p)
    /\ slot[Sends(p)].is = "admitted" /\ slot[Sends(p)].owner = p
    /\ SetSlot(Sends(p), "reserved", p, TRUE)
    /\ UNCHANGED <<entry, members, roles, lifecycle, Locals, ports, History>>

Publish(p) ==
    /\ Uses(p)
    /\ slot[Sends(p)] = [is |-> "reserved", owner |-> p, held |-> TRUE]
    /\ \/ SetSlot(Sends(p), "full", NoOne, FALSE) /\ count' = [count EXCEPT !.published = @ + 1]
       \/ SetSlot(Sends(p), "skipped", NoOne, FALSE) /\ UNCHANGED count
    /\ UNCHANGED <<entry, members, roles, lifecycle, Locals, ports, used>>

Claim(p) ==
    /\ Uses(p)
    /\ lifecycle["recv"][Receives(p)] = 0
    /\ \/ slot[Receives(p)].is = "full" /\ SetSlot(Receives(p), "consumer", p, TRUE)
       \/ slot[Receives(p)].is = "skipped" /\ SetSlot(Receives(p), "empty", NoOne, FALSE)
    /\ UNCHANGED <<entry, members, roles, lifecycle, Locals, ports, History>>

Finish(p) ==
    /\ Uses(p)
    /\ slot[Receives(p)] = [is |-> "consumer", owner |-> p, held |-> TRUE]
    /\ \/ /\ SetSlot(Receives(p), "empty", NoOne, FALSE)
          /\ count' = [count EXCEPT !.settled = @ + 1]
       \/ SetSlot(Receives(p), "consumer", p, FALSE) /\ UNCHANGED count
    /\ UNCHANGED <<entry, members, roles, lifecycle, Locals, ports, used>>

----------------------------------------------------------------------------
(* Role::drop, then the mapping is dropped.  A Channel is dropped, and is  *)
(* unique for remove, when no permit and no claim of it is held.           *)

Unused(p) == \A d \in Sides : ~(slot[d].owner = p /\ slot[d].held)

\* Mutant: the released role keeps its generation.
DropRoleSame(p) ==
    /\ Goto(p, "open", "unmap")
    /\ Unused(p)
    /\ IF Mine(p).gen = seat[p].gen /\ Mine(p).owner = p
       THEN SetRole(seat[p].index, [Mine(p) EXCEPT !.owner = NoOne])
       ELSE UNCHANGED roles
    /\ UNCHANGED <<entry, members, Rings, Locals, ports, History>>

DropRole(p) ==
    /\ Goto(p, "open", "unmap")
    /\ Unused(p)
    /\ IF Mine(p).gen = seat[p].gen /\ Mine(p).owner = p
       THEN SetRole(seat[p].index, Released(Mine(p)))
       ELSE UNCHANGED roles
    /\ UNCHANGED <<entry, members, Rings, Locals, ports, History>>

----------------------------------------------------------------------------
(* Session::remove with Channel::close_with.  Every "open" after the start *)
(* is RemoveError: the channel is returned to the caller.                  *)

\* Mutant: a role that close_with made terminal and unowned cannot be closed again.
CloseRoleOnce(p) ==
    /\ p \in Removers /\ Unused(p)
    /\ Mine(p).gen = seat[p].gen /\ Mine(p).owner = p
    /\ Goto(p, "open", "stop") /\ SetRole(seat[p].index, [Mine(p) EXCEPT !.terminal = TRUE])
    /\ at' = [at EXCEPT ![p] = 0]
    /\ UNCHANGED <<entry, members, Rings, seat, raw, ports, History>>

\* the own role becomes terminal; it already is when remove is called again
CloseRole(p) ==
    /\ p \in Removers /\ Unused(p)
    /\ IF Mine(p).gen # seat[p].gen \/ Mine(p).owner # p
       THEN /\ Mine(p).terminal /\ Mine(p).owner = NoOne
            /\ Goto(p, "open", "peer") /\ UNCHANGED roles
       ELSE /\ Goto(p, "open", "stop")
            /\ SetRole(seat[p].index, [Mine(p) EXCEPT !.terminal = TRUE])
    /\ at' = [at EXCEPT ![p] = 0]
    /\ UNCHANGED <<entry, members, Rings, seat, raw, ports, History>>

\* RemoveError
Back(p, here) == Goto(p, here, "open") /\ at' = [at EXCEPT ![p] = 0]

Set(f, d, bits) ==  \* fetch_or
    lifecycle' = [lifecycle EXCEPT ![f][d] = IF bits = 3 THEN 3 ELSE IF @ = 0 THEN 1 ELSE @]

\* the same phase for the next direction, or the next phase
Turn(p, here, again, next) ==
    /\ Goto(p, here, IF at[p] = 0 THEN again ELSE next)
    /\ at' = [at EXCEPT ![p] = 1 - @]

CloseSend(p) ==
    /\ Turn(p, "stop", "stop", "drain")
    /\ Set("send", at[p], 1)
    /\ UNCHANGED <<entry, members, roles, slot, seat, raw, ports, History>>

\* Queue::claim answers Closed, or Busy for a reservation that was committed
DrainBusy(p) ==
    /\ Back(p, "drain")
    /\ lifecycle["recv"][at[p]] # 0 \/ slot[at[p]].is = "reserved"
    /\ UNCHANGED <<entry, members, roles, Rings, seat, raw, ports, History>>

DrainClaim(p) ==
    /\ lifecycle["recv"][at[p]] = 0
    /\ \/ /\ slot[at[p]].is = "full"
          /\ Goto(p, "drain", "release") /\ UNCHANGED at
          /\ SetSlot(at[p], "consumer", p, TRUE)
       \/ \* a skipped position is recycled; claim answers Busy
          /\ slot[at[p]].is = "skipped"
          /\ Back(p, "drain")
          /\ SetSlot(at[p], "empty", NoOne, FALSE)
    /\ UNCHANGED <<entry, members, roles, lifecycle, seat, raw, ports, History>>

\* release_token; when it fails the claim is forgotten (CloseError::Evidence)
DrainRelease(p) ==
    /\ \/ /\ Goto(p, "release", "drain") /\ UNCHANGED at
          /\ SetSlot(at[p], "empty", NoOne, FALSE)
          /\ count' = [count EXCEPT !.settled = @ + 1]
       \/ /\ Back(p, "release")
          /\ SetSlot(at[p], "consumer", p, FALSE)
          /\ UNCHANGED count
    /\ UNCHANGED <<entry, members, roles, lifecycle, seat, raw, ports, used>>

DrainEmpty(p) ==
    /\ lifecycle["recv"][at[p]] = 0 /\ IsEmpty(at[p])
    /\ Goto(p, "drain", "sent")
    /\ UNCHANGED <<entry, members, roles, Rings, Locals, ports, History>>

SendClosed(d) == slot[d].is \notin Producer \/ lifecycle["send"][d] = 3

\* Mutant: the direction is not looked at again after the senders are gone.
DrainDoneOnce(p) ==
    /\ IF SendClosed(at[p])
       THEN Turn(p, "sent", "drain", "seal")
       ELSE Back(p, "sent")
    /\ IF SendClosed(at[p]) THEN Set("send", at[p], 3) ELSE UNCHANGED lifecycle
    /\ UNCHANGED <<entry, members, roles, slot, seat, raw, ports, History>>

\* send_closed() and is_empty()
DrainDone(p) ==
    /\ IF SendClosed(at[p]) /\ IsEmpty(at[p])
       THEN Turn(p, "sent", "drain", "seal")
       ELSE Back(p, "sent")
    /\ IF SendClosed(at[p]) THEN Set("send", at[p], 3) ELSE UNCHANGED lifecycle
    /\ UNCHANGED <<entry, members, roles, slot, seat, raw, ports, History>>

\* close_recv and recv_closed
CloseRecv(p) ==
    /\ IF slot[at[p]].is # "consumer" \/ lifecycle["recv"][at[p]] = 3
       THEN Turn(p, "seal", "seal", "retire") /\ Set("recv", at[p], 3)
       ELSE Back(p, "seal") /\ Set("recv", at[p], 1)
    /\ UNCHANGED <<entry, members, roles, slot, seat, raw, ports, History>>

CloseFinal(p) ==
    /\ IF Mine(p) = Word(seat[p].gen, p, TRUE)
       THEN Goto(p, "retire", "peer") /\ SetRole(seat[p].index, Word(seat[p].gen, NoOne, TRUE))
       ELSE /\ Goto(p, "retire", IF Mine(p).terminal /\ Mine(p).owner = NoOne THEN "peer"
                                 ELSE "open")
            /\ UNCHANGED roles
    /\ UNCHANGED <<entry, members, Rings, Locals, ports, History>>

PeerCheck(p) ==
    /\ Goto(p, "peer", IF roles[Peer(p)].owner = NoOne THEN "reclaim" ELSE "open")
    /\ UNCHANGED <<entry, members, roles, Rings, Locals, ports, History>>

\* Mutant: the layout is reclaimed while others are attached.
ReclaimShared(p) ==
    /\ Goto(p, "reclaim", "idle")
    /\ entry' = "removed" /\ members' = {}
    /\ seat' = [seat EXCEPT ![p] = NoSeat]
    /\ UNCHANGED <<roles, Rings, at, raw, ports, History>>

\* into_closed_mapped, then Directory::remove_in with RcHeader::close_unique
Reclaim(p) ==
    /\ Goto(p, "reclaim", "idle")
    /\ Mine(p).terminal /\ Mine(p).owner = NoOne /\ members = {p}
    /\ entry' = "removed" /\ members' = {}
    /\ seat' = [seat EXCEPT ![p] = NoSeat]
    /\ UNCHANGED <<roles, Rings, at, raw, ports, History>>

\* not the only member, or the directory or the heap is busy
ReclaimBusy(p) ==
    /\ Goto(p, "reclaim", "open")
    /\ UNCHANGED <<entry, members, roles, Rings, Locals, ports, History>>

----------------------------------------------------------------------------
(* Death, and the part of Recovery::reap_with that concerns the channel:   *)
(* Layout::recover of Duplex, then recover_member.                         *)

\* the locals of its calls are gone with it
Die(p) ==
    /\ p \in Mortal \cap alive
    /\ alive' = alive \ {p}
    /\ pc' = [pc EXCEPT ![p] = "idle"]
    /\ seat' = [seat EXCEPT ![p] = NoSeat]
    /\ at' = [at EXCEPT ![p] = 0]
    /\ raw' = [raw EXCEPT ![p] = Blank]
    /\ UNCHANGED <<entry, members, roles, Rings, ports, dead, History>>

Reap(who, step) == dead' = [who |-> who, step |-> step]

ReapStart ==
    /\ dead.who = NoOne
    /\ \E p \in members \ alive : Reap(p, "slots")
    /\ UNCHANGED <<members, roles, slot, count>>

\* repair_slot_with: an uncommitted reservation is undone, a committed one is
\* skipped, a claim is released
Repaired(w) ==
    IF w.owner # dead.who THEN w
    ELSE IF w.is = "reserved" THEN [is |-> "skipped", owner |-> NoOne, held |-> FALSE] ELSE Free

\* transfers whose claim is released
Settles(w) == IF w.owner = dead.who /\ w.is = "consumer" THEN 1 ELSE 0

ReapSlots ==
    /\ dead.step = "slots" /\ dead.who # NoOne /\ Reap(dead.who, "role0")
    /\ slot' = [d \in Sides |-> Repaired(slot[d])]
    /\ count' = [count EXCEPT !.settled = @ + Settles(slot[0]) + Settles(slot[1])]
    /\ UNCHANGED <<members, roles>>

ReapRole ==
    /\ \/ dead.step = "role0" /\ Reap(dead.who, "role1")
       \/ dead.step = "role1" /\ Reap(dead.who, "member")
    /\ LET i == IF dead.step = "role0" THEN 0 ELSE 1 IN
       IF roles[i].owner = dead.who THEN SetRole(i, Released(roles[i])) ELSE UNCHANGED roles
    /\ UNCHANGED <<members, slot, count>>

ReapMember ==
    /\ dead.step = "member" /\ Reap(NoOne, "slots")
    /\ members' = members \ {dead.who}
    /\ UNCHANGED <<roles, slot, count>>

ReaperStep ==
    /\ entry = "published"
    /\ ReapStart \/ ReapSlots \/ ReapRole \/ ReapMember
    /\ UNCHANGED <<entry, lifecycle, alive, pc, Locals, ports, used>>

----------------------------------------------------------------------------
RemoveStep(p) ==
    \/ CloseSend(p) \/ DrainBusy(p) \/ DrainClaim(p) \/ DrainRelease(p) \/ DrainEmpty(p)
    \/ DrainDone(p) \/ CloseRecv(p) \/ CloseFinal(p) \/ PeerCheck(p) \/ Reclaim(p) \/ ReclaimBusy(p)

\* the steps that finish a call that began
Continue(p) ==
    /\ p \in alive /\ UNCHANGED <<alive, dead>>
    /\ \/ CreateIssuer(p) \/ CreateOffer(p) \/ AdoptClaim(p) \/ AdoptCheck(p) \/ AdoptUndo(p)
       \/ Unmap(p) \/ InviteSwap(p) \/ RemoveStep(p)

Begin(p) ==
    /\ p \in alive /\ UNCHANGED <<alive, dead>>
    /\ Create(p) \/ AdoptOpen(p) \/ InviteLoad(p) \/ DropRole(p)

Transfer(p) ==
    /\ p \in alive /\ UNCHANGED <<alive, dead>>
    /\ Reserve(p) \/ ReserveAdmit(p) \/ ReserveCommit(p) \/ Publish(p) \/ Claim(p) \/ Finish(p)

Remove(p) == p \in alive /\ UNCHANGED <<alive, dead>> /\ CloseRole(p)

ChannelNext ==
    \/ \E p \in Participants : Continue(p) \/ Begin(p) \/ Transfer(p) \/ Remove(p) \/ Die(p)
    \/ ReaperStep

ChannelSpec == ChannelInit /\ [][ChannelNext]_chanVars
----------------------------------------------------------------------------
(* Properties.                                                             *)

Steps == {"idle", "create", "offer", "open", "claim", "check", "undo", "unmap", "invite",
          "stop", "drain", "release", "sent", "seal", "retire", "peer", "reclaim"}

\* The state is well typed; a CONSUMER or PRODUCER word names its owner.
ChannelTypeOK ==
    /\ entry \in {"none", "published", "removed"} /\ members \subseteq Participants
    /\ roles \in [Sides -> Role]
    /\ lifecycle \in [{"send", "recv"} -> [Sides -> {0, 1, 3}]]
    /\ slot \in [Sides -> [is : SlotStates, owner : Participants \cup {NoOne}, held : BOOLEAN]]
    /\ \A d \in Sides : (slot[d].owner = NoOne) <=> (slot[d].is \in {"empty", "full", "skipped"})
    /\ pc \in [Participants -> Steps]
    /\ count.settled <= count.published

Closing == {"stop", "drain", "release", "sent", "seal", "retire"}

\* a call or a value of p may touch the channel's memory
Attached(p) == p \in alive /\ pc[p] # "idle"

\* A role has one holder: the word of a role that a living participant was
\* admitted to names it, until its own remove has closed the channel.
OneHolder == \A p \in alive :
    /\ pc[p] \in Closing => Mine(p) = Word(seat[p].gen, p, TRUE)
    /\ pc[p] \in {"open", "invite"} =>
         \/ Mine(p).gen = seat[p].gen /\ Mine(p).owner = p
         \/ Mine(p) = Word(seat[p].gen, NoOne, TRUE)

\* A port admits at most one holder, also after its holder left or died, after a
\* rolled back adoption and after a new invitation ("reinvite invalidates the
\* previous port generation", tests/mock/talc.rs).
PortAdmitsOnce ==
    [][\A p \in Participants : pc[p] = "check" /\ pc'[p] = "open" => seat[p] \notin used]_chanVars

\* Everyone who may touch the memory of the channel is a member of its layout, so
\* nobody does once it is removed: "Closing the issuer first makes a racing Port
\* adoption roll back before this observation can authorize layout reclamation"
\* (session.rs, Session::remove).
RemovedIsAlone == \A p \in Participants : Attached(p) => p \in members /\ entry = "published"

\* No transfer is reclaimed with the channel: when it is removed every published
\* transfer was received, or released by the one who closed it or by recovery.
RemovedIsDrained ==
    entry = "removed" => count.published = count.settled /\ \A d \in Sides : slot[d] = Free

\* A terminal role stays so and generations only grow: an invitation or a recovery
\* that lost its race never reopens a role.
RolesOnlyAdvance ==
    [][\A i \in Sides : /\ roles[i].terminal => roles'[i].terminal
                        /\ roles'[i].gen >= roles[i].gen]_chanVars

----------------------------------------------------------------------------
(* Liveness: the calls of the persistent removers run on, and they call    *)
(* remove again as long as they get the channel back.  Nothing is assumed  *)
(* of the others: they may stop, and the dead may stay unrecovered.        *)

ChannelFairness == \A p \in Persistent :
    WF_chanVars(Continue(p)) /\ SF_chanVars(Remove(p)) /\ SF_chanVars(Continue(p) /\ Reclaim(p))

FairChannelSpec == ChannelSpec /\ ChannelFairness

\* a claim that nobody will finish
Stuck == \E d \in Sides : slot[d].is = "consumer" /\ ~slot[d].held

Alone(p) == pc[p] = "open" /\ members = {p}

\* The participant whose close_with finished, and who calls remove again once it is
\* the only member, removes the channel, unless it leaves or another one attaches.
ClosedIsRemovable ==
    \A p \in Persistent : Alone(p) /\ Mine(p) = Word(seat[p].gen, NoOne, TRUE)
        ~> members # {p} \/ pc[p] = "idle"

\* "On contention the channel is returned for retry" (session.rs, Session::remove):
\* the only holder of a channel who calls remove again and again removes it, unless
\* it leaves or dies, has lost evidence of a transfer, or another one attaches.
RemoveSucceeds ==
    \A p \in Persistent : Alone(p) ~> members # {p} \/ pc[p] = "idle" \/ Stuck
=============================================================================
