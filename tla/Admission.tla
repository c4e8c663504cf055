----------------------------- MODULE Admission -----------------------------
(***************************************************************************)
(* How processes come to share a region: Region::new (mem.rs), the record  *)
(* and the membership word of a layout and the participants of the root    *)
(* (header.rs), Session::create, open and drop (session.rs), and how the   *)
(* supervisor of a process learns that it is gone (process.rs).            *)
(*                                                                         *)
(* A region holds three layouts at fixed places: the root, the directory   *)
(* and the heap.  A session admits them in this order; whoever finds one   *)
(* uninitialised, and may, initialises it.  Each access to shared memory   *)
(* is an action, except the writes of an initialiser, which nobody reads   *)
(* before the record is published.                                         *)
(***************************************************************************)
EXTENDS Naturals, FiniteSets

CONSTANTS
    Processes,
    Plans,        \* per process: how it may ask for the region (create, region, info)
    Valid,        \* heap geometries (info) that are valid for the extent of the heap
    Mortal,       \* processes that may die
    Reapers,      \* processes that recover dead participants
    Participants, \* number of participant slots
    MaxMember,    \* generation at which a participant slot is retired
    Nobody        \* no participant slot, no plan, nothing loaded

ASSUME AdmissionAssumption == Participants \in Nat /\ MaxMember \in Nat /\ Nobody \notin Nat

VARIABLES
    layout,   \* per layout: status, region, information and members
    root,     \* per participant slot: state and generation
    pc,       \* per process: its next step
    plan,     \* per process: how it asks for the region
    at,       \* per process: the layout it is admitting, or the slot it tries
    saw,      \* per process: what its last load returned
    member,   \* per process: its participant slot and generation
    attached, \* per process: the layouts it is a member of
    victim,   \* per process: the participant it recovers
    lost,     \* participants whose process is gone
    exits     \* those of them whose exit their supervisor has seen

shared == <<layout, root>>
admissionVars == <<layout, root, pc, plan, at, saw, member, attached, victim, lost, exits>>

Layouts == {"root", "dir", "heap"}
Numbers == 1 .. Participants
NoMember == [slot |-> Nobody, gen |-> 0]
Unmapped == [status |-> "uninitialized", region |-> Nobody, info |-> Nobody, members |-> {}]

AdmissionInit ==
    /\ layout = [l \in Layouts |-> Unmapped]
    /\ root = [s \in Numbers |-> [state |-> "free", gen |-> 0]]
    /\ pc = [p \in Processes |-> "out"]
    /\ plan = [p \in Processes |-> Nobody]
    /\ at = [p \in Processes |-> Nobody]
    /\ saw = [p \in Processes |-> Nobody]
    /\ member = [p \in Processes |-> NoMember]
    /\ attached = [p \in Processes |-> {}]
    /\ victim = [p \in Processes |-> NoMember]
    /\ lost = {}
    /\ exits = {}

----------------------------------------------------------------------------
(* RcHeader::admit.                                                        *)

Go(p, step, where, what) ==
    /\ pc' = [pc EXCEPT ![p] = step]
    /\ at' = [at EXCEPT ![p] = where]
    /\ saw' = [saw EXCEPT ![p] = what]
Runs(p, step) == pc[p] = step
Mine(p) == member[p].slot
Others == <<plan, member, attached, victim, lost, exits>>
Here(p) == layout[at[p]]
Info(p, l) == IF l = "heap" THEN plan[p].info ELSE Nobody

\* an admission that fails drops what the session has so far
Refused(p) == Go(p, "leave dir", Nobody, Nobody)

\* what follows the admission of a layout
Admitted(p, l) ==
    /\ attached' = [attached EXCEPT ![p] = @ \cup {l}]
    /\ CASE l = "root" -> Go(p, "join", 1, Nobody)
         [] l = "dir"  -> Go(p, "admit", "heap", Nobody)
         [] l = "heap" -> Go(p, "in", Nobody, Nobody)

Ask(p, how) ==
    /\ Runs(p, "out")
    /\ how \in Plans[p]
    /\ plan' = [plan EXCEPT ![p] = how]
    /\ Go(p, "admit", "root", Nobody)
    /\ UNCHANGED <<layout, root, member, attached, victim, lost, exits>>

\* mismatch_at: the record was made for another region or with other information
Mismatch(p) == Here(p).region # plan[p].region \/ Here(p).info # Info(p, at[p])

Admit(p) ==
    /\ Runs(p, "admit")
    /\ \/ /\ Here(p).status = "uninitialized" /\ plan[p].create
          /\ Go(p, "begin", at[p], Nobody) /\ UNCHANGED attached
       \/ /\ \/ Here(p).status = "uninitialized" /\ ~plan[p].create
             \/ Here(p).status \in {"initializing", "corrupted"}
             \/ Here(p).status = "initialized" /\ Mismatch(p)
          /\ Refused(p) /\ UNCHANGED attached
       \/ /\ Here(p).status = "initialized" /\ ~Mismatch(p)
          \* the root has no members: participants are its body
          /\ IF at[p] = "root" THEN Admitted(p, "root")
             ELSE Go(p, "claim", at[p], Nobody) /\ UNCHANGED attached
    /\ UNCHANGED <<shared, plan, member, victim, lost, exits>>

\* Mutant: the status is stored, not exchanged.
BeginBlind(p) ==
    /\ Runs(p, "begin")
    /\ layout' = [layout EXCEPT ![at[p]].status = "initializing"]
    /\ Go(p, "init", at[p], Nobody)
    /\ UNCHANGED <<root, Others>>

Begin(p) ==
    /\ Runs(p, "begin")
    /\ IF Here(p).status = "uninitialized"
       THEN /\ layout' = [layout EXCEPT ![at[p]].status = "initializing"]
            /\ Go(p, "init", at[p], Nobody)
       ELSE Go(p, "admit", at[p], Nobody) /\ UNCHANGED layout
    /\ UNCHANGED <<root, Others>>

\* the record, then the body; a heap whose geometry is not valid stays corrupted
InitBody(p) ==
    LET l == at[p]  done == l = "heap" => plan[p].info \in Valid IN
    /\ Runs(p, "init")
    /\ layout' = [layout EXCEPT ![l] =
                    [status |-> IF done THEN @.status ELSE "corrupted",
                     region |-> plan[p].region, info |-> Info(p, l),
                     members |-> IF done /\ l # "root" THEN {Mine(p)} ELSE {}]]
    /\ root' = IF l = "root" THEN [s \in Numbers |-> [state |-> "free", gen |-> 0]] ELSE root
    /\ IF done THEN Go(p, "publish", l, Nobody) ELSE Refused(p)
    /\ UNCHANGED Others

Publish(p) ==
    /\ Runs(p, "publish")
    /\ layout' = [layout EXCEPT ![at[p]].status = "initialized"]
    /\ Admitted(p, at[p])
    /\ UNCHANGED <<root, plan, member, victim, lost, exits>>

ClaimLoad(p) ==
    /\ Runs(p, "claim")
    /\ IF Mine(p) \in Here(p).members THEN Refused(p)
       ELSE Go(p, "claim swap", at[p], Here(p).members)
    /\ UNCHANGED <<shared, Others>>

\* Mutant: what was loaded is stored with the bit of the process.
ClaimStore(p) ==
    /\ Runs(p, "claim swap")
    /\ layout' = [layout EXCEPT ![at[p]].members = saw[p] \cup {Mine(p)}]
    /\ Admitted(p, at[p])
    /\ UNCHANGED <<root, plan, member, victim, lost, exits>>

ClaimSwap(p) ==
    /\ Runs(p, "claim swap")
    /\ IF Here(p).members = saw[p]
       THEN /\ layout' = [layout EXCEPT ![at[p]].members = @ \cup {Mine(p)}]
            /\ Admitted(p, at[p])
       ELSE Refused(p) /\ UNCHANGED <<layout, attached>>
    /\ UNCHANGED <<root, plan, member, victim, lost, exits>>

----------------------------------------------------------------------------
(* Root: participants.                                                     *)

Become(s, state, gen) == root' = [root EXCEPT ![s] = [state |-> state, gen |-> gen]]

JoinLoad(p) ==
    /\ Runs(p, "join")
    /\ IF at[p] > Participants THEN Refused(p)
       ELSE IF root[at[p]].state # "free" THEN Go(p, "join", at[p] + 1, Nobody)
       ELSE Go(p, "join swap", at[p], root[at[p]].gen)
    /\ UNCHANGED <<shared, Others>>

JoinSwap(p) ==
    LET unchanged == root[at[p]] = [state |-> "free", gen |-> saw[p]] IN
    /\ Runs(p, "join swap")
    /\ \/ /\ unchanged /\ saw[p] < MaxMember
          /\ Become(at[p], "live", saw[p] + 1)
          /\ member' = [member EXCEPT ![p] = [slot |-> at[p], gen |-> saw[p] + 1]]
          /\ Go(p, "admit", "dir", Nobody)
       \/ /\ saw[p] = MaxMember
          /\ IF unchanged THEN Become(at[p], "retired", saw[p]) ELSE UNCHANGED root
          /\ Go(p, "join", at[p] + 1, Nobody) /\ UNCHANGED member
       \/ /\ ~unchanged /\ saw[p] < MaxMember
          /\ Go(p, "join", at[p] + 1, Nobody) /\ UNCHANGED <<root, member>>
    /\ UNCHANGED <<layout, plan, attached, victim, lost, exits>>

----------------------------------------------------------------------------
(* Dropping a session: the directory, the heap, and last the region.       *)

Close(p) ==
    /\ Runs(p, "in")
    /\ victim[p] = NoMember
    /\ Go(p, "leave dir", Nobody, Nobody)
    /\ UNCHANGED <<shared, Others>>

LeaveLayout(p, l, next) ==
    /\ layout' = IF l \in attached[p] THEN [layout EXCEPT ![l].members = @ \ {Mine(p)}] ELSE layout
    /\ attached' = [attached EXCEPT ![p] = @ \ {l}]
    /\ Go(p, next, Nobody, Nobody)
    /\ UNCHANGED <<root, plan, member, victim, lost, exits>>

LeaveDir(p) == Runs(p, "leave dir") /\ LeaveLayout(p, "dir", "leave heap")
LeaveHeap(p) == Runs(p, "leave heap") /\ LeaveLayout(p, "heap", "leave root")

\* a process that is not a participant, or no longer one, has nothing to free
LeaveRoot(p) ==
    LET m == member[p] IN
    /\ Runs(p, "leave root")
    /\ IF m # NoMember /\ root[m.slot] = [state |-> "live", gen |-> m.gen]
       THEN Become(m.slot, "free", m.gen) ELSE UNCHANGED root
    /\ member' = [member EXCEPT ![p] = NoMember]
    /\ attached' = [attached EXCEPT ![p] = {}]
    /\ plan' = [plan EXCEPT ![p] = Nobody]
    /\ Go(p, "out", Nobody, Nobody)
    /\ UNCHANGED <<layout, victim, lost, exits>>

----------------------------------------------------------------------------
(* Death, and Recovery::reap_with as far as the session's own layouts are  *)
(* concerned.  A new process may start in the place of a dead one.         *)

Die(p) ==
    /\ p \in Mortal
    /\ pc[p] # "out"
    /\ lost' = IF member[p] = NoMember THEN lost ELSE lost \cup {member[p]}
    /\ Go(p, "out", Nobody, Nobody)
    /\ plan' = [plan EXCEPT ![p] = Nobody]
    /\ member' = [member EXCEPT ![p] = NoMember]
    /\ attached' = [attached EXCEPT ![p] = {}]
    /\ victim' = [victim EXCEPT ![p] = NoMember]
    /\ UNCHANGED <<shared, exits>>

\* Supervisor::try_wait, wait, kill_wait: an exit is terminal evidence
Wait(m) == m \in lost /\ exits' = exits \cup {m}

Supervise(m) ==
    /\ m \notin exits
    /\ Wait(m)
    /\ UNCHANGED <<layout, root, pc, plan, at, saw, member, attached, victim, lost>>

\* the exact generation is marked, or was marked already
AssumeDead(p, m) ==
    /\ Runs(p, "in") /\ p \in Reapers
    /\ m \in exits /\ m # member[p] /\ victim[p] = NoMember
    /\ root[m.slot] \in {[state |-> "live", gen |-> m.gen], [state |-> "dead", gen |-> m.gen]}
    /\ Become(m.slot, "dead", m.gen)
    /\ victim' = [victim EXCEPT ![p] = m]
    /\ Go(p, "reap heap", Nobody, Nobody)
    /\ UNCHANGED <<layout, plan, member, attached, lost, exits>>

Unlist(p, l, here, next) ==
    /\ Runs(p, here)
    /\ layout' = [layout EXCEPT ![l].members = @ \ {victim[p].slot}]
    /\ Go(p, next, Nobody, Nobody)
    /\ UNCHANGED <<root, Others>>

\* Mutant: the slot is released before the directory has forgotten it.
ReapHeapOnly(p) == Unlist(p, "heap", "reap heap", "release dead")

ReapHeap(p) == Unlist(p, "heap", "reap heap", "reap dir")
ReapDir(p) == Unlist(p, "dir", "reap dir", "release dead")

ReleaseDead(p) ==
    LET m == victim[p] IN
    /\ Runs(p, "release dead")
    /\ IF root[m.slot] = [state |-> "dead", gen |-> m.gen]
       THEN Become(m.slot, IF m.gen = MaxMember THEN "retired" ELSE "free", m.gen)
       ELSE UNCHANGED root
    /\ victim' = [victim EXCEPT ![p] = NoMember]
    /\ Go(p, "in", Nobody, Nobody)
    /\ UNCHANGED <<layout, plan, member, attached, lost, exits>>

----------------------------------------------------------------------------

\* what a process does besides initialising a body
Step(p) ==
    \/ \E how \in Plans[p] : Ask(p, how)
    \/ Admit(p) \/ Begin(p) \/ Publish(p) \/ ClaimLoad(p) \/ ClaimSwap(p) \/ JoinLoad(p) \/ JoinSwap(p)
    \/ Close(p) \/ LeaveDir(p) \/ LeaveHeap(p) \/ LeaveRoot(p)
    \/ \E m \in exits : AssumeDead(p, m)
    \/ ReapHeap(p) \/ ReapDir(p) \/ ReleaseDead(p) \/ Die(p)

Members == [slot : Numbers, gen : 1 .. MaxMember]
AdmissionNext ==
    \/ \E p \in Processes : Step(p) \/ InitBody(p)
    \/ \E m \in Members : Supervise(m)

AdmissionSpec == AdmissionInit /\ [][AdmissionNext]_admissionVars

----------------------------------------------------------------------------
(* Properties.                                                             *)

\* The types of the variables (header.rs, mem.rs).
AdmissionTypeOK ==
    /\ \A l \in Layouts :
        /\ layout[l].status \in {"uninitialized", "initializing", "initialized", "corrupted"}
        /\ layout[l].members \subseteq Numbers
    /\ root \in [Numbers -> [state : {"free", "live", "dead", "retired"}, gen : 0 .. MaxMember]]
    /\ \A p \in Processes :
        /\ member[p] \in Members \cup {NoMember} /\ victim[p] \in Members \cup {NoMember}
        /\ attached[p] \subseteq Layouts
    /\ exits \subseteq lost /\ lost \subseteq Members

\* Whoever has been admitted to a layout finds it initialised, for its own
\* region and with its own information: no body is initialised twice, or used
\* before it is (RcHeader::admit).
AttachedIsBuilt ==
    \A p \in Processes : \A l \in attached[p] :
        /\ layout[l].status = "initialized"
        /\ layout[l].region = plan[p].region
        /\ layout[l].info = Info(p, l)

\* A live process keeps its participant slot for itself, and the layouts it is
\* attached to know it; no admission, departure or recovery of another process
\* takes either away (Root::join, RcHeader::claim, Recovery::reap_with).
HoldersAreMembers ==
    \A p \in Processes : member[p] # NoMember =>
        /\ root[Mine(p)] = [state |-> "live", gen |-> member[p].gen]
        /\ \A q \in Processes \ {p} : Mine(q) # Mine(p)
        /\ \A l \in attached[p] \ {"root"} : Mine(p) \in layout[l].members

\* A free slot is in no membership word: otherwise the next process to take it
\* is refused with DuplicateMember for ever (RcHeader::claim, header.rs:514).
FreeSlotIsClean ==
    \A s \in Numbers : root[s].state = "free" =>
        \A l \in {"dir", "heap"} : layout[l].status = "initialized" => s \notin layout[l].members

\* A participant is named by a slot and a generation, and a name is given once:
\* evidence against one process never condemns a later one (Root::mark_dead).
NamesAreGivenOnce ==
    [][\A s \in Numbers :
        /\ root'[s].gen >= root[s].gen
        /\ root'[s].state = "live" /\ root[s].state # "live" => root'[s].gen > root[s].gen
        /\ root[s].state = "retired" => root'[s] = root[s]]_root
=============================================================================
