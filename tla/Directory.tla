----------------------------- MODULE Directory -----------------------------
(***************************************************************************)
(* The directory of a region (dir.rs) with what its transactions stand on: *)
(* the participant table of the root (header.rs), the mutation lock of the *)
(* general heap (talc.rs), the membership word of each layout (header.rs)  *)
(* and Recovery::reap_with (session.rs).                                   *)
(*                                                                         *)
(* A process is known to shared memory by its slot; one thread per process *)
(* runs at a time.  An operation of the code is a program: the sequence of *)
(* its accesses to shared memory, held in todo.  Each access is an action, *)
(* and a process may die before any of them.  What the heap algorithm does *)
(* inside a mutation is in Talc.tla; here a mutation is two steps, and the *)
(* heap is torn between them.                                              *)
(***************************************************************************)
EXTENDS Naturals, Sequences, FiniteSets

CONSTANTS
    Slots,            \* participant slots of the root
    Mortal,           \* slots whose process may die
    Workers,          \* slots whose process creates, opens and removes layouts
    HeapUsers,        \* slots whose process uses the general heap
    Reapers,          \* slots whose process recovers dead ones
    MaxMember,        \* generation at which a participant slot is retired
    Joined,           \* per slot: the generation of its first process
    SlabCapacity,     \* entries of a slab
    MaxSlabs,         \* bound: slabs, the root slab included
    Blocks,           \* allocations the heap can hold
    MaxGeneration,    \* generation at which an entry is not reused
    DebugAssertions,  \* whether debug_assert! evaluates its argument
    None              \* no slot, no block

Entries == 1 .. SlabCapacity * MaxSlabs
SlabOf(e) == (e - 1) \div SlabCapacity
Ids == [entry : Entries, gen : 1 .. MaxGeneration]
NoEntry == 0

ASSUME DirectoryAssumption ==
    /\ Mortal \cup Workers \cup HeapUsers \cup Reapers \subseteq Slots /\ IsFiniteSet(Slots)
    /\ None \notin Slots \cup Blocks
    /\ SlabCapacity \in Nat \ {0} /\ MaxSlabs \in Nat \ {0}
    /\ MaxGeneration \in Nat \ {0} /\ MaxMember \in Nat \ {0}
    /\ Joined \in [Slots -> 1 .. MaxMember] /\ DebugAssertions \in BOOLEAN

VARIABLES
    root,       \* per slot: state and generation of the participant
    alive,      \* slots whose process runs
    word,       \* the transaction word: owner slot and phase
    pending,    \* the persisted evidence: kind, entry (or NoEntry), block
    entry,      \* per entry: state, generation, block
    slabs,      \* blocks of the linked slabs after the root slab
    lock,       \* the mutation word of the heap: "clean", "poisoned" or a slot
    torn,       \* a heap mutation has begun and not ended
    allocated,  \* blocks the heap has handed out
    header,     \* per block: the layout header there and its members
    maps,       \* admitted layouts: slot, id and block
    known,      \* ids that a create has returned
    todo, at    \* per slot: the rest of its operation, and its locals

rootVars == <<root, alive>>
dirVars == <<word, pending, entry, slabs>>
heapVars == <<lock, torn, allocated>>
layoutVars == <<header, maps, known>>
vars == <<rootVars, dirVars, heapVars, layoutVars, todo, at>>

Clean == [owner |-> None, phase |-> "clean"]
Held(s, phase) == [owner |-> s, phase |-> phase]
Cell(state, gen, block) == [state |-> state, gen |-> gen, block |-> block]
Blank == [state |-> "blank", members |-> {}]
NoWork == [entry |-> NoEntry, gen |-> 0, block |-> None, seen |-> Clean,
           dead |-> [slot |-> None, gen |-> 0]]

\* the processes have joined and admitted the directory and the heap
DirectoryInit ==
    /\ root = [s \in Slots |-> [state |-> "live", gen |-> Joined[s]]]
    /\ alive = Slots
    /\ word = Clean
    /\ pending = [kind |-> "create", entry |-> NoEntry, block |-> None]
    /\ entry = [e \in Entries |-> Cell("vacant", 0, None)]
    /\ slabs = <<>>
    /\ lock = "clean" /\ torn = FALSE /\ allocated = {}
    /\ header = [b \in Blocks |-> Blank]
    /\ maps = {} /\ known = {}
    /\ todo = [s \in Slots |-> <<>>]
    /\ at = [s \in Slots |-> NoWork]

Idle(s) == s \in alive /\ todo[s] = <<>>
Doing(s, step) == s \in alive /\ todo[s] # <<>> /\ Head(todo[s]) = step
Continue(s, program) == todo' = [todo EXCEPT ![s] = program]
Proceed(s) == Continue(s, Tail(todo[s]))
Note(s, f) == at' = [at EXCEPT ![s] = f]
Returned(s) == [NoWork EXCEPT !.dead = at[s].dead]  \* locals are gone, a Recovery value stays
Store(e, state, gen, block) == entry' = [entry EXCEPT ![e] = Cell(state, gen, block)]

\* the entries of the linked slabs, which is what the loops over slabs visit
Linked(e) == SlabOf(e) <= Len(slabs)
----------------------------------------------------------------------------
(* Root::join, leave and mark_dead, and what admits and detaches a layout. *)

Become(s, state, gen) == root' = [root EXCEPT ![s] = [state |-> state, gen |-> gen]]

Join(s) ==
    /\ root[s].state = "free" /\ s \notin alive
    /\ IF root[s].gen = MaxMember
       THEN Become(s, "retired", MaxMember) /\ UNCHANGED alive
       ELSE Become(s, "live", root[s].gen + 1) /\ alive' = alive \cup {s}
    /\ UNCHANGED <<dirVars, heapVars, layoutVars, todo, at>>

\* a region is detached when its last layout is; bound: by workers only
Leave(s) ==
    /\ Idle(s) /\ s \in Workers /\ at[s].dead.slot = None
    /\ \A m \in maps : m.slot # s
    /\ Become(s, "free", root[s].gen) /\ alive' = alive \ {s}
    /\ UNCHANGED <<dirVars, heapVars, layoutVars, todo, at>>

Crash(s) ==
    /\ s \in alive \cap Mortal
    /\ alive' = alive \ {s}
    /\ todo' = [todo EXCEPT ![s] = <<>>] /\ Note(s, NoWork)
    /\ maps' = {m \in maps : m.slot # s}
    /\ UNCHANGED <<root, dirVars, heapVars, header, known>>

Published(id) == entry[id.entry].state = "published" /\ entry[id.entry].gen = id.gen

\* MapDirectory::open finds the offset first and admits the layout there later
Open(s, id) ==
    /\ Idle(s) /\ s \in Workers /\ id \in known /\ Published(id)
    /\ Continue(s, <<"attach">>)
    /\ Note(s, [at[s] EXCEPT !.entry = id.entry, !.gen = id.gen, !.block = entry[id.entry].block])
    /\ UNCHANGED <<rootVars, dirVars, heapVars, layoutVars>>

Here(s) == [slot |-> s, id |-> [entry |-> at[s].entry, gen |-> at[s].gen], block |-> at[s].block]

\* Mutant: a closed membership word admits a member.
AttachClosed(s) ==
    LET b == at[s].block  h == header[b] IN
    /\ Doing(s, "attach") /\ Proceed(s)
    /\ IF h.state \in {"open", "closed"} /\ s \notin h.members
       THEN /\ header' = [header EXCEPT ![b].members = @ \cup {s}]
            /\ maps' = maps \cup {Here(s)}
       ELSE UNCHANGED <<header, maps>>
    /\ Note(s, Returned(s))
    /\ UNCHANGED <<rootVars, dirVars, heapVars, known>>

Attach(s) ==
    LET b == at[s].block  h == header[b] IN
    /\ Doing(s, "attach") /\ Proceed(s)
    /\ IF h.state = "open" /\ s \notin h.members
       THEN /\ header' = [header EXCEPT ![b].members = @ \cup {s}]
            /\ maps' = maps \cup {Here(s)}
       ELSE UNCHANGED <<header, maps>>
    /\ Note(s, Returned(s))
    /\ UNCHANGED <<rootVars, dirVars, heapVars, known>>

\* Mapped is dropped
Detach(s) ==
    /\ Idle(s)
    /\ \E m \in maps :
        /\ m.slot = s /\ maps' = maps \ {m}
        /\ header' = [header EXCEPT ![m.block].members = @ \ {s}]
    /\ UNCHANGED <<rootVars, dirVars, heapVars, known, todo, at>>

----------------------------------------------------------------------------
(* Directory::claim, Transaction::clear_pending, commit and drop, and the  *)
(* mutation lock: Mutation::claim and commit.                              *)

FinishSteps == <<"finish">>
CreateSteps == <<"lock_create", "tear", "allocate", "persist_create", "unlock",
                 "admit", "publish", "clear", "finish">>
UndoSteps == <<"lock_undo", "tear", "free", "unreserve", "clear", "unlock", "finish">>
GrowSteps == <<"lock_grow", "tear", "allocate_slab", "persist_grow", "unlock",
               "link", "clear", "reserve">>
RemoveSteps == <<"check", "lock_remove", "closing", "persist_remove", "close", "removing",
                 "tear", "free", "released", "unlock", "vacate", "clear", "finish">>
ResumeSteps == <<"lock_resume">> \o Tail(UndoSteps)
HeapSteps == <<"lock_heap", "tear", "touch", "unlock">>

\* a create that finds its own rollback unfinished resumes it instead; growth
\* never leaves one, for nothing fails between its evidence and its end
CreateStart(s) ==
    /\ Idle(s) /\ s \in Workers
    /\ \/ /\ word = Clean
          /\ word' = Held(s, "held")
          /\ Continue(s, <<"reserve">>) /\ UNCHANGED at
       \/ LET e == pending.entry IN
          /\ word = Held(s, "rolling") /\ pending.kind = "create" /\ UNCHANGED word
          /\ Continue(s, ResumeSteps)
          /\ Note(s, [at[s] EXCEPT !.entry = e, !.gen = entry[e].gen, !.block = pending.block])
    /\ UNCHANGED <<rootVars, pending, entry, slabs, heapVars, layoutVars>>

\* the id is looked up before the transaction is claimed
RemoveStart(s) ==
    /\ Idle(s)
    /\ \E m \in maps :
        /\ m.slot = s /\ Published(m.id) /\ entry[m.id.entry].block = m.block
        /\ Note(s, [at[s] EXCEPT !.entry = m.id.entry, !.gen = m.id.gen, !.block = m.block])
    /\ Continue(s, <<"claim_remove">>)
    /\ UNCHANGED <<rootVars, dirVars, heapVars, layoutVars>>

ClaimRemove(s) ==
    /\ Doing(s, "claim_remove")
    /\ IF word = Clean
       THEN word' = Held(s, "held") /\ Continue(s, RemoveSteps)
       ELSE UNCHANGED word /\ Continue(s, <<>>)
    /\ UNCHANGED <<rootVars, pending, entry, slabs, heapVars, layoutVars, at>>

\* Talc::allocate and release_value of the general heap
HeapStart(s) ==
    /\ Idle(s) /\ s \in HeapUsers /\ Continue(s, HeapSteps)
    /\ UNCHANGED <<rootVars, dirVars, heapVars, layoutVars, at>>

\* what each caller of begin_mutation does when it fails
LockElse ==
    [lock_create |-> <<"unreserve", "finish">>, lock_undo |-> <<"drop">>,
     lock_grow |-> FinishSteps, lock_remove |-> FinishSteps,
     lock_resume |-> <<>>, lock_heap |-> <<>>, lock_recover |-> <<>>]

Lock(s) ==
    /\ s \in alive /\ todo[s] # <<>> /\ Head(todo[s]) \in DOMAIN LockElse
    /\ IF lock = "clean"
       THEN lock' = s /\ Proceed(s)
       ELSE UNCHANGED lock /\ Continue(s, LockElse[Head(todo[s])])
    /\ UNCHANGED <<rootVars, dirVars, torn, allocated, layoutVars, at>>

Unlock(s) ==
    /\ Doing(s, "unlock") /\ Proceed(s)
    /\ lock' = "clean"
    /\ UNCHANGED <<rootVars, dirVars, torn, allocated, layoutVars, at>>

Tear(s) ==
    /\ Doing(s, "tear") /\ Proceed(s)
    /\ torn' = TRUE
    /\ UNCHANGED <<rootVars, dirVars, lock, allocated, layoutVars, at>>

Touch(s) ==
    /\ Doing(s, "touch") /\ Proceed(s)
    /\ torn' = FALSE
    /\ UNCHANGED <<rootVars, dirVars, lock, allocated, layoutVars, at>>

\* deallocate_during: the allocator writes its list node over the layout
Free(s) ==
    /\ Doing(s, "free") /\ Proceed(s)
    /\ torn' = FALSE
    /\ allocated' = allocated \ {at[s].block}
    /\ header' = [header EXCEPT ![at[s].block] = Blank]
    /\ UNCHANGED <<rootVars, dirVars, lock, maps, known, at>>

ClearPending(s) ==
    /\ Doing(s, "clear") /\ Proceed(s)
    /\ word' = Held(s, "held")
    /\ UNCHANGED <<rootVars, pending, entry, slabs, heapVars, layoutVars, at>>

\* a create that commits a published entry returns its id
Finish(s) ==
    LET id == [entry |-> at[s].entry, gen |-> at[s].gen] IN
    /\ Doing(s, "finish") /\ Proceed(s)
    /\ word' = Clean
    /\ known' = IF \E m \in maps : m.slot = s /\ m.id = id THEN known \cup {id} ELSE known
    /\ Note(s, Returned(s))
    /\ UNCHANGED <<rootVars, pending, entry, slabs, heapVars, header, maps>>

Drop(s) ==
    /\ Doing(s, "drop") /\ Proceed(s)
    /\ word' = IF word.phase = "evidence" THEN Held(s, "rolling") ELSE word
    /\ UNCHANGED <<rootVars, pending, entry, slabs, heapVars, layoutVars, at>>

----------------------------------------------------------------------------
(* MapDirectory::create_in and grow.                                       *)

Vacancies == {e \in Entries : /\ Linked(e) /\ entry[e].state = "vacant"
                              /\ entry[e].gen < MaxGeneration}
First(E) == CHOOSE e \in E : \A f \in E : e <= f

\* bound: with MaxSlabs slabs the directory is full
Reserve(s) ==
    /\ Doing(s, "reserve")
    /\ IF Vacancies # {}
       THEN LET e == First(Vacancies)  g == entry[e].gen + 1 IN
            /\ Store(e, "pending", g, None)
            /\ Note(s, [at[s] EXCEPT !.entry = e, !.gen = g, !.block = None])
            /\ Continue(s, CreateSteps)
       ELSE /\ Continue(s, IF Len(slabs) + 1 < MaxSlabs THEN GrowSteps ELSE FinishSteps)
            /\ UNCHANGED <<entry, at>>
    /\ UNCHANGED <<rootVars, word, pending, slabs, heapVars, layoutVars>>

\* allocate_during; the bytes are zeroed before anybody can see them
Allocate(s) ==
    /\ Doing(s, "allocate") \/ Doing(s, "allocate_slab")
    /\ torn' = FALSE
    /\ IF allocated = Blocks
       THEN /\ Continue(s, IF Doing(s, "allocate") THEN <<"unlock", "unreserve", "finish">>
                           ELSE <<"unlock", "finish">>)
            /\ UNCHANGED <<allocated, header, at>>
       ELSE \E b \in Blocks \ allocated :
            /\ allocated' = allocated \cup {b}
            /\ header' = [header EXCEPT ![b] = Blank]
            /\ Note(s, [at[s] EXCEPT !.block = b])
            /\ Proceed(s)
    /\ UNCHANGED <<rootVars, dirVars, lock, maps, known>>

PersistKind == [persist_create |-> "create", persist_remove |-> "remove", persist_grow |-> "grow"]

Persist(s) ==
    /\ s \in alive /\ todo[s] # <<>> /\ Head(todo[s]) \in DOMAIN PersistKind
    /\ LET k == PersistKind[Head(todo[s])] IN
       pending' = [kind |-> k, block |-> at[s].block,
                   entry |-> IF k = "grow" THEN NoEntry ELSE at[s].entry]
    /\ Proceed(s)
    /\ word' = Held(s, "evidence")
    /\ UNCHANGED <<rootVars, entry, slabs, heapVars, layoutVars, at>>

\* Mutant: a create that cannot admit its layout only gives the entry back.
AdmitLeaks(s) ==
    /\ Doing(s, "admit")
    /\ \/ /\ header' = [header EXCEPT ![at[s].block] = [state |-> "open", members |-> {s}]]
          /\ maps' = maps \cup {Here(s)}
          /\ Proceed(s)
       \/ UNCHANGED <<header, maps>> /\ Continue(s, <<"unreserve", "clear", "finish">>)
    /\ UNCHANGED <<rootVars, dirVars, heapVars, known, at>>

\* RcHeader::admit with allow_init, which may find the configuration unusable
Admit(s) ==
    /\ Doing(s, "admit")
    /\ \/ /\ header' = [header EXCEPT ![at[s].block] = [state |-> "open", members |-> {s}]]
          /\ maps' = maps \cup {Here(s)}
          /\ Proceed(s)
       \/ UNCHANGED <<header, maps>> /\ Continue(s, UndoSteps)
    /\ UNCHANGED <<rootVars, dirVars, heapVars, known, at>>

EntryStep(s, step, state, gen, block) ==
    /\ Doing(s, step) /\ Proceed(s)
    /\ Store(at[s].entry, state, gen, block)
    /\ UNCHANGED <<rootVars, word, pending, slabs, heapVars, layoutVars, at>>

Publish(s) == EntryStep(s, "publish", "published", at[s].gen, at[s].block)
Unreserve(s) == EntryStep(s, "unreserve", "vacant", at[s].gen - 1, None)

Link(s) ==
    /\ Doing(s, "link") /\ Proceed(s)
    /\ slabs' = Append(slabs, at[s].block)
    /\ UNCHANGED <<rootVars, word, pending, entry, heapVars, layoutVars, at>>

----------------------------------------------------------------------------
(* MapDirectory::remove_in.                                                *)

Check(s) ==
    /\ Doing(s, "check")
    /\ IF Published([entry |-> at[s].entry, gen |-> at[s].gen])
       THEN Proceed(s) ELSE Continue(s, FinishSteps)
    /\ UNCHANGED <<rootVars, dirVars, heapVars, layoutVars, at>>

Closing(s) == EntryStep(s, "closing", "closing", at[s].gen, at[s].block)
Republish(s) == EntryStep(s, "republish", "published", at[s].gen, at[s].block)
Removing(s) == EntryStep(s, "removing", "removing", at[s].gen, at[s].block)
Released(s) == EntryStep(s, "released", "released", at[s].gen, None)
\* Mutant: a removed entry is used again under its old generation.
VacateReused(s) == EntryStep(s, "vacate", "vacant", at[s].gen - 1, None)

Vacate(s) == EntryStep(s, "vacate", "vacant", at[s].gen, None)

\* RcHeader::close_unique and, when it succeeds, disarm_detach
CloseUnique(s) ==
    /\ Doing(s, "close")
    /\ IF header[at[s].block] = [state |-> "open", members |-> {s}]
       THEN /\ header' = [header EXCEPT ![at[s].block] = [state |-> "closed", members |-> {}]]
            /\ maps' = {m \in maps : ~(m.slot = s /\ m.block = at[s].block)}
            /\ Proceed(s)
       ELSE /\ UNCHANGED <<header, maps>>
            /\ Continue(s, <<"republish", "clear", "unlock", "finish">>)
    /\ UNCHANGED <<rootVars, dirVars, heapVars, known, at>>

----------------------------------------------------------------------------
(* Session::assume_dead, Recovery::reap_with and MapDirectory::recover.    *)

\* Mutant: the slot is released before the memberships are recovered.
FinalStepsEarly == <<"heap", "release", "scan">>

FinalSteps == <<"heap", "scan", "release">>
QuarantineSteps == <<"transfer", "quarantine", IF DebugAssertions THEN "finish" ELSE "drop">>
RollbackSteps == <<"lock_recover", "transfer", "tear", "free", "unreserve",
                   "clear", "unlock", "finish">>
ReleaseSteps == <<"lock_recover", "transfer", "tear", "free", "released",
                  "unlock", "vacate", "clear", "finish">>
UngrowSteps == <<"lock_recover", "transfer", "tear", "free", "clear", "unlock", "finish">>
RecoverBy(s, program) == Continue(s, program \o FinalSteps)
GiveUp(s) == Continue(s, <<>>)

\* the caller knows that the process of slot d is gone
AssumeDead(s, d) ==
    /\ Idle(s) /\ s \in Reapers /\ at[s].dead.slot = None
    /\ d # s /\ d \notin alive /\ root[d].state \in {"live", "dead"}
    /\ Become(d, "dead", root[d].gen)
    /\ Note(s, [NoWork EXCEPT !.dead = [slot |-> d, gen |-> root[d].gen]])
    /\ UNCHANGED <<alive, dirVars, heapVars, layoutVars, todo>>

\* reap_with may be retried as long as it gives the Recovery value back
ReapStart(s) ==
    LET d == at[s].dead.slot IN
    /\ Idle(s) /\ d # None
    /\ \/ word = Clean /\ RecoverBy(s, <<>>)
       \/ word.owner = d /\ Continue(s, <<"look">>)
    /\ UNCHANGED <<rootVars, dirVars, heapVars, layoutVars, at>>

Moving == {e \in Entries : Linked(e) /\ entry[e].state \notin {"vacant", "published", "quarantined"}}

\* Mutant: a removal found after its deallocation deallocates.
RecoveryStepsTwice(kind, state) ==
    CASE kind = "remove" /\ state = "closing" -> <<"undead", "decide">>
      [] kind = "remove" /\ state = "vacant" -> <<"unowned", "transfer", "clear", "finish">>
      [] \/ kind = "create" /\ state = "pending"
         \/ kind = "remove" /\ state \in {"removing", "released"} -> <<"poison", "judge">>
      [] OTHER -> <<"poison">> \o QuarantineSteps

\* what recover does for each persisted kind, entry state and phase
RecoverySteps(kind, state) ==
    CASE kind = "remove" /\ state = "closing" -> <<"undead", "decide">>
      [] kind = "remove" /\ state = "released" -> <<"undead", "transfer", "vacate", "clear", "finish">>
      [] kind = "remove" /\ state = "vacant" -> <<"unowned", "transfer", "clear", "finish">>
      [] \/ kind = "create" /\ state = "pending"
         \/ kind = "remove" /\ state = "removing" -> <<"poison", "judge">>
      [] OTHER -> <<"poison">> \o QuarantineSteps

Look(s) ==
    LET e == IF word.phase = "held" THEN First(Moving) ELSE pending.entry
        found == word.phase # "held" \/ Moving # {}
    IN
    /\ Doing(s, "look")
    /\ IF word.owner # at[s].dead.slot
       THEN GiveUp(s) /\ UNCHANGED at
       ELSE IF word.phase # "held" /\ pending.kind = "grow"
       THEN /\ RecoverBy(s, IF \E i \in DOMAIN slabs : slabs[i] = pending.block
                            THEN <<"transfer", "clear", "finish">> ELSE <<"poison", "judge">>)
            /\ Note(s, [at[s] EXCEPT !.seen = word, !.block = pending.block])
       ELSE IF ~found
       THEN /\ RecoverBy(s, <<"poison", "transfer", "finish">>)
            /\ Note(s, [at[s] EXCEPT !.seen = word])
       ELSE /\ RecoverBy(s,
                IF word.phase # "held" THEN RecoverySteps(pending.kind, entry[e].state)
                ELSE IF entry[e].state = "pending" THEN <<"poison", "transfer", "unreserve", "finish">>
                ELSE <<"poison">> \o QuarantineSteps)
            /\ Note(s, [at[s] EXCEPT !.seen = word, !.entry = e, !.gen = entry[e].gen,
                                     !.block = pending.block])
    /\ UNCHANGED <<rootVars, dirVars, heapVars, layoutVars>>

\* clear_dead_owner
Undead(s) ==
    /\ Doing(s, "undead")
    /\ IF lock \in {"clean", at[s].dead.slot}
       THEN lock' = "clean" /\ Proceed(s)
       ELSE /\ UNCHANGED lock
            /\ IF lock = "poisoned" THEN RecoverBy(s, QuarantineSteps) ELSE GiveUp(s)
    /\ UNCHANGED <<rootVars, dirVars, torn, allocated, layoutVars, at>>

\* closed_at: whether the removal of the dead process went past its last return
Decide(s) ==
    /\ Doing(s, "decide")
    /\ RecoverBy(s, IF header[at[s].block].state = "closed" THEN ReleaseSteps
                    ELSE <<"transfer", "republish", "clear", "finish">>)
    /\ UNCHANGED <<rootVars, dirVars, heapVars, layoutVars, at>>

Unowned(s) ==
    /\ Doing(s, "unowned")
    /\ IF lock \in {"clean", "poisoned", at[s].dead.slot} THEN Proceed(s) ELSE GiveUp(s)
    /\ UNCHANGED <<rootVars, dirVars, heapVars, layoutVars, at>>

\* poison_owner
Poison(s) ==
    /\ Doing(s, "poison") /\ Proceed(s)
    /\ lock' = IF lock = at[s].dead.slot THEN "poisoned" ELSE lock
    /\ UNCHANGED <<rootVars, dirVars, torn, allocated, layoutVars, at>>

Judge(s) ==
    /\ Doing(s, "judge")
    /\ CASE lock = "clean" ->
              RecoverBy(s, CASE pending.kind = "create" -> RollbackSteps
                             [] pending.kind = "remove" -> ReleaseSteps
                             [] OTHER -> UngrowSteps)
         [] lock = "poisoned" ->
              RecoverBy(s, IF pending.kind = "grow" THEN <<"transfer", "clear", "finish">>
                           ELSE QuarantineSteps)
         [] OTHER -> GiveUp(s)
    /\ UNCHANGED <<rootVars, dirVars, heapVars, layoutVars, at>>

\* the transaction passes to the recovering process, in the phase it was in
Transfer(s) ==
    /\ Doing(s, "transfer")
    /\ IF word = at[s].seen
       THEN word' = Held(s, word.phase) /\ Proceed(s)
       ELSE UNCHANGED word /\ Continue(s, IF lock = s THEN <<"unlock">> ELSE <<>>)
    /\ UNCHANGED <<rootVars, pending, entry, slabs, heapVars, layoutVars, at>>

Quarantine(s) ==
    /\ Doing(s, "quarantine") /\ Proceed(s)
    /\ entry' = [entry EXCEPT ![at[s].entry].state = "quarantined"]
    /\ UNCHANGED <<rootVars, word, pending, slabs, heapVars, layoutVars, at>>

\* Mutant: the lock of the dead process is cleared, whatever it was doing.
FinishHeapClears(s) ==
    LET d == at[s].dead.slot IN
    /\ Doing(s, "heap")
    /\ IF lock \in {"clean", "poisoned", d} THEN Proceed(s) ELSE GiveUp(s)
    /\ lock' = IF lock = d THEN "clean" ELSE lock
    /\ UNCHANGED <<rootVars, dirVars, torn, allocated, layoutVars, at>>

\* Talc::finish_recovery
FinishHeap(s) ==
    LET d == at[s].dead.slot IN
    /\ Doing(s, "heap")
    /\ IF lock \in {"clean", "poisoned", d} THEN Proceed(s) ELSE GiveUp(s)
    /\ lock' = IF lock = d THEN "poisoned" ELSE lock
    /\ UNCHANGED <<rootVars, dirVars, torn, allocated, layoutVars, at>>

\* MapDirectory::scan with recover_layout; the second pass repeats the first
ScanLayouts(s) ==
    LET published == {entry[e].block : e \in {f \in Entries : Linked(f) /\ entry[f].state = "published"}} IN
    /\ Doing(s, "scan")
    /\ IF Moving # {}
       THEN GiveUp(s) /\ UNCHANGED header
       ELSE /\ Proceed(s)
            /\ header' = [b \in Blocks |->
                IF b \in published THEN [header[b] EXCEPT !.members = @ \ {at[s].dead.slot}]
                ELSE header[b]]
    /\ UNCHANGED <<rootVars, dirVars, heapVars, maps, known, at>>

\* Root::release_dead
ReleaseDead(s) ==
    LET m == at[s].dead IN
    /\ Doing(s, "release")
    /\ Continue(s, <<>>)
    /\ IF root[m.slot] = [state |-> "dead", gen |-> m.gen]
       THEN Become(m.slot, IF m.gen = MaxMember THEN "retired" ELSE "free", m.gen) /\ Note(s, NoWork)
       ELSE UNCHANGED <<root, at>>
    /\ UNCHANGED <<alive, dirVars, heapVars, layoutVars>>

----------------------------------------------------------------------------
Step(s) ==
    \/ Join(s) \/ Leave(s) \/ Crash(s) \/ (\E id \in Ids : Open(s, id)) \/ Attach(s) \/ Detach(s)
    \/ CreateStart(s) \/ RemoveStart(s) \/ ClaimRemove(s) \/ HeapStart(s)
    \/ Lock(s) \/ Unlock(s) \/ Tear(s) \/ Touch(s) \/ Free(s)
    \/ ClearPending(s) \/ Finish(s) \/ Drop(s)
    \/ Reserve(s) \/ Allocate(s) \/ Persist(s) \/ Admit(s) \/ Publish(s) \/ Unreserve(s) \/ Link(s)
    \/ Check(s) \/ Closing(s) \/ Republish(s) \/ Removing(s) \/ Released(s) \/ Vacate(s) \/ CloseUnique(s)
    \/ (\E d \in Slots : AssumeDead(s, d)) \/ ReapStart(s) \/ Look(s)
    \/ Undead(s) \/ Decide(s) \/ Unowned(s) \/ Poison(s) \/ Judge(s) \/ Transfer(s) \/ Quarantine(s)
    \/ FinishHeap(s) \/ ScanLayouts(s) \/ ReleaseDead(s)

DirectoryNext == \E s \in Slots : Step(s)
DirectorySpec == DirectoryInit /\ [][DirectoryNext]_vars

----------------------------------------------------------------------------
(* Properties.                                                             *)

\* A heap that a process left in the middle of a mutation is never worked on
\* again: the lock names the process inside the mutation, or is poisoned
\* (docs/architecture.md:191, "An ambiguous heap mutation is poisoned").
HeapIsFenced ==
    /\ torn => lock # "clean"
    /\ \A s \in alive :
        \/ Doing(s, "tear") /\ lock = s /\ ~torn
        \/ (Doing(s, "allocate") \/ Doing(s, "allocate_slab") \/ Doing(s, "free") \/ Doing(s, "touch"))
           /\ lock = s /\ torn
        \/ ~Doing(s, "tear") /\ ~Doing(s, "allocate") /\ ~Doing(s, "allocate_slab")
           /\ ~Doing(s, "free") /\ ~Doing(s, "touch")

\* Whoever deallocates a block, its owner or a process that recovers, finds it
\* allocated (the test directory_remove_crash_windows_never_deallocate_twice).
FreedOnce == \A s \in alive : Doing(s, "free") => at[s].block \in allocated

\* While no transaction is open and the heap is usable, the storage in use is
\* that of published and quarantined entries and of linked slabs: neither a
\* failed operation nor a recovery loses a block.
StorageIsAccounted ==
    word = Clean /\ lock = "clean" =>
        allocated = {entry[e].block : e \in {f \in Entries : entry[f].state \in {"published", "quarantined"}}}
                    \cup {slabs[i] : i \in DOMAIN slabs}

\* A layout admitted under the current id of its entry has storage and counts
\* its member until the process drops it: a removal, finished or recovered,
\* never takes the storage from under another process.
MappedIsBacked ==
    \A m \in maps :
        LET e == entry[m.id.entry] IN
        e.gen = m.id.gen /\ e.block = m.block =>
            /\ m.block \in allocated /\ header[m.block].state = "open"
            /\ m.slot \in header[m.block].members

\* A participant slot that may be given to a new process is named by no
\* transaction, no heap mutation and no published layout; the exception is a
\* rollback that its process left to a later create.
FreeSlotIsForgotten ==
    \A s \in Slots : root[s].state \in {"free", "retired"} =>
        /\ word.owner = s => word.phase = "rolling"
        /\ lock # s
        /\ \A e \in Entries : entry[e].state = "published" => s \notin header[entry[e].block].members

\* what an entry shows of itself
Shown(x) ==
    CASE x.state = "published" -> [state |-> "present", gen |-> x.gen]
      [] x.state = "closing" /\ header[x.block].state = "open" -> [state |-> "present", gen |-> x.gen]
      [] x.state = "pending" -> [state |-> "vacant", gen |-> x.gen - 1]
      [] x.state = "quarantined" -> [state |-> "retained", gen |-> x.gen]
      [] OTHER -> [state |-> "vacant", gen |-> x.gen]

R == INSTANCE Registry WITH cell <- [e \in Entries |-> Shown(entry[e])]

\* A create appears when its entry is published, and a removal when the
\* membership word is closed, whoever completes them.
ImplementsRegistry == R!RegistrySpec

\* A recovery acts on the process it was started for: while that process is
\* not the dead one in the slot, the recovery changes neither the transaction
\* nor the lock nor the memberships of the slot (docs/architecture.md:179,
\* "an observation about an earlier process cannot be applied to a
\* replacement").
RecoveryIsExact ==
    [][\A s \in Slots :
        LET m == at[s].dead IN
        /\ m.slot # None /\ root[m.slot] # [state |-> "dead", gen |-> m.gen]
        /\ todo[s] # <<>> /\ todo'[s] # todo[s]
        => /\ word.owner = m.slot => word' = word
           /\ lock = m.slot => lock' = lock
           /\ \A q \in Blocks : m.slot \in header[q].members => m.slot \in header'[q].members]_vars

\* An id is admitted only while it names the current occupant of its entry
\* (docs/architecture.md:209, "Directory and Pool identifiers are accepted only
\* for their current generations").
AdmitsTheCurrent == [][\A m \in maps' \ maps : entry[m.id.entry].gen = m.id.gen]_vars
=============================================================================
