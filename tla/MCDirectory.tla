---------------------------- MODULE MCDirectory ----------------------------
(* Small instances of Directory. *)
EXTENDS Directory, TLC

CONSTANTS s1, s2, s3, s4, x, y, z

\* the slot of s1 is used a second time, the others are in their last generation
MCJoined == [s \in Slots |-> IF s = s1 THEN 1 ELSE MaxMember]

SameBlocks == Permutations(Blocks)

\* a process that attaches to a layout whose entry was removed meanwhile
\* (AdmitsTheCurrent, MCDirectoryStale.cfg) is not followed any further
NoStaleAdmission == \A m \in maps : entry[m.id.entry].state # "vacant" /\ entry[m.id.entry].gen = m.id.gen
=============================================================================
