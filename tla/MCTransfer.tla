----------------------------- MODULE MCTransfer -----------------------------
(* Small instances of Transfer. *)
EXTENDS Transfer, TLC, SequencesExt

CONSTANTS a, b, c, d, h1, h2, g1, g2

MCHome == [h \in Handles |-> IF h \in {h1, h2} THEN a ELSE b]

\* the pool was created before the channel, or after it
ScanBlocks == SetToSeq({BlockItem(x) : x \in Blocks})
ScanSlots == [n \in 1 .. Capacity |-> SlotItem(n - 1)]
PoolFirst == ScanBlocks \o ScanSlots
ChannelFirst == ScanSlots \o ScanBlocks
=============================================================================
