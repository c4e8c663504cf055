----------------------------- MODULE MCChannel -----------------------------
(***************************************************************************)
(* Small instances of Channel.                                             *)
(***************************************************************************)
EXTENDS Channel

CONSTANTS a, b, c

\* bound: participant a creates the channel
CreatorIsA == entry = "none" => \A p \in Participants \ {a} : pc[p] = "idle"

\* bound: one direction at a time carries a transfer
OneDirectionAtATime == \E d \in Sides : slot[d] = Free
=============================================================================
