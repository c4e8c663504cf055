-------------------------------- MODULE Fifo --------------------------------
(***************************************************************************)
(* What one direction of a channel promises, without slots, control words  *)
(* or cursors: positions are handed to senders in order, each is filled or *)
(* skipped by the sender that got it, and receivers take them in the same  *)
(* order.  A position is reused one lap later, once its receiver let go.   *)
(***************************************************************************)
EXTENDS Integers, Sequences

CONSTANT Capacity

VARIABLES
    first,      \* the position at the front
    line,       \* the state of the positions from first on
    out,        \* positions a receiver took and still occupies
    closed      \* no sender will be admitted again

fifoVars == <<first, line, out, closed>>

FifoInit == first = 0 /\ line = <<>> /\ out = {} /\ closed = FALSE

Admit ==
    /\ ~closed
    /\ Len(line) < Capacity
    /\ first + Len(line) - Capacity \notin out
    /\ line' = Append(line, "reserved")
    /\ UNCHANGED <<first, out, closed>>

Fill(k, how) ==
    /\ line[k] = "reserved"
    /\ line' = [line EXCEPT ![k] = how]
    /\ UNCHANGED <<first, out, closed>>

Accept ==
    /\ line # <<>>
    /\ Head(line) # "reserved"
    /\ line' = Tail(line)
    /\ out' = out \cup {first}
    /\ first' = first + 1
    /\ UNCHANGED closed

LetGo(p) ==
    /\ out' = out \ {p}
    /\ UNCHANGED <<first, line, closed>>

Finish ==
    /\ \A k \in DOMAIN line : line[k] # "reserved"
    /\ closed' = TRUE
    /\ UNCHANGED <<first, line, out>>

FifoNext ==
    \/ Admit
    \/ \E k \in DOMAIN line, how \in {"ready", "skipped"} : Fill(k, how)
    \/ Accept
    \/ \E p \in out : LetGo(p)
    \/ Finish

FifoSpec == FifoInit /\ [][FifoNext]_fifoVars
=============================================================================
