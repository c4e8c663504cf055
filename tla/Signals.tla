------------------------------ MODULE Signals ------------------------------
(***************************************************************************)
(* Senders and receivers that sleep: the asynchronous reserve and claim of *)
(* notify.rs over the ring of Queue.  Each end of the ring has one event,  *)
(* a sticky latch that the other end sets after it changed the ring and    *)
(* that the waiting tasks of the end share.  A task that is told Full or   *)
(* Empty waits for the latch, clears it and tries again; one that is told  *)
(* Busy tries again at once (LOCAL_RETRY_LIMIT only returns the choice to  *)
(* the caller, who is assumed to call again).                              *)
(***************************************************************************)
EXTENDS Queue

CONSTANTS
    Canceling,      \* senders that may drop a permit unsent
    Closing,        \* the ends, of "send" and "recv", that some task closes
    Finisher        \* the Queue closer that runs finish_field for a receiver

ASSUME SignalsAssumption ==
    /\ Canceling \subseteq Producers
    /\ Closing \subseteq {"send", "recv"}
    /\ Finisher \in [Consumers -> Closers]

VARIABLES
    bell,   \* the latch each end waits for
    task,   \* what each worker, and the closing task of each end, does between ring steps
    silent  \* history: claim recycled a skipped position, which notifies nobody

signalVars == <<vars, bell, task, silent>>

End(h) == IF h \in Producers \cup {"send"} THEN "send" ELSE "recv"
Peer(h) == IF End(h) = "send" THEN "recv" ELSE "send"
Tasks == Workers \cup Closing
Become(h, what) == task' = [task EXCEPT ![h] = what]
On(h, here, there) == task[h] = here /\ Become(h, there)

SignalsInit ==
    /\ Init
    /\ bell = [s \in {"send", "recv"} |-> FALSE]
    /\ task = [h \in Tasks |-> "run"]
    /\ silent = FALSE

----------------------------------------------------------------------------
(* Signals::reserve, Permit::send, cancel and drop.                        *)

\* a call that begins, or one that tries again
TryReserve(h) ==
    /\ task[h] \in {"run", "retry"} /\ Become(h, "call")
    /\ ReserveStart(h)

\* ProgressError::Closed
SendRefused(h) ==
    /\ task[h] \in {"run", "retry"} /\ Become(h, "closed")
    /\ pc[h] = "idle" /\ ~Open
    /\ UNCHANGED <<ring, pc, cur, seen, settled>>

ReserveRuns(h) ==
    /\ On(h, "call", "call")
    /\ \/ ReserveLoad(h) \/ ReserveOwn(h) \/ ReserveCheck(h) \/ ReserveAdmit(h)
       \/ ReserveCommit(h) \/ Stage(h)

ReserveAgain(h) == On(h, "call", "retry") /\ (ReserveBusy(h) \/ ReserveUndo(h))

ReserveWaits(h) == On(h, "call", "wait") /\ ReserveFull(h)

Send(h) == On(h, "call", "ring") /\ Publish(h)

CancelPermit(h) == h \in Canceling /\ On(h, "call", "ring") /\ Skip(h)

SenderTask(h) ==
    /\ Runs(h) /\ Elsewhere /\ UNCHANGED <<bell, silent>>
    /\ \/ SendRefused(h) \/ ReserveRuns(h) \/ ReserveAgain(h) \/ ReserveWaits(h)
       \/ Send(h) \/ CancelPermit(h)
       \/ task[h] = "retry" /\ TryReserve(h)

SenderCalls(h) ==
    /\ Runs(h) /\ Elsewhere /\ UNCHANGED <<bell, silent>>
    /\ task[h] = "run" /\ TryReserve(h)

----------------------------------------------------------------------------
(* Signals::claim with Rx::claim, then adopt or discard.                   *)

TryClaim(h) == task[h] \in {"run", "retry"} /\ Become(h, "call") /\ ClaimStart(h)

ReceiveRefused(h) ==
    /\ task[h] \in {"run", "retry"} /\ Become(h, "closed")
    /\ pc[h] = "idle" /\ gate["recv"] # 0
    /\ UNCHANGED <<ring, pc, cur, seen, settled>>

ClaimRuns(h) ==
    /\ On(h, "call", "call")
    /\ \/ ClaimLoad(h) \/ ClaimLook(h) \/ ClaimCheck(h) \/ ClaimCommit(h)
       \/ Take(h) \/ RecycleTurn(h)

\* the compare-exchange of claim, which returns Busy when it fails
ClaimOwns(h) ==
    /\ task[h] = "call" /\ ClaimOwn(h)
    /\ Become(h, IF control[SlotOf(h)] = Available(seen[h]) THEN "call" ELSE "retry")

ClaimAgain(h) == On(h, "call", "retry") /\ (ClaimBusy(h) \/ ClaimUndo(h))

\* Empty, unless Queue::terminal
ClaimWaits(h) == On(h, "call", "recv_closed") /\ ClaimEmpty(h)

\* Mutant: the freed slot is not announced.
ReleaseQuietly(h) ==
    /\ task[h] = "call" /\ RecycleFree(h)
    /\ silent' = (silent \/ ~seen[h])
    /\ Become(h, IF seen[h] THEN "run" ELSE "retry")

\* adopt and discard notify after the recycle; the recycle of a skipped position
\* inside claim returns Busy
Release(h) ==
    /\ task[h] = "call" /\ RecycleFree(h)
    /\ silent' = (silent \/ ~seen[h])
    /\ Become(h, IF seen[h] THEN "ring" ELSE "retry")

ReceiverTask(h) ==
    /\ Runs(h) /\ Elsewhere /\ UNCHANGED bell
    /\ \/ Release(h)
       \/ /\ UNCHANGED silent
          /\ \/ TryClaim(h) \/ ReceiveRefused(h) \/ ClaimRuns(h) \/ ClaimOwns(h)
             \/ ClaimAgain(h) \/ ClaimWaits(h)

\* Queue::terminal: recv_closed() || (send_closed() && is_empty())
Asks(f) == IF f = "recv" THEN "recv_closed" ELSE "send_closed"
Finishes(f) == IF f = "recv" THEN "recv_finish" ELSE "send_finish"
After(f) == IF f = "recv" THEN "send_closed" ELSE "wait"
Answer(h, f, s) ==
    Become(h, IF s = 3 /\ (f = "send" => head = tail) THEN "closed" ELSE After(f))

TerminalStep(h) ==
    /\ Runs(h) /\ UNCHANGED <<bell, silent>>
    /\ \E f \in {"send", "recv"} :
         \/ /\ task[h] = Asks(f) /\ gate[f] # 1
            /\ Answer(h, f, gate[f]) /\ UNCHANGED vars
         \/ On(h, Asks(f), Finishes(f)) /\ FinishStart(Finisher[h], f)
         \/ /\ task[h] = Finishes(f)
            /\ FinishScan(Finisher[h]) \/ FinishSet(Finisher[h])
            /\ IF pc'[Finisher[h]] = "scan" THEN UNCHANGED task ELSE Answer(h, f, gate'[f])

----------------------------------------------------------------------------
(* The event: Notify::notify and Wait::wait.                               *)

\* Mutant: the latch is not sticky.
RingOnce(h) ==
    /\ task[h] = "ring"
    /\ task' = [t \in Tasks |->
          IF t = h THEN (IF h \in Workers THEN "run" ELSE "done")
          ELSE IF task[t] = "asleep" /\ End(t) = Peer(h) THEN "woken" ELSE task[t]]
    /\ UNCHANGED <<bell, silent, vars>>

\* the latch is set and the registered waiters are released
Ring(h) ==
    /\ task[h] = "ring"
    /\ bell' = [bell EXCEPT ![Peer(h)] = TRUE]
    /\ task' = [t \in Tasks |->
          IF t = h THEN (IF h \in Workers THEN "run" ELSE "done")
          ELSE IF task[t] = "asleep" /\ End(t) = Peer(h) THEN "woken" ELSE task[t]]
    /\ UNCHANGED <<silent, vars>>

\* readable(): at once when the latch is set
Sleep(h) ==
    /\ On(h, "wait", IF bell[End(h)] THEN "woken" ELSE "asleep")
    /\ UNCHANGED <<bell, silent, vars>>

\* Mutant: the ring is tried again before the latch is cleared.
ClearLate(h) ==
    /\ \/ On(h, "woken", "retry") /\ UNCHANGED bell
       \/ On(h, "wait", "asleep") /\ bell' = [bell EXCEPT ![End(h)] = FALSE]
    /\ UNCHANGED <<silent, vars>>

Clear(h) ==
    /\ On(h, "woken", "retry")
    /\ bell' = [bell EXCEPT ![End(h)] = FALSE]
    /\ UNCHANGED <<silent, vars>>

\* the future of the call is dropped while it waits
Abandon(h) ==
    /\ On(h, "asleep", "run") \/ On(h, "woken", "run")
    /\ UNCHANGED <<bell, silent, vars>>

\* close_tx and close_rx
Close(f) == On(f, "run", "ring") /\ CloseField(f) /\ UNCHANGED <<bell, silent>>

Continue(h) ==
    \/ h \in Producers /\ SenderTask(h)
    \/ h \in Consumers /\ (ReceiverTask(h) \/ TerminalStep(h))
    \/ Ring(h) \/ Sleep(h) \/ Clear(h)

SignalsNext ==
    \/ \E h \in Producers : SenderCalls(h)
    \/ \E h \in Workers : Continue(h) \/ Abandon(h)
    \/ \E f \in Closing : Close(f) \/ Ring(f)

\* every task that is not asleep is run again, receivers keep receiving
SignalsFairness ==
    /\ \A h \in Workers : WF_signalVars(Continue(h))
    /\ \A f \in Closing : WF_signalVars(Ring(f))

SignalsSpec == SignalsInit /\ [][SignalsNext]_signalVars /\ SignalsFairness
----------------------------------------------------------------------------
(* Properties.                                                             *)

Asleep(h) == task[h] = "asleep"
NobodyRings(end) == \A h \in Tasks : task[h] = "ring" => Peer(h) # end

\* When every receiver sleeps and no notification is on its way, no published
\* position is waiting in the ring: publication notifies after the change, and a
\* waiter clears the latch before it looks again ("a completed ring may not leave
\* its waiter asleep", tests/notify_model.rs).
NoLostPublication ==
    (\A c \in Consumers : Asleep(c)) /\ NobodyRings("recv") =>
        control[head.index].base # "AVAILABLE"

\* A sender that sleeps because the ring was full is woken again, as long as no
\* permit was cancelled (the recycle of a skipped position notifies nobody).
SendersAreWoken == \A p \in Producers : Asleep(p) ~> ~Asleep(p) \/ silent

\* The same for every sender: "Publication, recycling, and close update shared
\* truth before notifying the peer" (docs/architecture.md).
EverySenderIsWoken == \A p \in Producers : Asleep(p) ~> ~Asleep(p)

\* After close_tx every receiver is told: once the sending end is closed and
\* nothing is left in the ring, claim answers Closed.
ReceiversLearnOfClose ==
    \A c \in Consumers : gate["send"] # 0 ~> task[c] = "closed"
=============================================================================
