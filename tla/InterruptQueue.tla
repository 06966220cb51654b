--------------------------- MODULE InterruptQueue ---------------------------
(***************************************************************************)
(* What the agent promises the transports about its interrupts: they are   *)
(* begun one at a time, in the order in which they were sent, none twice   *)
(* and none skipped, until the agent stops for good.                       *)
(*                                                                         *)
(* The code has no such component: an interrupt waits in the mpsc channel  *)
(* `input`, in the local `stashed_interrupt` of a turn, or in the local    *)
(* `next_interrupt` of the run loop.  Here they are one queue, which       *)
(* AgentTurn is checked and proved to implement.                           *)
(***************************************************************************)
EXTENDS Naturals, Sequences

CONSTANTS
    Kinds,         \* the kinds of interrupt
    MaxInterrupts  \* bound: the transports send at most this many

VARIABLES
    pending,  \* the interrupts sent and not yet begun, oldest first
    sent,     \* how many were sent
    started,  \* the number of the last one begun (0: none yet)
    stopped   \* the agent has stopped

vars == <<pending, sent, started, stopped>>

\* The n-th interrupt sent, of kind k.
Interrupt == [n : Nat, kind : Kinds]

Init ==
    /\ pending = <<>>
    /\ sent = 0
    /\ started = 0
    /\ stopped = FALSE

Send(k) ==
    /\ sent < MaxInterrupts
    /\ ~stopped
    /\ sent' = sent + 1
    /\ pending' = Append(pending, [n |-> sent + 1, kind |-> k])
    /\ UNCHANGED <<started, stopped>>

Begin ==
    /\ pending # <<>>
    /\ ~stopped
    /\ started' = Head(pending).n
    /\ pending' = Tail(pending)
    /\ UNCHANGED <<sent, stopped>>

Stop ==
    /\ ~stopped
    /\ stopped' = TRUE
    /\ UNCHANGED <<pending, sent, started>>

Next ==
    \/ \E k \in Kinds : Send(k)
    \/ Begin
    \/ Stop

Spec == Init /\ [][Next]_vars

=============================================================================
