----------------------------- MODULE Transcripts -----------------------------
(***************************************************************************)
(* What the run loop promises of the conversations it keeps: interrupts    *)
(* are begun in the order of sending, none twice and none skipped; a       *)
(* message is told to its own conversation and to no other; and nothing    *)
(* but a reset of a conversation removes what was told to it, as long as   *)
(* it is one of the Capacity that were used last.                          *)
(*                                                                         *)
(* The code has neither the one queue nor the transcripts: an interrupt    *)
(* waits in the channel or in the stash of a turn, of whatever             *)
(* conversation, and the contexts are entries of a cache.                  *)
(***************************************************************************)
EXTENDS Integers, Sequences, FiniteSets

CONSTANTS
    Kinds,         \* the kinds of interrupt
    Conversations,
    Capacity,      \* how many conversations are kept
    MaxInterrupts  \* bound: interrupts the transports send

VARIABLES
    pending,     \* the interrupts sent and not yet begun, oldest first
    sent,        \* how many were sent
    transcript,  \* conversation -> numbers of the messages the agent knows of
    lastUse,     \* conversation -> when it was last used, 0 for never
    uses         \* how many times one was used

vars == <<pending, sent, transcript, lastUse, uses>>

Init ==
    /\ pending = <<>>
    /\ sent = 0
    /\ transcript = [c \in Conversations |-> <<>>]
    /\ lastUse = [c \in Conversations |-> 0]
    /\ uses = 0

Send(kind, c) ==
    /\ sent < MaxInterrupts
    /\ sent' = sent + 1
    /\ pending' = Append(pending, [n |-> sent + 1, kind |-> kind, conversation |-> c])
    /\ UNCHANGED <<transcript, lastUse, uses>>

\* Conversation d is forgotten once Capacity others were used after it.
Stale(d) == Cardinality({e \in Conversations : lastUse'[e] > lastUse'[d]}) >= Capacity

\* The oldest interrupt is begun: its conversation is used, and s becomes its
\* transcript.
Begin(s) ==
    LET c == Head(pending).conversation
    IN  /\ pending' = Tail(pending)
        /\ uses' = uses + 1
        /\ lastUse' = [lastUse EXCEPT ![c] = uses + 1]
        /\ transcript' = [d \in Conversations |->
                             IF d = c THEN s ELSE IF Stale(d) THEN <<>> ELSE transcript[d]]
        /\ UNCHANGED sent

\* What is known of the conversation of the oldest interrupt.
Known == transcript[Head(pending).conversation]

Tell ==
    /\ pending # <<>> /\ Head(pending).kind = "message"
    /\ Begin(Append(Known, Head(pending).n))

\* An event without content, or a permission that nobody resolves, uses the
\* conversation and adds nothing.
Touch ==
    /\ pending # <<>> /\ Head(pending).kind \in {"event", "allow"}
    /\ Begin(Known)

Reset ==
    /\ pending # <<>> /\ Head(pending).kind = "reset"
    /\ Begin(<<>>)

\* The resolver keeps an interrupt from the conversations.
Resolve ==
    /\ pending # <<>>
    /\ pending' = Tail(pending)
    /\ UNCHANGED <<sent, transcript, lastUse, uses>>

Next ==
    \/ \E kind \in Kinds, c \in Conversations : Send(kind, c)
    \/ Tell
    \/ Touch
    \/ Reset
    \/ Resolve

Spec == Init /\ [][Next]_vars

=============================================================================
