------------------------------ MODULE AgentLoop ------------------------------
(***************************************************************************)
(* The process: the tasks that livvi-daemon waits for, and the run loop of *)
(* the agent with all its conversations.                                   *)
(*                                                                         *)
(* The run loop keeps a context per conversation in an LRU cache.  It      *)
(* handles one interrupt at a time, of whatever conversation; what a turn  *)
(* stashes while it streams is handled next, and may belong to another     *)
(* conversation.  An error that `?` takes out of a turn ends the agent,    *)
(* the end of any task ends the process, and the process ends with all     *)
(* that is in memory.                                                      *)
(*                                                                         *)
(* A turn is its beginning and its end here: AgentTurn has its steps, and  *)
(* Identity the resolution, which either succeeds or drops the interrupt.  *)
(* A context is the numbers of the messages that were pushed to it; what   *)
(* compaction makes of them is again AgentTurn's.                          *)
(*                                                                         *)
(* Besides livvi-daemon, a program may embed the agent, without a store    *)
(* and with a sender of its own, as the examples and tests do.  Daemon has *)
(* the start of both, and the specification of the whole.                  *)
(***************************************************************************)
EXTENDS Integers, Sequences, FiniteSets, SequencesExt

CONSTANTS
    Conversations,
    Capacity,       \* LIVVI_AGENT_CONTEXT_LRU_CAPACITY, 1024 by default
    QueueCapacity,  \* capacity of the interrupt channel, 256 in the code
    MaxInterrupts,  \* bound: interrupts the transports send
    NoTurn          \* no turn is under way

ASSUME LoopAssumption ==
    /\ Capacity \in Nat \ {0}
    /\ QueueCapacity \in Nat \ {0}
    /\ MaxInterrupts \in Nat
    /\ NoTurn \notin Conversations

VARIABLES
    setup,      \* what the process is: [host, transport, store]
    senders,    \* who holds a sender of the channel
    inbox,      \* the mpsc channel `input`
    stash,      \* `stashed_interrupt`, then `next_interrupt`: at most one
    sent,       \* history: how many interrupts were sent
    started,    \* history: the number of the last one begun
    contexts,   \* the LRU cache, most recently used first
    turn,       \* the conversation of the turn under way, or NoTurn
    listening,  \* `listening_for_interrupts`
    agent,      \* the agent task: "none", "running", "failed", or "ended"
    transport,  \* the plugin task: "none", "running", or "ended"
    process,    \* "starting", "up", or what ended it
    lastUse, uses  \* history: when each conversation was last used

queueVars == <<inbox, stash, sent, started>>
loopVars  == <<contexts, turn, listening, lastUse, uses>>
taskVars  == <<agent, transport, process, senders>>
vars      == <<setup, queueVars, loopVars, taskVars>>

-----------------------------------------------------------------------------

\* "message": an ExternalEvent with content; "event": one without.
Kinds == {"message", "event", "reset", "allow"}

Interrupt == [n : Nat, kind : Kinds, conversation : Conversations]

Context == [conversation : Conversations, told : Seq(Nat)]

\* The position of conversation c in the cache, 0 if it is not there.
Position(c) ==
    IF \E i \in DOMAIN contexts : contexts[i].conversation = c
    THEN CHOOSE i \in DOMAIN contexts : contexts[i].conversation = c
    ELSE 0

\* What the context of c holds; nothing, if it is not in the cache.
Told(c) == IF Position(c) = 0 THEN <<>> ELSE contexts[Position(c)].told

\* The cache without conversation c: there is nothing at position 0.
Others(c) == RemoveAt(contexts, Position(c))

Smaller(a, b) == IF a < b THEN a ELSE b

\* The contexts that stay when c is used: the most recently used of the others.
Recent(c) == SubSeq(Others(c), 1, Smaller(Len(Others(c)), Capacity - 1))

\* get_or_insert_mut for c, whose context is left with `told`.
UseContext(c, told) ==
    /\ contexts' = <<[conversation |-> c, told |-> told]>> \o Recent(c)
    /\ uses' = uses + 1
    /\ lastUse' = [lastUse EXCEPT ![c] = uses + 1]

-----------------------------------------------------------------------------

\* livvi-daemon with Discord configured and without, and a program that embeds
\* the agent.
Setups ==
    {[host |-> "daemon",   transport |-> TRUE,  store |-> TRUE],
     [host |-> "daemon",   transport |-> FALSE, store |-> TRUE],
     [host |-> "embedder", transport |-> FALSE, store |-> FALSE]}

Init ==
    /\ setup \in Setups
    /\ senders = {}
    /\ inbox = <<>> /\ stash = <<>>
    /\ sent = 0 /\ started = 0
    /\ contexts = <<>>
    /\ turn = NoTurn /\ listening = FALSE
    /\ agent = "none" /\ transport = "none" /\ process = "starting"
    /\ lastUse = [c \in Conversations |-> 0] /\ uses = 0

Alive == process \in {"starting", "up"}

\* The transport's task sends once it is spawned, which is before the agent's
\* is; an embedder sends as soon as it has a sender.  The daemon only holds its.
Sends ==
    \/ transport = "running" /\ "transport" \in senders
    \/ setup.host = "embedder" /\ "host" \in senders

\* An interrupt is sent; the sender waits while the channel is full, and is
\* refused once the agent has ended.  An event without a conversation goes to
\* one named "global", if no store gives it another.
Send(kind, c) ==
    /\ Alive
    /\ Sends
    /\ agent \in {"none", "running"}
    /\ sent < MaxInterrupts
    /\ Len(inbox) < QueueCapacity
    /\ sent' = sent + 1
    /\ inbox' = Append(inbox, [n |-> sent + 1, kind |-> kind, conversation |-> c])
    /\ UNCHANGED <<setup, stash, started, loopVars, taskVars>>

\* The embedder has nothing more to send.
DropSender ==
    /\ Alive
    /\ setup.host = "embedder"
    /\ "host" \in senders
    /\ senders' = senders \ {"host"}
    /\ UNCHANGED <<setup, queueVars, loopVars, agent, transport, process>>

AgentRuns == process = "up" /\ agent = "running"

\* The interrupt the run loop goes on with, and what is left: what the last
\* turn stashed goes before the channel.
Upcoming ==
    IF stash # <<>>
    THEN [i |-> Head(stash), inbox |-> inbox, stash |-> <<>>]
    ELSE [i |-> Head(inbox), inbox |-> Tail(inbox), stash |-> stash]

\* The run loop takes the next interrupt, of a kind in kinds.
Receive(kinds) ==
    /\ AgentRuns
    /\ turn = NoTurn
    /\ stash # <<>> \/ inbox # <<>>
    /\ Upcoming.i.kind \in kinds
    /\ inbox' = Upcoming.inbox
    /\ stash' = Upcoming.stash
    /\ started' = Upcoming.i.n
    /\ UNCHANGED <<setup, sent, taskVars>>

\* An AllowTool interrupt ends in the resolver, and so does any other when
\* the store fails: the run loop goes back to the channel.
Resolved ==
    /\ setup.store
    /\ Receive(Kinds)
    /\ UNCHANGED loopVars

\* Without a store an AllowTool interrupt comes as far as its context, and needs
\* no action.
IgnoreAllow ==
    /\ ~setup.store
    /\ Receive({"allow"})
    /\ UseContext(Upcoming.i.conversation, Told(Upcoming.i.conversation))
    /\ UNCHANGED <<turn, listening>>

\* The turn of the interrupt i runs in the context of c.
RunIn(c, i) ==
    /\ UseContext(c, IF i.kind = "message" THEN Append(Told(c), i.n) ELSE Told(c))
    /\ turn' = c
    /\ listening' = TRUE

\* Mutant of BeginTurn: the turn runs in the context used last.
BeginTurnInLastContext ==
    /\ Receive({"message", "event"})
    /\ RunIn(IF contexts = <<>> THEN Upcoming.i.conversation ELSE contexts[1].conversation,
             Upcoming.i)

\* A turn begins in the context of its conversation, and will listen for an
\* interrupt.
BeginTurn ==
    /\ Receive({"message", "event"})
    /\ RunIn(Upcoming.i.conversation, Upcoming.i)

\* A reset clears the context of its conversation, and makes one if there is
\* none.
Reset ==
    /\ Receive({"reset"})
    /\ UseContext(Upcoming.i.conversation, <<>>)
    /\ UNCHANGED <<turn, listening>>

\* While the provider streams, the next interrupt is stashed, whatever its
\* conversation; the turn listens for one only.
Stash ==
    /\ AgentRuns
    /\ turn # NoTurn
    /\ listening
    /\ inbox # <<>>
    /\ stash' = <<Head(inbox)>>
    /\ inbox' = Tail(inbox)
    /\ listening' = FALSE
    /\ UNCHANGED <<setup, sent, started, contexts, turn, lastUse, uses, taskVars>>

\* The turn ends, and hands what it stashed to the run loop.
EndTurn ==
    /\ AgentRuns
    /\ turn # NoTurn
    /\ turn' = NoTurn
    /\ listening' = FALSE
    /\ UNCHANGED <<setup, queueVars, contexts, lastUse, uses, taskVars>>

\* `?` takes an error of the turn out of Agent::run, or the task panics.
TurnFails ==
    /\ AgentRuns
    /\ turn # NoTurn
    /\ agent' = "failed"
    /\ UNCHANGED <<setup, queueVars, loopVars, transport, process, senders>>

\* recv returns None: nobody can send any more, and nothing is left to receive.
Closed == senders = {} /\ inbox = <<>>

\* Then the run loop ends without an error.
AgentEnds ==
    /\ AgentRuns
    /\ turn = NoTurn
    /\ stash = <<>>
    /\ Closed
    /\ agent' = "ended"
    /\ UNCHANGED <<setup, queueVars, loopVars, transport, process, senders>>

\* The gateway shuts down, and the plugin's task ends.
TransportEnds ==
    /\ Alive
    /\ transport = "running"
    /\ transport' = "ended"
    /\ senders' = senders \ {"transport"}
    /\ UNCHANGED <<setup, queueVars, loopVars, agent, process>>

\* select! in main: the process ends with the first task that does, or with a
\* signal.  None of the branches asks the others to stop.
Exit(branch) ==
    /\ process = "up"
    /\ process' = branch
    /\ UNCHANGED <<setup, queueVars, loopVars, agent, transport, senders>>

ExitOnSignal == Exit("signal")

\* The embedder awaits the agent as well, and nothing else.
ExitWithAgent == agent \in {"failed", "ended"} /\ Exit("agent")

\* Mutant of ExitWithTransport: main waits for all of its tasks.
ExitWhenAllEnded == transport = "ended" /\ agent = "failed" /\ Exit("transport")

ExitWithTransport == transport = "ended" /\ Exit("transport")

Agent ==
    \/ Resolved
    \/ IgnoreAllow
    \/ BeginTurn
    \/ Reset
    \/ EndTurn
    \/ AgentEnds

\* What happens from the moment the first task is spawned.
Run ==
    \/ \E kind \in Kinds, c \in Conversations : Send(kind, c)
    \/ DropSender
    \/ Agent
    \/ Stash
    \/ TurnFails
    \/ TransportEnds
    \/ ExitOnSignal
    \/ ExitWithAgent
    \/ ExitWithTransport

-----------------------------------------------------------------------------
(* Properties.                                                             *)

\* Every variable has its type; no conversation has two contexts, and the
\* context of the turn under way is the first of the cache.
TypeOK ==
    /\ inbox \in Seq(Interrupt) /\ Len(inbox) <= QueueCapacity
    /\ stash \in Seq(Interrupt) /\ Len(stash) <= 1
    /\ sent \in 0 .. MaxInterrupts /\ started \in 0 .. sent
    /\ contexts \in Seq(Context) /\ Len(contexts) <= Capacity
    /\ \A i, j \in DOMAIN contexts :
          contexts[i].conversation = contexts[j].conversation => i = j
    /\ turn \in Conversations \cup {NoTurn}
    /\ turn # NoTurn => contexts # <<>> /\ contexts[1].conversation = turn
    /\ listening \in BOOLEAN
    /\ agent \in {"none", "running", "failed", "ended"}
    /\ transport \in {"none", "running", "ended"}
    /\ process \in {"starting", "up", "startup", "signal", "agent", "transport"}
    /\ setup \in Setups
    /\ senders \subseteq {"builder", "host", "transport"}

\* A message is told to its own conversation, once and in the order of sending
\* across all of them, and nothing but a reset removes it while the
\* conversation is one of the Capacity used last: the cache, the channel and the
\* stash implement what the run loop promises.
Promise ==
    INSTANCE Transcripts WITH
        pending    <- stash \o inbox,
        transcript <- [c \in Conversations |-> Told(c)]

TranscriptsKept == Promise!Spec

\* An agent that ended or failed, or a transport that ended, ends the process:
\* none of them goes on without the other for ever.
NoneGoesOnAlone ==
    agent \in {"failed", "ended"} \/ transport = "ended" ~> ~Alive

\* The agent ends without an error only in a program that dropped its sender,
\* and not before it has begun every interrupt it was sent, also those sent
\* before it was spawned; livvi-daemon, without a transport too, goes on until a
\* signal or a failure.
EndsDrained == agent = "ended" => setup.host = "embedder" /\ started = sent

=============================================================================
