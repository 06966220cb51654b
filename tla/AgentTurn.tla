------------------------------ MODULE AgentTurn ------------------------------
(***************************************************************************)
(* The agent task of livvi-core, seen from one conversation: it takes an   *)
(* interrupt, resolves it, and for an external event runs a turn: memory   *)
(* briefing, compaction of the context, the tool permissions, then provider *)
(* requests, tool calls and nudges until the model is done.                *)
(*                                                                         *)
(* The tasks that interleave are the transports (Send), the agent (every   *)
(* step between two awaits is one action) and the provider's stream, whose *)
(* events reach the agent one at a time.  While it streams, the agent also *)
(* listens for one interrupt and stashes it for after the turn.            *)
(*                                                                         *)
(* Data is abstracted to what the properties tell apart.  A message is its *)
(* role and the ids of the tool calls it makes or answers; `epoch`, the    *)
(* number of resets before it was pushed, is history and never read by an  *)
(* action.  `context.turns` is base \o fresh: what the last compaction     *)
(* returned, and what was pushed since.                                    *)
(***************************************************************************)
EXTENDS Integers, Sequences, FiniteSets

CONSTANTS
    Tools,              \* names registered in the toolbox
    RequiredTools,      \* those declared is_required
    DefaultAllowed,     \* those declared allowed_by_default
    CallNames,          \* names the model may put in a tool call
    CallIds,            \* ids the model may put in a tool call
    MaxCalls,           \* bound: tool calls of one response
    MaxToolIterations,  \* MAX_TOOL_ITERATIONS, 20 in the code
    MaxNudges,          \* MAX_NUDGES, 2 in the code
    HasMemory,          \* a memory provider is installed
    Compactor,          \* the compactor installed: "window" or "lcm"
    Trigger,            \* WindowCompactor::trigger_threshold
    MinKeep,            \* WindowCompactor::min_keep
    KeepPercent,        \* WindowCompactor::keep_ratio, in percent
    FreshTail,          \* LcmConfig::fresh_tail_count
    QueueCapacity,      \* capacity of the interrupt channel, 256 in the code
    MaxInterrupts       \* bound: interrupts the transports send

ASSUME TurnAssumption ==
    /\ RequiredTools \subseteq Tools
    /\ DefaultAllowed \subseteq Tools
    /\ MaxCalls \in Nat \ {0}
    /\ MaxToolIterations \in Nat
    /\ MaxNudges \in Nat
    /\ HasMemory \in BOOLEAN
    /\ Compactor \in {"window", "lcm"}
    /\ Trigger \in Nat
    /\ MinKeep \in Nat
    /\ KeepPercent \in 0 .. 100
    /\ FreshTail \in Nat \ {0}
    /\ QueueCapacity \in Nat \ {0}
    /\ MaxInterrupts \in Nat

VARIABLES
    \* The queue, across the transports and the agent.
    inbox,         \* the mpsc channel `input`
    stash,         \* `stashed_interrupt`, then `next_interrupt`: at most one
    sent,          \* history: how many interrupts were sent
    started,       \* history: the number of the last one begun
    \* The conversation.
    permitted,     \* the store's tool permissions of the conversation
    briefings,     \* memory briefings in context.system, after the soul
    base, fresh,   \* context.turns = base \o fresh
    history,       \* raw_messages of the LCM compactor
    summarised,    \* the LCM compactor holds an active summary
    resets,        \* history: resets handled
    \* The turn.
    phase,         \* where the agent task is
    allowed,       \* `allowed_tools`, fetched once per turn
    toolIterations, nudges, requiredUsed,
    listening,     \* `listening_for_interrupts`
    resp,          \* what this stream iteration has received
    nextCall,      \* index of the tool call about to run
    requests,      \* history: provider requests of this turn
    ran            \* history: tools executed in this turn

queueVars == <<inbox, stash, sent, started>>
convVars  == <<permitted, briefings, base, fresh, history, summarised, resets>>
turnVars  == <<allowed, toolIterations, nudges, requiredUsed, listening, resp,
               nextCall, requests, ran>>
vars      == <<queueVars, convVars, phase, turnVars>>

-----------------------------------------------------------------------------
(* Interrupts, messages and responses.                                     *)

\* "message": an ExternalEvent with content; "event": one without.
Kinds == {"message", "event", "reset", "allow"}

Interrupt == [n : Nat, kind : Kinds]

\* A nudge is a user message that carries no person.
Roles == {"system", "user", "nudge", "assistant", "calls", "tool"}

Message == [role : Roles, ids : Seq(CallIds), epoch : Nat]

Call == [id : CallIds, name : CallNames]

Response == [text : BOOLEAN, thinking : BOOLEAN, calls : Seq(Call)]

NoResponse == [text |-> FALSE, thinking |-> FALSE, calls |-> <<>>]

\* A message without tool calls pushed now.
Plain(role) == [role |-> role, ids |-> <<>>, epoch |-> resets]

AssistantCalls(calls) ==
    [role |-> "calls", ids |-> [i \in DOMAIN calls |-> calls[i].id],
     epoch |-> resets]

ToolResult(id) == [role |-> "tool", ids |-> <<id>>, epoch |-> resets]

turns == base \o fresh

Phases == {"idle", "briefing", "compact", "permissions", "stream", "tools", "dead"}

-----------------------------------------------------------------------------
(* The steps' helpers.                                                     *)

Larger(a, b) == IF a > b THEN a ELSE b
Smaller(a, b) == IF a < b THEN a ELSE b

\* The last k elements of s.
LastOf(s, k) == SubSeq(s, Len(s) - k + 1, Len(s))

\* Mutant of RunLoopNext: the channel is read before the stashed interrupt.
RunLoopNextInboxFirst ==
    IF inbox # <<>>
    THEN [i |-> Head(inbox), inbox |-> Tail(inbox), stash |-> stash]
    ELSE [i |-> Head(stash), inbox |-> inbox, stash |-> <<>>]

\* The interrupt the run loop handles next, and what is left of the queue:
\* what the last turn stashed goes before the channel.
RunLoopNext ==
    IF stash # <<>>
    THEN [i |-> Head(stash), inbox |-> inbox, stash |-> <<>>]
    ELSE [i |-> Head(inbox), inbox |-> Tail(inbox), stash |-> stash]

\* Mutant of IsAllowed: the permission of the conversation is not looked up.
IsAllowedAny(name) == name \in Tools

\* Agent::is_tool_allowed, for a tool of the toolbox.
IsAllowed(name) == name \in DefaultAllowed \/ name \in allowed

\* Mutant of UsesRequiredTool: all of the calls must be of required tools.
UsesOnlyRequiredTools(calls) ==
    \A i \in DOMAIN calls :
        calls[i].name \in RequiredTools /\ IsAllowed(calls[i].name)

\* A response uses a required tool when it calls one that may run.
UsesRequiredTool(calls) ==
    \E i \in DOMAIN calls :
        calls[i].name \in RequiredTools /\ IsAllowed(calls[i].name)

\* How many turns WindowCompactor keeps of n: the ratio rounded up, at least
\* MinKeep, at most n.
Keep(n) == Smaller(Larger((n * KeepPercent + 99) \div 100, MinKeep), n)

\* WindowCompactor::compact.
WindowCompact(s) ==
    IF Len(s) <= Larger(Trigger, MinKeep) \/ Keep(Len(s)) = Len(s)
    THEN s
    ELSE <<Plain("system")>> \o LastOf(s, Keep(Len(s)))

\* Mutant of IsSafeTailStart: the tail is cut without walking back.
IsTailStart(s, start) == start = Larger(Len(s) - FreshTail, 0)

\* safe_tail_start: start messages come before the tail.  The walk back from
\* Len(s) - FreshTail stops at the first message that is not a tool result.
IsSafeTailStart(s, start) ==
    LET cut == Larger(Len(s) - FreshTail, 0)
    IN  /\ start \in 0 .. cut
        /\ start > 0 => s[start + 1].role # "tool"
        /\ \A i \in (start + 1) .. cut : s[i + 1].role = "tool"

-----------------------------------------------------------------------------
(* The steps.                                                              *)

Init ==
    /\ inbox = <<>> /\ stash = <<>>
    /\ sent = 0 /\ started = 0
    /\ permitted = {}
    /\ briefings = 0
    /\ base = <<>> /\ fresh = <<>>
    /\ history = <<>>
    /\ summarised = FALSE
    /\ resets = 0
    /\ phase = "idle"
    /\ allowed = {}
    /\ toolIterations = 0 /\ nudges = 0 /\ requiredUsed = FALSE
    /\ listening = FALSE
    /\ resp = NoResponse
    /\ nextCall = 1
    /\ requests = 0
    /\ ran = {}

\* A transport sends an interrupt; it waits while the channel is full, and
\* nobody receives once the run loop has returned.
Send(k) ==
    /\ sent < MaxInterrupts
    /\ Len(inbox) < QueueCapacity
    /\ phase # "dead"
    /\ sent' = sent + 1
    /\ inbox' = Append(inbox, [n |-> sent + 1, kind |-> k])
    /\ UNCHANGED <<stash, started, convVars, phase, turnVars>>

\* Mutant of Take: the run loop waits for the channel whatever is stashed.
TakeAfterInput(k) ==
    /\ phase = "idle"
    /\ inbox # <<>>
    /\ RunLoopNext.i.kind = k
    /\ inbox' = RunLoopNext.inbox
    /\ stash' = RunLoopNext.stash
    /\ started' = RunLoopNext.i.n
    /\ UNCHANGED sent

\* The run loop takes the next interrupt, of kind k.
Take(k) ==
    /\ phase = "idle"
    /\ stash # <<>> \/ inbox # <<>>
    /\ RunLoopNext.i.kind = k
    /\ inbox' = RunLoopNext.inbox
    /\ stash' = RunLoopNext.stash
    /\ started' = RunLoopNext.i.n
    /\ UNCHANGED sent

\* The store fails to resolve the interrupt, which is logged and dropped.
ResolveFails(k) ==
    /\ Take(k)
    /\ UNCHANGED <<convVars, phase, turnVars>>

\* Resolving an AllowTool interrupt grants the tool; nothing is dispatched.
AllowTool(t) ==
    /\ Take("allow")
    /\ permitted' = permitted \cup {t}
    /\ UNCHANGED <<briefings, base, fresh, history, summarised, resets, phase, turnVars>>

\* Mutant of Reset: the messages the last compaction returned survive.
ResetFreshOnly ==
    /\ Take("reset")
    /\ fresh' = <<>>
    /\ resets' = resets + 1
    /\ UNCHANGED <<permitted, briefings, base, history, summarised, phase, turnVars>>

\* Context::clear: the turns go, context.system and the compactor are left
\* alone.
Reset ==
    /\ Take("reset")
    /\ base' = <<>>
    /\ fresh' = <<>>
    /\ resets' = resets + 1
    /\ UNCHANGED <<permitted, briefings, history, summarised, phase, turnVars>>

\* run_turn on an event without content pushes no message.
BeginBareEvent ==
    /\ Take("event")
    /\ phase' = "compact"
    /\ UNCHANGED <<convVars, turnVars>>

\* run_turn on a message.  The first message of a context asks the memory
\* provider for a briefing before it is pushed.
BeginMessage ==
    /\ Take("message")
    /\ IF turns = <<>> /\ HasMemory
       THEN /\ phase' = "briefing"
            /\ UNCHANGED fresh
       ELSE /\ phase' = "compact"
            /\ fresh' = Append(fresh, Plain("user"))
    /\ UNCHANGED <<permitted, briefings, base, history, summarised, resets, turnVars>>

\* The briefing arrives, or (given = FALSE) is empty, fails or times out; the
\* message is pushed either way.
Briefing(given) ==
    /\ phase = "briefing"
    /\ briefings' = IF given THEN briefings + 1 ELSE briefings
    /\ fresh' = Append(fresh, Plain("user"))
    /\ phase' = "compact"
    /\ UNCHANGED <<queueVars, permitted, base, history, summarised, resets, turnVars>>

WindowCompacts ==
    /\ phase = "compact"
    /\ Compactor = "window"
    /\ base' = WindowCompact(turns)
    /\ fresh' = <<>>
    /\ phase' = "permissions"
    /\ UNCHANGED <<queueVars, permitted, briefings, history, summarised, resets, turnVars>>

\* LcmCompactor::compact merges the new messages into its own, may roll all
\* that precede the tail into summaries and forget them, and returns the
\* active summaries (one stands for all) and the tail.
LcmCompacts(start, rolls) ==
    LET merged == history \o fresh
        tail   == SubSeq(merged, start + 1, Len(merged))
        some   == summarised \/ rolls
    IN  /\ phase = "compact"
        /\ Compactor = "lcm"
        /\ IsSafeTailStart(merged, start)
        /\ rolls => start > 0
        /\ base' = IF some THEN <<Plain("system")>> \o tail ELSE tail
        /\ history' = IF rolls THEN tail ELSE merged
        /\ summarised' = some
        /\ fresh' = <<>>
        /\ phase' = "permissions"
        /\ UNCHANGED <<queueVars, permitted, briefings, resets, turnVars>>

\* The LCM store fails: before the merge only while nothing is loaded.  After
\* it, a summary may already have been made, or been condensed into a parent
\* that is not there.  The turns stay as they are.
LcmFails(merges, some) ==
    /\ phase = "compact"
    /\ Compactor = "lcm"
    /\ IF merges
       THEN /\ history' = history \o fresh
            /\ base' = turns
            /\ fresh' = <<>>
       ELSE /\ history = <<>>
            /\ UNCHANGED <<history, base, fresh>>
    /\ some # summarised =>
          merges /\ \E start \in 1 .. Len(history') : IsSafeTailStart(history', start)
    /\ summarised' = some
    /\ phase' = "permissions"
    /\ UNCHANGED <<queueVars, permitted, briefings, resets, turnVars>>

-----------------------------------------------------------------------------
(* The provider requests of a turn.                                        *)

\* stream_iteration starts: the turns go to the provider, and the agent
\* listens for an interrupt unless it has already stashed one.
BeginRequest ==
    /\ phase' = "stream"
    /\ listening' = (stash = <<>>)
    /\ resp' = NoResponse
    /\ requests' = requests + 1

FetchPermissions ==
    /\ phase = "permissions"
    /\ allowed' = permitted
    /\ BeginRequest
    /\ UNCHANGED <<queueVars, convVars, toolIterations, nudges, requiredUsed, nextCall, ran>>

\* list_tool_permissions fails: `?` takes the error out of Agent::run.
PermissionsFail ==
    /\ phase = "permissions"
    /\ phase' = "dead"
    /\ UNCHANGED <<queueVars, convVars, turnVars>>

\* select!: an interrupt arrives while the provider streams.
StashInterrupt ==
    /\ phase = "stream"
    /\ listening
    /\ inbox # <<>>
    /\ stash' = <<Head(inbox)>>
    /\ inbox' = Tail(inbox)
    /\ listening' = FALSE
    /\ UNCHANGED <<sent, started, convVars, phase, allowed, toolIterations, nudges,
                   requiredUsed, resp, nextCall, requests, ran>>

\* select!: a piece of the response.  Text that clean_assistant_text removes
\* changes nothing.
Received(r) ==
    /\ phase = "stream"
    /\ resp' = r
    /\ UNCHANGED <<queueVars, convVars, phase, allowed, toolIterations, nudges,
                   requiredUsed, listening, nextCall, requests, ran>>

ReceiveText == ~resp.text /\ Received([resp EXCEPT !.text = TRUE])

ReceiveThinking == ~resp.thinking /\ Received([resp EXCEPT !.thinking = TRUE])

ReceiveToolCall(c) ==
    /\ Len(resp.calls) < MaxCalls
    /\ Received([resp EXCEPT !.calls = Append(@, c)])

\* The turn is over: its locals go out of scope, and what was stashed is
\* handed to the run loop.
EndTurn ==
    /\ phase' = "idle"
    /\ allowed' = {}
    /\ toolIterations' = 0 /\ nudges' = 0 /\ requiredUsed' = FALSE
    /\ listening' = FALSE
    /\ resp' = NoResponse
    /\ nextCall' = 1
    /\ requests' = 0
    /\ ran' = {}

\* The stream ends in an error: what it produced is dropped.
StreamFails ==
    /\ phase = "stream"
    /\ fresh' = Append(fresh, Plain("assistant"))
    /\ EndTurn
    /\ UNCHANGED <<queueVars, permitted, briefings, base, history, summarised, resets>>

\* The tool calls of this response are executed, unless the limit is reached.
RunsTools == resp.calls # <<>> /\ toolIterations < MaxToolIterations

StreamEndsWithCalls ==
    /\ phase = "stream"
    /\ RunsTools
    /\ toolIterations' = toolIterations + 1
    /\ requiredUsed' = (requiredUsed \/ UsesRequiredTool(resp.calls))
    /\ fresh' = Append(fresh, AssistantCalls(resp.calls))
    /\ nextCall' = 1
    /\ phase' = "tools"
    /\ UNCHANGED <<queueVars, permitted, briefings, base, history, summarised, resets,
                   allowed, nudges, listening, resp, requests, ran>>

\* Mutant of RunTool: a call that is not allowed is skipped without a result.
RunToolSkipsDenied ==
    LET c    == resp.calls[nextCall]
        runs == c.name \in Tools /\ IsAllowed(c.name)
    IN  /\ phase = "tools"
        /\ ran' = IF runs THEN ran \cup {c.name} ELSE ran
        /\ fresh' = IF c.name \in Tools /\ ~runs THEN fresh ELSE Append(fresh, ToolResult(c.id))
        /\ IF nextCall < Len(resp.calls)
           THEN /\ nextCall' = nextCall + 1
                /\ UNCHANGED <<phase, resp, listening, requests>>
           ELSE /\ nextCall' = 1
                /\ BeginRequest
        /\ UNCHANGED <<queueVars, permitted, briefings, base, history, summarised, resets,
                       allowed, toolIterations, nudges, requiredUsed>>

\* One tool call: unknown, not allowed, or executed (with a value or an
\* error), it is answered by one result.  After the last one the turns go
\* back to the provider.
RunTool ==
    LET c    == resp.calls[nextCall]
        runs == c.name \in Tools /\ IsAllowed(c.name)
    IN  /\ phase = "tools"
        /\ ran' = IF runs THEN ran \cup {c.name} ELSE ran
        /\ fresh' = Append(fresh, ToolResult(c.id))
        /\ IF nextCall < Len(resp.calls)
           THEN /\ nextCall' = nextCall + 1
                /\ UNCHANGED <<phase, resp, listening, requests>>
           ELSE /\ nextCall' = 1
                /\ BeginRequest
        /\ UNCHANGED <<queueVars, permitted, briefings, base, history, summarised, resets,
                       allowed, toolIterations, nudges, requiredUsed>>

\* The turns once the response's text and thinking, if any, are pushed.
HasContent == resp.text \/ resp.thinking
WithContent == IF HasContent THEN Append(fresh, Plain("assistant")) ELSE fresh

\* Mutant of RequiredNudge: the nudges are not counted.
RequiredNudgeAlways ==
    /\ ~requiredUsed
    /\ ~UsesRequiredTool(resp.calls)
    /\ \E t \in RequiredTools : IsAllowed(t)

\* No required tool was used although one may be.
RequiredNudge ==
    /\ ~requiredUsed
    /\ ~UsesRequiredTool(resp.calls)
    /\ nudges < MaxNudges
    /\ \E t \in RequiredTools : IsAllowed(t)

\* The model answers in plain text before any tool call.
ScratchpadNudge ==
    /\ resp.calls = <<>>
    /\ toolIterations = 0
    /\ HasContent
    /\ Tools # {}
    /\ nudges < MaxNudges

\* Mutant of StreamEndsWithNudge: the nudge is not counted.
StreamEndsWithFreeNudge ==
    /\ phase = "stream"
    /\ ~RunsTools
    /\ RequiredNudge \/ ScratchpadNudge
    /\ requiredUsed' = (requiredUsed \/ UsesRequiredTool(resp.calls))
    /\ fresh' = Append(WithContent, Plain("nudge"))
    /\ BeginRequest
    /\ UNCHANGED <<queueVars, permitted, briefings, base, history, summarised, resets,
                   allowed, toolIterations, nudges, nextCall, ran>>

StreamEndsWithNudge ==
    /\ phase = "stream"
    /\ ~RunsTools
    /\ RequiredNudge \/ ScratchpadNudge
    /\ requiredUsed' = (requiredUsed \/ UsesRequiredTool(resp.calls))
    /\ fresh' = Append(WithContent, Plain("nudge"))
    /\ nudges' = nudges + 1
    /\ BeginRequest
    /\ UNCHANGED <<queueVars, permitted, briefings, base, history, summarised, resets,
                   allowed, toolIterations, nextCall, ran>>

\* Mutant of Answer: an empty answer pushes nothing.
AnswerNothing == WithContent

\* The turns at the end of the turn: an empty answer is pushed as
\* "(no content)".
Answer == IF resp.text THEN WithContent ELSE Append(WithContent, Plain("assistant"))

StreamEndsTurn ==
    /\ phase = "stream"
    /\ ~RunsTools
    /\ ~RequiredNudge
    /\ ~ScratchpadNudge
    /\ fresh' = Answer
    /\ EndTurn
    /\ UNCHANGED <<queueVars, permitted, briefings, base, history, summarised, resets>>

-----------------------------------------------------------------------------

\* What the run loop does with an interrupt before its next await.
Dispatch ==
    \/ \E k \in Kinds : ResolveFails(k)
    \/ \E t \in Tools : AllowTool(t)
    \/ Reset
    \/ BeginBareEvent
    \/ BeginMessage

Prepare ==
    \/ \E given \in BOOLEAN : Briefing(given)
    \/ WindowCompacts
    \/ \E start \in 0 .. Len(history \o fresh), rolls \in BOOLEAN : LcmCompacts(start, rolls)
    \/ \E merges, some \in BOOLEAN : LcmFails(merges, some)
    \/ FetchPermissions
    \/ PermissionsFail

Receive ==
    \/ ReceiveText
    \/ ReceiveThinking
    \/ \E c \in Call : ReceiveToolCall(c)

StreamEnds ==
    \/ StreamFails
    \/ StreamEndsWithCalls
    \/ StreamEndsWithNudge
    \/ StreamEndsTurn

Next ==
    \/ \E k \in Kinds : Send(k)
    \/ Dispatch
    \/ Prepare
    \/ StashInterrupt
    \/ Receive
    \/ StreamEnds
    \/ RunTool

Spec == Init /\ [][Next]_vars

\* The runtime schedules the agent task while it can run; the store, the
\* memory provider (bounded by a timeout) and the tools answer; a provider
\* stream that has begun ends.  The last one is the provider's promise: the
\* code sets no timeout on a stream.
Fairness ==
    /\ WF_vars(Dispatch)
    /\ WF_vars(Prepare)
    /\ WF_vars(RunTool)
    /\ WF_vars(StreamEnds)

FairSpec == Spec /\ Fairness

-----------------------------------------------------------------------------
(* Properties.                                                             *)

\* Every variable has its type; the stash holds one interrupt at most, and a
\* call about to run is one of the response's.
TypeOK ==
    /\ inbox \in Seq(Interrupt)
    /\ Len(inbox) <= QueueCapacity
    /\ stash \in Seq(Interrupt)
    /\ Len(stash) <= 1
    /\ sent \in Nat
    /\ started \in Nat
    /\ permitted \subseteq Tools
    /\ briefings \in Nat
    /\ base \in Seq(Message)
    /\ fresh \in Seq(Message)
    /\ history \in Seq(Message)
    /\ summarised \in BOOLEAN
    /\ resets \in Nat
    /\ phase \in Phases
    /\ allowed \subseteq Tools
    /\ toolIterations \in 0 .. MaxToolIterations
    /\ nudges \in 0 .. MaxNudges
    /\ requiredUsed \in BOOLEAN
    /\ listening \in BOOLEAN
    /\ resp \in Response
    /\ nextCall \in Nat \ {0}
    /\ phase = "tools" => nextCall <= Len(resp.calls)
    /\ requests \in Nat
    /\ ran \subseteq Tools

\* The calls of message i of s are answered by the messages right after it,
\* one each, in order.
Answered(s, i) ==
    \A j \in 1 .. Len(s[i].ids) :
        /\ i + j \in 1 .. Len(s)
        /\ s[i + j].role = "tool"
        /\ s[i + j].ids = <<s[i].ids[j]>>

\* The result at i belongs to the group of an assistant message before it.
Owned(s, i) ==
    \E k \in 1 .. (i - 1) : s[k].role = "calls" /\ i - k <= Len(s[k].ids)

Paired(s) ==
    \A i \in 1 .. Len(s) :
        /\ s[i].role = "calls" => Answered(s, i)
        /\ s[i].role = "tool" => Owned(s, i)

\* What a provider is sent is a conversation it accepts: every tool call is
\* followed by exactly one result, in order, and no result stands without its
\* call.  One call left unanswered, or a tail cut inside a group, and strict
\* providers refuse this request and all that follow.
RequestsPaired == phase = "stream" => Paired(turns)

\* When a turn is over, however it went, the context ends with an assistant
\* message: the next user message never follows another, and an unfinished
\* group is never left behind.
TurnLeavesAnswer ==
    phase = "idle" /\ turns # <<>> => turns[Len(turns)].role = "assistant"

\* A turn makes a bounded number of provider requests, whatever the model
\* answers: each one after the first is paid for by a tool iteration or a
\* nudge.
RequestBudget == requests <= MaxToolIterations + MaxNudges + 1

\* A tool the conversation was never granted does not run, whatever calls the
\* model makes, and an iteration may mix them with others.
DeniedToolsNeverRun == ran \subseteq DefaultAllowed \cup permitted

\* After a reset the provider sees no message from before it.
ResetForgets ==
    phase = "stream" =>
        \A i \in 1 .. Len(turns) : turns[i].role # "system" => turns[i].epoch = resets

\* A turn whose tool iterations are not used up completes only after a
\* required tool has run, unless none may or every nudge is spent.
RequiredToolHonoured ==
    [][StreamEndsTurn =>
        \/ ran \cap RequiredTools # {}
        \/ toolIterations = MaxToolIterations
        \/ nudges = MaxNudges
        \/ \A t \in RequiredTools : ~IsAllowed(t)]_vars

\* The agent implements the queue it promises: nothing is lost, repeated or
\* overtaken between the channel, the stash and the run loop.
Queue == INSTANCE InterruptQueue
            WITH pending <- stash \o inbox, stopped <- (phase = "dead")

InterruptsInOrder == Queue!Spec

\* Every interrupt a transport has sent is begun, unless the agent dies.
EveryInterruptBegun ==
    \A n \in 1 .. MaxInterrupts : (sent >= n) ~> (started >= n \/ phase = "dead")

=============================================================================
