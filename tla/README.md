# Livvi, modelled

Livvi is a social agent: a daemon that takes events from Discord, keeps one
conversation context per channel, asks a language model what to do, runs the
tools the model calls, and sends the answer back through a tool.  This directory
holds TLA+ models of the parts of it that are concurrent, persistent or full of
cases; TLC configurations that check them on small instances; and proofs of
every invariant and action property that they check, for every size.

Paths are relative to the repository.  Names in `code font` are names of the
source or of a module; a module keeps the source's names where it can.

* [The system](#the-system): the inventory
* [Modules](#modules): how state and actions correspond to the code
* [Runs](#runs): what is checked, with which bounds, under which fairness
* [Proofs](#proofs)
* [Where code and documentation disagree](#where-code-and-documentation-disagree)
* [What is not modelled](#what-is-not-modelled)
* [Plan](#plan)

Run a model with `tlc -config <run>.cfg <Module>.tla`; check a proof with
`tlapm <Module>.tla`.

## The system

```
 Discord gateway --> livvi-discord handlers --\
                                               >--> interrupt channel (256)
 other transports ----------------------------/            |
                                                            v
                       livvi-core  Agent::run  (one task, one interrupt at a time)
                         |  resolve: identities, conversations   --> livvi-store (SQLite)
                         |  LRU cache: conversation -> Context
                         |  run_turn:  briefing                  --> memory provider
                         |             compaction                --> window | livvi-lcm (SQLite)
                         |             tool permissions          --> livvi-store
                         |             stream_iteration <-- channel (64) <-- livvi-openai task
                         |             tool calls                --> toolbox
                         \  capture (spawned, after the turn)    --> memory provider

 livvi-daemon: select! over signal, agent task and plugin tasks; the first to end ends the process
```

| Component | State | Operations | What is hard |
|---|---|---|---|
| Agent turn: `livvi-core` `agent/turns.rs`, `context.rs`, `model.rs`, `permission.rs` | `Context.turns`, `Context.system`, and the locals of a turn: iterations, nudges, whether a required tool was used, the fetched permissions | briefing, compaction, permissions, requests, tool calls, nudges, answer | An interrupt arrives while the provider streams; calls and results must stay paired through denied tools, errors, nudges and compaction; the loop must end |
| Window compactor: `compaction.rs` | none | `compact` | where the cut falls |
| Run loop: `agent/mod.rs`, `agent/interrupts.rs`, `interrupt.rs` | LRU of contexts, the stashed interrupt, the channel and who holds a sender of it | receive, resolve, dispatch, reset, turn, end | the stash belongs to any conversation; eviction; an error ends the agent; the channel closes with its last sender |
| Daemon and builder: `livvi-daemon/src/main.rs`, `AgentBuilder` | the tasks it waits for, what is registered but not spawned | open, register, build, spawn, `select!` | a start that fails half way; interrupts before the agent runs; no task may go on alone |
| Resolver: `resolve.rs` | none of its own | person, identity, alias, conversation, participant, permission | several commits for one event; failure or restart between them |
| Store: `livvi-store` | persons, identities, conversations, participants, permissions | get-or-create, link, alias list as one string | read, change, write back |
| LCM: `livvi-lcm` | raw messages and summary nodes in memory, both tables on disk | merge, save, chunk, condense, return | memory changes before the store call that may fail; restarts; children saved before their parent |
| Discord transport: `livvi-discord/src/lib.rs` | none | one handler task per gateway event | handlers overtake each other; a command is answered before it is queued |
| Discord tools: `livvi-discord/src/tools` | none | send, react: one HTTP request each | which calls are refused before the request, and in which order |
| Providers: `livvi-openai` | byte buffer, call accumulators | stream a response, convert messages | fragments cut anywhere; deltas of several calls; a connection that closes anywhere; a bounded channel |
| Memory: `livvi-core/src/memory`, `livvi-memini` | none (a remote service) | briefing, recall, capture, tools | capture is spawned and outlives its turn; who is the caller |
| Web tools: `livvi-web` | none | search, fetch, truncate | bytes and characters, blank lines, limits of zero |
| Toolbox and macros: `tool/`, `livvi-core-macros`, `livvi-openai/src/common.rs` | registered tools and their input types | register, define for the provider, extract, call | three descriptions of one input: the type, its schema, and what the provider is sent |
| Plugins and state: `plugin.rs`, `state.rs` | typed map filled at start-up, tasks, tools | insert, build | what a tool needs is contributed apart from the tool, in any order |

What makes each of them correct:

* **Agent turn.** A provider is always sent a conversation it accepts: every
  tool call followed by its result.  A tool the conversation was not granted never
  runs.  A turn makes a bounded number of requests and leaves an answer.  A
  response tool is used when one may be.  After a reset the model sees nothing
  older.
* **Run loop.** Interrupts are begun once each, in the order of sending.  A
  message goes to its own conversation.  Only a reset, or eviction by as many
  other conversations as the cache holds, makes a conversation forget.
* **Daemon.** The end of any task ends the process.  The agent ends by itself only
  when nobody can send any more, and not before it has begun all that was sent.
* **Toolbox, plugins, tools.** A tool that the model is offered finds what it needs.
  What the provider is told a tool takes is what the tool takes.  The answer of a
  web tool is the beginning of what was found.
* **Resolver, store, transport.** An author is one person, a channel one
  conversation, for ever; what the agent acts on is recorded; permissions come
  only from those who may give them; a reply's promise is kept.
* **LCM.** No message is lost between memory, disk and summaries; none is
  summarised twice; the context is told in order; the number of summaries is
  bounded.
* **Providers.** What the server sent is what the agent gets: tokens in
  order, calls once, arguments whole and of the right call; and a closed
  connection ends the request.

## Modules

Dependencies point to the module that is used:

```
 AgentTurnProofs --> AgentTurn --> InterruptQueue     Daemon --> AgentLoop --> Transcripts
 MCAgentTurn ------> AgentTurn                        DaemonProofs --> Daemon
 MCIdentity, IdentityProofs --> Identity              ProviderStream --> Completion
 MCMemory, MemoryProofs --> Memory                    ProviderStreamProofs --> ProviderStream
 MCTools, ToolsProofs --> Tools                       Tools --> InputSchemas, WebPages
 LcmProofs --> Lcm                                    LcmProofs, ToolsProofs --> Recursion
```

`InterruptQueue`, `Transcripts` and `Completion` are abstract specifications:
they say what a component promises and nothing of how.  `AgentTurn` implements
the first, `AgentLoop` under the specification of `Daemon` the second,
`ProviderStream` the third, each by a refinement mapping (`INSTANCE ... WITH`).
`Recursion` models nothing: it has the facts about numbers, folds and sequences that
two proofs share.

### AgentTurn: one conversation, step by step

The agent task from one conversation's point of view.  Every step between two
awaits is one action.

| Variables | Code |
|---|---|
| `inbox`, `stash` | the `mpsc` channel `input`; `stashed_interrupt` of a turn, which becomes `next_interrupt` of the run loop |
| `base`, `fresh` | `context.turns` is `base \o fresh`: what the last compaction returned, and what was pushed since |
| `briefings`, `permitted` | `context.system` after the soul; the store's permissions |
| `history`, `summarised` | the LCM compactor's `raw_messages`; whether it has an active summary |
| `phase` | where the task is; `"dead"` after `?` took an error out of `Agent::run` |
| `allowed`, `toolIterations`, `nudges`, `requiredUsed`, `listening`, `resp`, `nextCall` | locals of `run_turn` and `stream_iteration` |
| `sent`, `started`, `resets`, `requests`, `ran` | history, read by no action's choice |

| Actions | Code |
|---|---|
| `Send`, `ResolveFails`, `AllowTool`, `Reset`, `BeginBareEvent`, `BeginMessage` | transports; `Agent::run` and `interrupts.rs` up to the first await of the turn |
| `Briefing`, `WindowCompacts`, `LcmCompacts`, `LcmFails`, `FetchPermissions`, `PermissionsFail` | the preparation in `run_turn` |
| `ReceiveText`, `ReceiveThinking`, `ReceiveToolCall`, `StashInterrupt` | the two branches of `select!` in `stream_iteration` |
| `StreamFails`, `StreamEndsWithCalls`, `StreamEndsWithNudge`, `StreamEndsTurn` | what `run_turn` does with a finished iteration |
| `RunTool` | one call: unknown, denied, or executed with a value or an error |

A message is its role, the ids of the calls it makes or answers, and the number
of resets before it.  A model may put any registered or invented name in a call,
use an id twice, and mix text, thinking and calls.  The LCM compactor appears
here only as far as the turns do: it may roll what precedes a safe tail into
summaries and returns summaries and tail; `Lcm` has the rest.  Both branches of
`CONSTANT Compactor` are checked.

### AgentLoop and Daemon: all conversations, and the process

`AgentLoop` has the LRU cache (`contexts`, most recently used first), the channel,
the stash, the senders of the channel, and the tasks the daemon selects over.  A
turn is its beginning and its end; a context is the numbers of the messages pushed
to it.  `Capacity` is `LIVVI_AGENT_CONTEXT_LRU_CAPACITY`.

| Actions | Code |
|---|---|
| `Send`, `DropSender` | the transport's task, or a program that embeds the agent |
| `Resolved` | the resolver keeps the interrupt, or the store failed |
| `BeginTurn`, `Reset`, `IgnoreAllow` | the context of the conversation is fetched (`UseContext` is `get_or_insert_mut`); without a store, an `AllowTool` interrupt gets as far as this |
| `Stash`, `EndTurn`, `TurnFails` | the turn takes the next interrupt off the channel; it ends, or `?` ends the agent |
| `AgentEnds` | `recv` returns `None` |
| `TransportEnds`, `ExitOnSignal`, `ExitWithAgent`, `ExitWithTransport` | the ends of tasks and the branches of `select!` in `main` |

`Daemon` puts the start before it, one action per step of `main` and of
`AgentBuilder::build`: `Open` (configuration, databases, the builder and its
channel), `Register` (plugins, whose tasks are registered but not spawned), `Hold`
(the daemon's own sender), `Build` (tasks are spawned, the builder's sender is
dropped), `SpawnAgent`; `StartFails` is an error of a database or of `build()`.
`setup` has three programs: the daemon with Discord, the daemon without, and an
embedder without a store, which may drop its sender.  `Daemon`'s specification is
the process as a whole, and the one that implements `Transcripts`.

### Tools, InputSchemas and WebPages: what the model may call

`Tools` starts where the builder does: plugins register in any order
(`RegisterDiscord`, `RegisterMemini`, `RegisterWeb`), an embedder contributes a tool,
a state or a provider of its own (`Embed`), `Build` adds the memory tools.  Then the
model calls: `Call` is the lookup and the extractors, input first; `DiscordSend`,
`DiscordReact`, `MemoryTool`, `Fetch` and `Search` with their failures are the tools;
`Return` puts the result into the context.  Arguments are the plainest call or one
that differs from it in one field, present, absent or of any JSON value.

`InputSchemas` has the input types of the eleven tools and three readings of them:
the schema that schemars derives (external), livvi's reduction of it that the
provider is sent (`function_parameters_from_value` and what it calls), and what the
extractor takes (the schema, then serde).  A JSON value is its type and as much of
its content as a schema or a type can tell apart.

`WebPages` has the pure parts of the web tools: `Normalise`, `truncate_text`, `Found`.
A character is a letter, a space or one of two bytes.

### Lcm: memory, disk and summaries

One conversation's `LcmConversationState` (`raw`, `nodes`), the two tables
(`diskRaw`, `diskNodes`), and the context that receives the result (`shown`,
`tail`, `fresh`).  The agent awaits `compact()`, so nothing interleaves with it
except failing store calls and the end of the process; each store call that
writes is an action (`SaveMessages`, `SaveChunk`, `MarkChild`, `SaveParent`), has a
failing twin, and `Crash` may come between any two.  A save of messages is an
upsert by id (`Saved`): a message that has a row gets a new one at the end.  What
happens in memory
between two store calls belongs to the action of the call before (`Continue`,
`Finish`).  `Continue` is the rest of one turn of the two loops: `Condense` when a
depth holds enough nodes, else `NextChunk` when there is a chunk left to roll, else
`Finish`.  `Forget` is both the reset and the eviction: the context goes, the
compactor keeps its state.  A summary is the set of messages its text covers.
`Without` and `InOrder`, for the filters and sorts of the code, are given by
positions: the i-th of a set of numbers is the one with i - 1 smaller ones (`Rank`).

### Identity: from a gateway event to ids in the store

Handler tasks that answer the user and then forward; the queue; the three
resolvers with one action per committed write; the tables.  `StoreFails` drops the
interrupt as the run loop does, `Crash` may come at any point.  A display
name is the sequence of its comma-separated parts, because `also_known_as` is a
comma-separated column: `AddName` pushes what the next read will see.  `LinkIdentity`
inserts, and has no step for an author who is linked: the key refuses the row.
`PersonForGood` speaks of the tables and of what was dispatched: neither ever has
two persons for one author.

### ProviderStream: one streamed request

Both providers of `livvi-openai`, selected by `protocol`.  The server opens calls
in order, sends their argument pieces in order, interleaves texts, comments and
broken events, and may stop anywhere.  In the chat protocol an event is bytes
(`UnitsOf`) which the network cuts into fragments anywhere, even inside a
character; the provider decodes each fragment, looks for a blank line, and
accumulates calls under their index (`ReadFragment`, `FirstBlank`, `TakeEvent`).  A token
and an argument piece may hold such a character (`wide`); when it was cut, what the
agent gets of it is marked `garbled`.  Events of the Responses API come whole from
the client library (`TakeStreamed`).  Sending to the bounded channel (`SendNext`) may have to wait; the agent's `stream_iteration`
is `Receive` and `Join`.  `Flush` hands over the calls that are left, in the
order a `HashMap` happens to have.

### Memory: the remote memory, and who uses it

Of a context only the user messages are kept, as the persons who wrote them
(`users`): that is what `from_tool_context` looks at.  `phase` is where the turn
is; `requests` are those somebody waits for, or which the service may still carry
out; `memories` is the service's table.  `Begin`, `Enter`, `Nudge` and `EndTurn` are
`run_turn` as far as memory goes, with the briefing before the first message and
the capture spawned at the end; `Read`, `Remember`, `Update` and `Erase` are the seven
memory tools; `Deliver` and `GiveUp` are the client.  The service is external:
`Serve`, `Decline` (too low a signal, an unknown id) and `Refuse` may come at any time
after the request, in any order, or never, and also after the caller gave up.
`Enter` leaves the context any end of the conversation's messages, which covers
both compactors.

## Runs

`CHECK_DEADLOCK FALSE` stands in every configuration, because each of these
systems may really stop: the transports have sent all of their bounded input, the
agent has ended or the process exited, a call has panicked, or the server is silent.

| Run | Question | Properties |
|---|---|---|
| `turn_lcm` | Are requests well formed, and tools run only with permission, whatever the model does? | `TypeOK`, `RequestsPaired`, `DeniedToolsNeverRun`, `RequiredToolHonoured` |
| `turn_window` | Does a turn stay within its budget and leave a context the next one can use, and does each interrupt get its turn, in order, through the stash? | `TurnLeavesAnswer`, `RequestBudget`, `ResetForgets`, `InterruptsInOrder`, `EveryInterruptBegun` |
| `lcm` | What survives a failed store call or a restart at every possible point; and is, without them, everything summarised once and told in order? | `TypeOK`, `DiskAgrees`, `DiskInOrder`, `SummarisedOnce`, `Chronological`, `ActiveBounded` |
| `loop` (module `Daemon`) | From the start of the process to its end: do conversations stay apart in the cache, is what was sent begun before the agent ends, and does the process end when a task does? | `DaemonTypeOK`, `EndsDrained`, `TranscriptsKept`, `NoneGoesOnAlone` |
| `identity` | Do authors keep their person and their names through failures and restarts, do authors and channels stay apart, and do commands do what they say? | `TypeOK`, `DispatchedIsRecorded`, `NamesAreKept`, `NothingShared`, `GrantedByAdmin`, `PersonForGood`, `PromiseKept` |
| `tools` | Do offered tools find what they need, do the three readings of a tool's input agree, and do the web tools answer what they found? | `TypeOK`, `ToolsReady`, `SchemaFaithful`, `AnswersFaithful` |
| `stream` | Is what the server sent what the agent gets, whatever the network does? | `TypeOK`, `NothingLost`, `ArgumentsAreOwn`, `CompletionKept`, `IterationEnds` |
| `memory` | Do the memory tools act for the right person, is what they report so, is each turn captured as itself, and does a turn end although the service is silent? | `TypeOK`, `CallerNeverOther`, `CapturesFaithful`, `ToldIsTrue`, `NothingHangs` |
| `find_window_splits`, `find_lcm_reset`, `find_lcm_gap`, `find_fetch_length` | The four disagreements below; TLC finds the trace | `RequestsPaired`, `ResetForgets`, `ContextComplete`, `LengthInCharacters` |

Every property has a mutant, an operator of the same module that changes the
code the way a plausible bug would (a permission that is not looked up, a tail cut
without walking back, a nudge that is not counted, a save that is skipped, a
channel that drops); with the mutant in place, TLC finds the property violated.

### Bounds

* `turn_lcm`: two calls per response with two ids are the smallest response in
  which one call may be denied and the other not, and in which a result can be
  given to the wrong call; `FreshTail` 3 is shorter than a turn with two calls, so
  the tail's start falls inside a group and must walk back.  Two interrupts make a
  second turn on what the first one's compaction returned.  One tool iteration
  reaches the limit, one nudge the end of the nudges.
* `turn_window`: two tool iterations and a nudge mix both ways of going on;
  `Trigger` 2 makes the second turn compact.  Three interrupts are the smallest
  number with one in its turn, one in the stash and one in the channel.
* `loop`: three conversations and two contexts make eviction, and four interrupts
  let an evicted conversation come back after a turn that stashed another's.  A
  channel of two lets one interrupt wait in the stash and two behind it.  The three
  setups of `AgentLoop` are all initial states.
* `lcm`: seven messages with `FreshTail` 1 make several chunks, two levels of
  condensation and a conversation that goes on after both, with a context that
  was dropped in between.  `MaxTroubled` 5: a failure and a crash, in either order
  and at every store call, fall among the first five messages, which reach the
  second level; what has gone wrong by then does not need more of them.
* `identity`: three events of two authors with two names in two channels reach a
  first meeting, a new name and the same name again, and a command; a failure and
  a restart between any two writes; a queue of one, so that a handler waits for
  room.  `FirstEvent` in `MCIdentity` fixes channel and name of the first event:
  channels and names are interchangeable.
* `tools`: pages of three lines have a blank line before, between and after others,
  and two blank lines in a row; a line is blank, has blanks around it or within it,
  or a character of two bytes.  Three results with and without a URL, limits from
  zero to three.  One field differs from the plainest call at a time: the checks
  look at each field alone.
* `stream`: four events suffice for a call whose two argument pieces are both
  sent followed by a second call, for two calls whose deltas interleave, and for
  a text or an argument piece cut inside its character; a channel of one makes the
  provider wait.
* `memory`: two turns suffice for an author and an earlier one, for a capture that
  runs beside a later turn, and for a context that was cleared in between;
  `MaxWork` 4 leaves two to three tool calls, nudges, resets or restarts beside
  them, and an update that is given up, a deletion that succeeds and the late
  update are two calls.  `FirstTurn` in `MCMemory` fixes who speaks first: conversations
  and persons are interchangeable.  A message whose save failed is taken to
  survive a restart; `Lcm` has that loss.

The unbounded things are history counters and the number of inputs; every bound
is a constant marked `bound:` in its module.

### Fairness

* `AgentTurn`: weak fairness of the agent's steps.  The runtime schedules the task;
  the store and tools answer; a briefing has a timeout (`turns.rs`).  That a
  provider stream which has begun also ends is the provider's promise: the code
  sets no timeout on it, and without this assumption a hung stream holds all
  conversations.  Transports need not send.
* `Daemon`: weak fairness of the start, and of the two branches of `select!` that
  a finished task enables: both are `main`, which the runtime schedules.  Nothing
  is assumed of the agent or the transport, and a signal need not come.
* `Identity`: weak fairness of the resolver, and of `Forward` for each handler:
  `mpsc` senders that wait for room are served in order, so that none starves.
  Discord need not answer.
* `ProviderStream`: weak fairness of the provider task and of the agent only.  The
  server need not answer, nor close the connection; `IterationEnds` therefore
  begins with a server that is done or a connection that is closed.
* `Memory`: weak fairness of the turn's own steps and of the three timeouts (the
  briefing's 3 s, the capture's 10 s, the HTTP client's 30 s).  Nothing is assumed
  of the service.

## Proofs

Each module has one assumption on its constants, and the theorems about it need no
other: `TurnAssumption` (required and default tools are registered, limits are
natural numbers, `FreshTail` and the queue's capacity are not zero, `KeepPercent` is
a percentage), `LoopAssumption` (neither cache nor channel has capacity zero),
`IdentityAssumption` (admins are authors, names are sequences of strings, the queue
has room), `MemoryAssumption` (nobody is no person), `ToolsAssumption` (lines are
sequences of characters, limits are natural numbers),
`LcmAssumption` (tail, chunk step and condensation take at least one, the other
limits are natural numbers), `StreamAssumption` (the channel has room for one, a
call has at least one argument piece).  The
bounds on inputs (`MaxInterrupts`, `MaxCalls`, `MaxTexts`, `MaxEvents`,
`MaxFails`, `MaxCrashes`, `MaxTurns`, `MaxWork`, `MaxLines`, `MaxResults`) are any
numbers.

| Theorem | Module | States |
|---|---|---|
| `TypeCorrect` | `AgentTurnProofs` | `Spec => []TypeOK` |
| `RequestBudgetHolds` | `AgentTurnProofs` | `RequestBudget` |
| `DeniedToolsNeverRunHolds` | `AgentTurnProofs` | `DeniedToolsNeverRun` |
| `TurnLeavesAnswerHolds` | `AgentTurnProofs` | `TurnLeavesAnswer` |
| `RequiredToolHonouredHolds` | `AgentTurnProofs` | `RequiredToolHonoured`, an action property |
| `QueueImplemented` | `AgentTurnProofs` | `Spec => InterruptsInOrder`: every step is a step of `InterruptQueue` or a stutter |
| `RequestsPairedWithLcm` | `AgentTurnProofs` | `RequestsPaired` when `Compactor = "lcm"` |
| `ResetForgetsWithWindow` | `AgentTurnProofs` | `ResetForgets` when `Compactor = "window"` |
| `DaemonTypeCorrect` | `DaemonProofs` | `DaemonTypeOK`, with the cache's and the channel's bounds |
| `EndsDrainedHolds` | `DaemonProofs` | `EndsDrained` |
| `TranscriptsImplemented` | `DaemonProofs` | `Spec => TranscriptsKept`: every step is a step of `Transcripts` or a stutter |
| `TypeCorrect` | `IdentityProofs` | `TypeOK`, with the foreign keys |
| `DispatchedIsRecordedHolds`, `NothingSharedHolds`, `GrantedByAdminHolds` | `IdentityProofs` | the invariants of these names |
| `PersonForGoodHolds` | `IdentityProofs` | `PersonForGood`, an action property |
| `NamesAreKeptHolds` | `IdentityProofs` | `NamesAreKept` when no name holds a comma |
| `TypeCorrect` | `MemoryProofs` | `TypeOK` |
| `CallerNeverOtherHolds`, `ToldIsTrueHolds`, `CapturesFaithfulHolds` | `MemoryProofs` | the invariants of these names |
| `TypeCorrect` | `ToolsProofs` | `TypeOK` |
| `ToolsReadyHolds` | `ToolsProofs` | `ToolsReady` |
| `SchemaAgrees` | `ToolsProofs` | of any tool and arguments: the definition sent and the extraction agree, with `SchemaFaithful`'s exceptions |
| `SchemaFaithfulHolds` | `ToolsProofs` | `SchemaFaithful` |
| `NormaliseReads` | `ToolsProofs` | `Normalise(page) = Readable(page)`, of any page over any characters |
| `AnswersFaithfulHolds` | `ToolsProofs` | `AnswersFaithful` |
| `TypeCorrect` | `LcmProofs` | `TypeOK` |
| `DiskInOrderHolds`, `DiskAgreesHolds` | `LcmProofs` | the invariants of these names: what table and memory hold, through faults |
| `ActiveBoundedHolds` | `LcmProofs` | `ActiveBounded`: no depth fills up, through faults |
| `SummarisedOnceHolds`, `ChronologicalHolds` | `LcmProofs` | the invariants of these names, of behaviours without faults |
| `TypeCorrect` | `ProviderStreamProofs` | `TypeOK`, with the channel's bound |
| `NothingLostHolds`, `ArgumentsAreOwnHolds` | `ProviderStreamProofs` | the invariants of these names, for both protocols |
| `CompletionImplemented` | `ProviderStreamProofs` | `Spec => CompletionKept`: every step is a step of `Completion` or a stutter |

Three carry a hypothesis, since without it the property is false:
`RequestsPairedWithLcm` and `ResetForgetsWithWindow` the compactor, as
`find_window_splits` and `find_lcm_reset` show, and `NamesAreKeptHolds` names
without commas, which come back as several.

None of the properties is inductive as it stands; each proof strengthens it:

* `RequestBudget` by `Paid`: while a request streams, their number is the number
  of tool iterations and nudges plus one; between the tools it is one less; else
  all three are zero.  Without the exact equality a tool iteration could follow a
  nudge and be counted once.
* `DeniedToolsNeverRun` by `Granted`: the fetched permissions are a subset of
  the store's, since the store's only grow.
* `TurnLeavesAnswer` by `AnswerLast`: between turns either the context is empty,
  or something was pushed since the last compaction and the last of it is an
  assistant message.  The property alone would not survive a compaction that
  returned something else last.
* `InterruptsInOrder` by `StashFree`: the agent listens only while its stash is
  empty, so that putting an interrupt in the stash never overwrites one.
* `RequiredToolHonoured` by `UsedIsTrue`: when a required tool is marked as used,
  one has run, or is among the calls yet to run, or the iterations are used up.
* `RequestsPaired` by `ContextPaired`: what the last compaction returned, what was
  pushed since, and the compactor's own messages are each paired in every phase,
  but for the one group whose calls are being run, which is answered up to
  `nextCall`.  The lemmas on sequences are: concatenation, a suffix that starts at
  a safe tail, and a group that opens, grows and closes.
* `ResetForgets` by `ContextCurrent`: every message since the last reset is
  of the present epoch, in every phase.

* `TranscriptsKept` by `Cached` and `Waits`.  `Cached`: no conversation has two
  contexts, the cache is sorted by last use, and what is not in it was used before
  all that is.  This is what ties the cache to the promise: an entry is dropped
  just when as many other conversations as the cache holds were used after it, since
  those are then exactly the entries in front of it (`UseKeeps`, which counts them
  with the library's theorems on finite sets).  `Waits`: what waits in stash and
  channel has the numbers after the last one begun, and a turn listens only while
  its stash is empty.
* `EndsDrained` by `Started`: at each step of the start, which tasks there are and
  that the daemon's own sender stays.
* `Identity`'s properties by `Resolving`: what the resolver holds in its locals
  between two commits is still what the tables say, and a person who is created
  and not yet linked is linked to nobody; `Numbered`: ids grow, so a new one is new;
  `Commanded`: an allow event, wherever it is, comes from one of the admins.
  `NamesAreKept` needs `Named` besides: past the alias table, the person goes by the
  event's name.
* `Memory`'s by what each request on its way may still do: `OneWaits` (a turn waits
  for one request), `Askers` and `Numbered` (who asks what, about which ids),
  `Unknown` (nobody knows the id of a memory not stored yet), `AnswersAreTrue` (what
  the tool will report is so when it does) and `CapturedOnce` (a turn has one
  request, then one memory).  `CallerIsLast` ties the context, which compaction
  cuts and a reset clears, to all that was said.
* `ToolsReady` by `Contributed`: without an embedder, each tool in the toolbox came
  with what it needs; and nothing is contributed after `Build`.
* `SchemaFaithful` and `AnswersFaithful` by `Taken` and `Answered`: a call keeps the
  arguments, page, results and limits that its outcome came from.  All the rest is
  about operators, with no state:
  * `SchemaAgrees` looks at a field's type, not at the tools one by one.  A type is a
    base type with three flags; `SchemaOf` makes of it a list, a type of its own, a
    reference or a union with null (`SchemasAre`), and for each of these the lemmas
    say what the schema allows (`ValidIs`), what `normalize_schema` leaves of it and
    what the definition then admits (`DefinitionsAre`, `AdmitsIs`).  `FieldFaithful`
    compares the two with what the type reads.  Only `FieldsTyped`, that every field
    of every tool has such a type, goes through the tools; a tool that is added needs
    one more line there.  It uses that lists are of strings, tiers and levels: with a
    list of counts a fraction within it would pass the definition.
  * `NormaliseReads` goes from one prefix of the page to the next.  `Reads` says what
    the code's accumulator holds after `i` lines: the pieces of the solid lines up to
    `i`, and one blank line more if the last line was blank and something stands
    before it.  That pending blank line is what the loop's flag and the final trim are
    about; an equation between the two ends could not carry it.
  * `TruncateFacts` cuts a text of characters by a length in bytes: a text has at
    least as many bytes as characters (`BytesAtLeast`), so that the code's early
    return, which compares bytes, never keeps a text that is too long.
  * `FoundIs` is about the results in the same way: `Finds` says what the loop has
    found of the first `i`.

* `Lcm`'s by five parts, which TLC checked on the `lcm` instance before they were
  proved, each resting on those before it:
  * `Typed` adds to the types what the locals are worth in each phase.
  * `Ordered`, for `DiskInOrder`: table, memory, tail and the context's own messages
    are each sorted, and what the context has and memory has not is newer than all
    that memory or the table knows.  Without that, appending what is new would not
    keep the table sorted.
  * `Agreeing`, for `DiskAgrees`: in the middle of a condensation the children have
    lost their place and the parent is not there yet; what is not held is then
    covered by a node or by the parent that is being made (`Pending`).
  * `Bounded`, for `ActiveBounded`: some number `a` of nodes too many is active in
    memory and some number `b` in the table only, and their sum is what faults
    account for (`Excess`).  A restart turns the second into the first; while a
    condensation marks its children the depth holds at most `a` others.  A state
    that forgot its nodes speaks of the table alone.  The bound first written,
    one node for each fault, was true of the instance and did not survive this step:
    a load of which the first half succeeds makes the compactor forget what
    a depth holds, up to a whole condensation for each failure.
  * `Told`, for `SummarisedOnce` and `Chronological`: without faults table and memory
    hold the same nodes, what is left to summarise comes after all that is covered,
    and of two active nodes the older covers earlier messages and is no less deep
    (`Aligned`), so that the oldest nodes of a depth are neighbours.

* `ProviderStream`'s by one invariant, of some number `t`: the provider has taken
  exactly the first `t` events of the server (`Taken`).  TLC checked it on the
  `stream` instance before it was proved.
  * `Flowing`: the bytes in buffer and on the wire, read as one sequence, are those of
    the events after `t`, in order, with one blank line at the end of each that came
    whole.  Hence a fragment that is read changes nothing but replaced characters,
    and the first blank line in the buffer ends event `t + 1`.
  * `Accumulated`: the calls opened and not done are the accumulators, each under its
    key with as many of its own pieces as were taken, and with a replaced character
    only if one of these pieces has one that can be cut.  A key is never used twice
    because the server opens calls in order (`Orderly`).
  * `Heard`: response and what is in flight (channel, then outbox) together have the
    first tokens, rising; a garbled one is of a text that can be cut.
  * `Handed`: the calls held and the calls in flight are disjoint, and together
    those that are done, or all that were opened once the task has ended well; each
    has its own arguments, garbled only if a piece of them can be cut.  In the middle of the stream neither `NothingLost` nor
    the at-most-once of `Completion` says anything of what is still in flight, which is
    why both need this.
  * `Phased`: a task that flushes or ended well has taken all that came whole.

The library's theorems of induction and recursion take an operator, which the
provers cannot instantiate.  `Recursion` has what is needed of them with sets and
functions instead.  The library's theorem that the strict subsets of finite sets are
well founded takes none; from it follows that a set of numbers that is not empty has
a smallest one (`Smallest`), and from that `Induction`: a set of naturals that has 0,
and `n + 1` with every `n`, is `Nat`.  With it a fold of the community modules is a
function that exists (`FoldExists`, `RecursionExists`), so that its defining equation
may be used; `FoldLeft` and `FlattenSeq` become equations between one prefix and the
next.  In `Lcm`, where sequences are filtered and sorted, `Smallest` suffices: all
about `Rank`, `InOrder` and `Without` follows from it by counting.

Only model-checked, by TLC on the instances above: liveness (`EveryInterruptBegun`,
`NoneGoesOnAlone`, `PromiseKept`, `NothingHangs`, `IterationEnds`), which is out of the
prover's reach.  Every other property of a passing run is a theorem.

## Where code and documentation disagree

Four have a run, whose counterexample is the evidence:

* `find_window_splits`: `WindowCompactor` cuts at a number of turns, which may
  lie between a tool call and its result (`livvi-core/src/compaction.rs:103`).
  Its doc promises the exact back-and-forth with tool calls and results.
* `find_lcm_reset`: a reset clears the context (`agent/interrupts.rs:44`), but the
  LCM compactor keeps the conversation and returns it at the next turn.  The
  interrupt's doc says that it wipes the in-memory context.
* `find_lcm_gap`: `compact` returns the summaries and the tail; messages before the
  tail that are too short to be rolled are in neither
  (`livvi-lcm/src/compactor.rs:160`), so the model sees them again only once they
  are summarised.  The trait's doc says that the returned turns represent the
  same conversation.
* `find_fetch_length`: `web_fetch` reports the bytes of its content
  (`livvi-web/src/tools/fetch.rs:103`); the field's doc says characters.

Seen while reading and modelling, without a run of their own:

* After a restart, messages that were already rolled into summaries are loaded
  from `lcm_messages` again and summarised again (`compactor.rs:72`, `:145`):
  `SummarisedOnce` and `Chronological` are therefore about behaviours without faults.
* A failed `save_messages` is not repeated: the messages are already in memory, and
  the next compaction takes them for known (`compactor.rs:100-103`).  Hence
  `fails = 0` in `DiskAgrees`.
* If saving a parent fails, its children are already marked and belong to no
  active node (`compactor.rs:216-219`).  Hence again
  `fails = 0` in `DiskAgrees`.
* If only the second of the two loads fails, the messages are held without their
  summaries, which are then never loaded (`compactor.rs:70-73`).  The next process
  finds them in the table beside those made since: `ActiveBounded` grows by a whole
  condensation for each failure.
* A reset leaves the memory briefing in `context.system`; the next message of the
  now empty context asks for another (`context.rs:112`, `agent/turns.rs`).
* A required tool called at the iteration limit counts as used and is not run
  (`turns.rs:134`, `:259`); `RequiredToolHonoured` excepts that limit.
* After a nudge the caller of a memory tool is not found: the nudge is the last
  user message and has no person, while the doc speaks of the last one that
  carries a person (`memory/mod.rs:31-42`).  The tool then works without a home
  namespace; `CallerNeverOther` allows nobody, never somebody else.
* An update whose request timed out may be carried out after a later deletion,
  which it undoes; `late` in `ToldIsTrue` excepts exactly this.
* `memory_update` says that omitted fields keep the memory's values
  (`memory/tools.rs:327-328`); the tier is sent as semantic (`tools.rs:142`).
* `ensure_identity` commits the person and the link one after the other
  (`livvi-store/src/person.rs:104-109`); a failure in between leaves a person
  without an identity, to whom nothing refers.  `docs/agents/livvi-store.md:44`
  calls the operation atomic.
* A display name with a comma comes back as several aliases
  (`livvi-store/src/sqlite/mod.rs:272`), so it never equals an alias and is added
  again each time.  `identity` uses names without commas; `NamesAreKept` says so.
* `/allow` answers the user before the interrupt is queued
  (`livvi-discord/src/lib.rs:212-216`); if the process ends in between, the reply
  was wrong.  `PromiseKept` is checked without failures.
* In the chat provider, each fragment is decoded alone: a character that the
  network cuts becomes replacement characters (`chat_completions.rs:393`).  In a
  token it is what the user reads; in the arguments of a call the JSON still parses,
  and the tool runs with a text the server did not send.  `NothingLost` and
  `ArgumentsAreOwn` allow exactly this: `garbled`, where a character can be cut.
* Arguments that do not parse become `{}` (`chat_completions.rs:205`), a call
  without an index goes to index 0 (`:182`), an event at the end of the stream
  without a blank line is dropped, and an error object in the stream, as well as
  `response.failed`, ends as a success with what came before.
* A page whose characters fit `max_length` and whose bytes do not is returned
  whole, with the mark of a truncated one (`fetch.rs:173`).
* The schema sent to the provider has lost the type integer and the minimum, and
  the description in a reference, while the call is decoded by the Rust type
  (`common.rs:79`): a call that conforms to what was sent may be refused, and null
  for an optional field is taken though the sent schema does not offer it.
* A function call goes back to the Responses API under `id`, its output under
  `call_id` (`responses.rs:275`, `:285`); the test at `:370` expects `id`.
* A channel or message id of 0 makes `ChannelId::new` and `MessageId::new` panic
  (`livvi-discord/src/state.rs:44-67`), in the agent's own task.
* The importance of a memory is documented as 0.0 to 1.0 (`memory/tools.rs:76`)
  and sent as given.
* `run_turn` returns an interrupt that is not an event as if it were stashed
  (`turns.rs:56-63`); its only caller passes events.
* `docs/config.md:60` speaks of characters where the code counts characters
  divided by four.

## What is not modelled

* The texts of messages, summaries, nudges, errors and instructions, and how an
  interrupt is worded for the model; token counts (a message of `Lcm` is long or
  not); titles and metadata of conversations.
* The conversion of messages to the two providers' wire formats, the summariser's
  plain request, a response without call indexes, and the HTTP layer: a request
  fails or streams.
* What the macro reads off a function when it is compiled.  `Tools` has what the
  generated code does when it runs.
* The crates `readability` and `html2text`: a page is the text they give.
* `get_conversation`, `get_participants` and `get_tool_permission`: they have no
  caller outside tests; the store's mock and the memory provider that does nothing
  (`noop.rs`), which only tests use.
* Concurrent writers of the tables: the agent is the only one, so a read is
  folded into the write that follows it.
* Discord's gateway, the registration of commands and the formatting of messages;
  the requests of the Discord tools are external and succeed or fail.
* What a memory says, and the filters and limits of a search.

## Plan

Done, in this order: `InterruptQueue`, `AgentTurn` and its proofs (the core);
`Lcm`; `Identity`; `AgentLoop` with `Transcripts`; `ProviderStream` with
`Completion`; `Memory`; `Daemon`, around `AgentLoop`; `Tools` with `InputSchemas`
and `WebPages`; then the proofs `IdentityProofs`, `MemoryProofs`, `DaemonProofs`,
`ToolsProofs`, `LcmProofs` and `ProviderStreamProofs`, with `Recursion`.

Next, in the order of what they would show:

1. **Message conversion** to both providers' formats: pairing of calls and
   results survives it; checked as an operator over all short turns.
