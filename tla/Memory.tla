------------------------------- MODULE Memory -------------------------------
(***************************************************************************)
(* The long-term memory: the briefing before the first message of a        *)
(* context, the memory tools, the capture of a finished turn by a task of  *)
(* its own, and the client of livvi-memini with its timeouts.  The service *)
(* behind HTTP is external: it may answer late, answer with an error, or   *)
(* carry out a request whose caller gave up.                               *)
(*                                                                         *)
(* Of a context only the user messages matter here, as the persons who     *)
(* wrote them: a tool call acts for the last one.  A nudge is a user       *)
(* message of nobody.  What a memory says is left out.                     *)
(***************************************************************************)
EXTENDS Integers, Sequences, FiniteSets, SequencesExt

CONSTANTS
    Conversations,
    People,
    NoPerson,
    MaxTurns,  \* bound: turns
    MaxWork    \* bound: turns, memory tool calls, nudges, cleared contexts and
               \* ends of the process, together

ASSUME MemoryAssumption ==
    /\ NoPerson \notin People
    /\ MaxTurns \in Nat /\ MaxWork \in Nat

VARIABLES
    \* The agent.
    users,      \* conversation -> persons of the user messages in its context
    empty,      \* the conversations without a context, or with one cleared
    phase,      \* of the current turn: "idle", "briefing", "enter", "model", "tool"
    \* The client and the service.
    requests,   \* those somebody waits for, or the service may still carry out
    memories,   \* the service's table
    \* History.
    turns,      \* all turns, the current one last
    said,       \* conversation -> persons of all its user messages
    issued,     \* number of the last request
    stored,     \* memories a tool call was told are stored, and not to forget since
    forgotten,  \* memories a tool call was told are gone, and not to update since
    late,       \* memories updated or forgotten by a request its caller had given up
    work        \* what MaxWork bounds

history == <<turns, said>>
told    == <<stored, forgotten>>
vars    == <<users, empty, phase, requests, memories, history, issued, told, late, work>>

-----------------------------------------------------------------------------

\* An About names a person, a conversation, or all of them.
AboutConversation(c) == [kind |-> "conversation", id |-> c]
AboutPerson(p)       == [kind |-> "person", id |-> p]
Global               == [kind |-> "global"]

\* Namespaces are paths below base_namespace.
namespace_for(about) ==
    CASE about.kind = "person"       -> <<"persons", about.id>>
      [] about.kind = "conversation" -> <<"conversations", about.id>>
      [] about.kind = "global"       -> <<>>

\* The home namespace of a caller, if there is one.
home_namespace_for(caller) == {<<"persons", p>> : p \in {caller} \ {NoPerson}}

Abouts ==
    {AboutConversation(c) : c \in Conversations} \cup {AboutPerson(p) : p \in People} \cup {Global}

Namespaces == {namespace_for(a) : a \in Abouts}
Homes      == {home_namespace_for(p) : p \in People \cup {NoPerson}}

\* What the client asks.  A "read" is a recall, a get, a list or a briefing; what
\* it brings is left out.
Writes == {"remember", "update", "forget"}
Ops    == Writes \cup {"read"}

Ids == 0 .. MaxTurns + MaxWork

Turn   == [conversation : Conversations, author : People, content : BOOLEAN]
Memory == [ns : Namespaces, id : Ids, home : Homes, turn : 0..MaxTurns]

\* n tells the writes apart; turn is the one a request captures, 0 if it is none.
\* state is what the service has done: "done" as asked, or "declined" for too low
\* a signal or an unknown id.
Request == [n : Ids, op : Ops, id : Ids, ns : Namespaces, home : Homes,
            by : {"briefing", "tool", "capture"}, turn : 0..MaxTurns,
            waiting : BOOLEAN, state : {"sent", "done", "declined"}]

Current == Last(turns)

\* Mutant of Caller: the first user message instead of the last.
CallerFirst(c) == IF users[c] = <<>> THEN NoPerson ELSE Head(users[c])

\* from_tool_context: the person of the last user message, whoever that is.
Caller(c) == IF users[c] = <<>> THEN NoPerson ELSE Last(users[c])

Key(r) == <<r.ns, r.id>>
Row(r) == [ns |-> r.ns, id |-> r.id, home |-> IF r.turn = 0 THEN {} ELSE r.home, turn |-> r.turn]
At(k)  == {m \in memories : <<m.ns, m.id>> = k}

Init ==
    /\ users = [c \in Conversations |-> <<>>]
    /\ empty = Conversations
    /\ phase = "idle"
    /\ requests = {}
    /\ memories = {}
    /\ turns = <<>>
    /\ said = [c \in Conversations |-> <<>>]
    /\ issued = 0
    /\ stored = {} /\ forgotten = {} /\ late = {}
    /\ work = 0

Works == work < MaxWork /\ work' = work + 1

-----------------------------------------------------------------------------
\* The client.

\* The service gives a new memory the number of the request that made it.
Issue(op, id, about, caller, by, t) ==
    LET n == IF op = "read" THEN 0 ELSE issued + 1
    IN  /\ issued' = IF op = "read" THEN issued ELSE n
        /\ requests' = requests \cup
             {[n |-> n, op |-> op, id |-> IF op = "remember" THEN n ELSE id,
               ns |-> namespace_for(about), home |-> home_namespace_for(caller),
               by |-> by, turn |-> t, waiting |-> TRUE, state |-> "sent"]}

\* A briefing that fails is no reason not to run the turn.
Resume(r) ==
    phase' = CASE r.by = "briefing" -> "enter" [] r.by = "tool" -> "model" [] OTHER -> phase

\* Mutant of Succeeded: the body of the answer, or a 404, is not looked at.
SucceededIfAnswered(r) == r.state # "sent"

\* Of an update or a memory to remember that is "declined" the tool makes an error.
Succeeded(r) == r.state = "done"

\* The answer arrives.
Deliver(r) ==
    /\ r.waiting /\ r.state # "sent"
    /\ requests' = requests \ {r}
    /\ Resume(r)
    /\ stored' = IF r.by = "tool" /\ r.op \in {"remember", "update"} /\ Succeeded(r)
                 THEN stored \cup {Key(r)} ELSE stored
    /\ forgotten' = IF r.op = "forget" /\ Succeeded(r) THEN forgotten \cup {Key(r)} ELSE forgotten
    /\ UNCHANGED <<users, empty, memories, history, issued, late, work>>

\* Mutant of GiveUp: what gives up a request leaves it waiting.
GiveUpButWait(r) ==
    /\ r.waiting /\ r.state = "sent"
    /\ Resume(r)
    /\ UNCHANGED <<users, empty, requests, memories, history, issued, told, late, work>>

\* The request times out, the connection breaks, or the answer cannot be read.
GiveUp(r) ==
    /\ r.waiting
    /\ requests' = (requests \ {r}) \cup
                     (IF r.state = "sent" /\ r.op \in Writes THEN {[r EXCEPT !.waiting = FALSE]} ELSE {})
    /\ Resume(r)
    /\ UNCHANGED <<users, empty, memories, history, issued, told, late, work>>

-----------------------------------------------------------------------------
\* The service.

\* The answer of the service, for which the request waits if somebody still does.
Answer(r, state) ==
    requests' = (requests \ {r}) \cup
                  (IF r.waiting THEN {[r EXCEPT !.state = state]} ELSE {})

Serve(r) ==
    /\ r.state = "sent"
    /\ r.op = "forget" => At(Key(r)) # {}
    /\ Answer(r, "done")
    /\ memories' = CASE r.op \in {"remember", "update"} -> (memories \ At(Key(r))) \cup {Row(r)}
                     [] r.op = "forget"                 -> memories \ At(Key(r))
                     [] r.op = "read"                   -> memories
    /\ late' = IF ~r.waiting /\ r.op \in {"update", "forget"} THEN late \cup {Key(r)} ELSE late
    /\ UNCHANGED <<users, empty, phase, history, issued, told, work>>

Decline(r) ==
    /\ r.state = "sent"
    /\ r.op # "read" /\ (r.op = "forget" => At(Key(r)) = {})
    /\ Answer(r, "declined")
    /\ UNCHANGED <<users, empty, phase, memories, history, issued, told, late, work>>

\* An error, or a request that never reaches the service.  A caller who waits is
\* told so, and goes on as if it had given up.
Refuse(r) ==
    /\ r.state = "sent" /\ r.op \in Writes
    /\ requests' = requests \ {r}
    /\ IF r.waiting THEN Resume(r) ELSE UNCHANGED phase
    /\ UNCHANGED <<users, empty, memories, history, issued, told, late, work>>

-----------------------------------------------------------------------------
\* The agent.

\* A turn begins.  The first message of a context waits for a briefing.
Begin(c, p, content) ==
    /\ phase = "idle" /\ Len(turns) < MaxTurns /\ Works
    /\ turns' = Append(turns, [conversation |-> c, author |-> p, content |-> content])
    /\ IF content /\ c \in empty
       THEN /\ Issue("read", 0, AboutConversation(c), p, "briefing", 0)
            /\ phase' = "briefing"
       ELSE /\ phase' = "enter"
            /\ UNCHANGED <<requests, issued>>
    /\ UNCHANGED <<users, empty, memories, said, told, late>>

\* The message is pushed, and compaction leaves the end of what it has of the
\* conversation: of the context, or of all messages if it keeps them itself.
Enter ==
    /\ phase = "enter"
    /\ phase' = "model"
    /\ LET c   == Current.conversation
           new == IF Current.content THEN <<Current.author>> ELSE <<>>
           all == said[c] \o new
       IN  /\ said' = [said EXCEPT ![c] = all]
           /\ \E k \in Len(new) .. Len(all) :
                users' = [users EXCEPT ![c] = SubSeq(all, Len(all) - k + 1, Len(all))]
           /\ empty' = empty \ {c}
    /\ UNCHANGED <<requests, memories, turns, issued, told, late, work>>

Nudge ==
    /\ phase = "model" /\ Works
    /\ LET c == Current.conversation
       IN  /\ users' = [users EXCEPT ![c] = Append(@, NoPerson)]
           /\ said' = [said EXCEPT ![c] = Append(@, NoPerson)]
    /\ UNCHANGED <<empty, phase, requests, memories, turns, issued, told, late>>

\* The ids a model may know, and one that it made up.
KnownIds == {m.id : m \in memories} \cup {k[2] : k \in stored \cup forgotten} \cup {0}

\* The conversation is what a tool is about if its arguments do not say; one
\* namespace that they may name stands for the others.
Targets == {AboutConversation(Current.conversation), Global}

\* A memory tool is called, with the `about` of its arguments if they have one.
CallTool(op, id, about) ==
    /\ phase = "model" /\ Works
    /\ phase' = "tool"
    /\ Issue(op, id, about, Caller(Current.conversation), "tool", 0)
    /\ UNCHANGED <<users, empty, memories, history, late>>

Read(about) ==
    /\ CallTool("read", 0, about)
    /\ UNCHANGED told

Remember(about) ==
    /\ CallTool("remember", 0, about)
    /\ UNCHANGED told

Update(id, about) ==
    /\ CallTool("update", id, about)
    /\ forgotten' = forgotten \ {<<namespace_for(about), id>>}
    /\ UNCHANGED stored

Erase(id, about) ==
    /\ CallTool("forget", id, about)
    /\ stored' = stored \ {<<namespace_for(about), id>>}
    /\ UNCHANGED forgotten

\* Mutant of EndTurn: the capture reads the caller as the tools do.
EndTurnCapturesCaller(captured) ==
    /\ phase = "model"
    /\ phase' = "idle"
    /\ IF captured
       THEN Issue("remember", 0, AboutConversation(Current.conversation),
                  Caller(Current.conversation), "capture", Len(turns))
       ELSE UNCHANGED <<requests, issued>>
    /\ UNCHANGED <<users, empty, memories, history, told, late, work>>

\* The turn is over, answered or failed.  A task of its own captures what was
\* said, unless the event had no content or an empty one.
EndTurn(captured) ==
    /\ phase = "model"
    /\ phase' = "idle"
    /\ IF captured
       THEN Issue("remember", 0, AboutConversation(Current.conversation), Current.author,
                  "capture", Len(turns))
       ELSE UNCHANGED <<requests, issued>>
    /\ UNCHANGED <<users, empty, memories, history, told, late, work>>

\* A context is reset, or evicted from the cache.
Clear(c) ==
    /\ phase = "idle" /\ c \notin empty /\ Works
    /\ users' = [users EXCEPT ![c] = <<>>]
    /\ empty' = empty \cup {c}
    /\ UNCHANGED <<phase, requests, memories, history, issued, told, late>>

\* The process ends and is started again; requests on their way stay so.
Crash ==
    /\ Works
    /\ phase' = "idle"
    /\ users' = [c \in Conversations |-> <<>>]
    /\ empty' = Conversations
    /\ requests' = {[r EXCEPT !.waiting = FALSE] :
                      r \in {q \in requests : q.state = "sent" /\ q.op \in Writes}}
    /\ UNCHANGED <<memories, history, issued, told, late>>

-----------------------------------------------------------------------------

\* The agent goes on by itself; it waits for the service only as long as a
\* timeout lets it.
AgentStep ==
    \/ Enter
    \/ Nudge
    \/ \E about \in Targets : Read(about) \/ Remember(about)
    \/ \E id \in KnownIds, about \in Targets : Update(id, about) \/ Erase(id, about)
    \/ \E captured \in {Current.content, FALSE} : EndTurn(captured)

Next ==
    \/ \E c \in Conversations, p \in People, content \in BOOLEAN :
          Begin(c, p, content)
    \/ phase # "idle" /\ AgentStep
    \/ \E r \in requests : Deliver(r) \/ GiveUp(r) \/ Serve(r) \/ Decline(r) \/ Refuse(r)
    \/ \E c \in Conversations : Clear(c)
    \/ Crash

Spec == Init /\ [][Next]_vars

\* Mutant of TurnGivesUp: the briefing has no timeout of its own, nor the client one.
TurnGivesUpButBriefing == \E r \in requests : r.turn = 0 /\ r.by # "briefing" /\ GiveUp(r)

\* The caller is the turn, which waits for one request at a time, or the task
\* that captures turn t.
TurnGivesUp == \E r \in requests : r.turn = 0 /\ GiveUp(r)

TaskGivesUp(t) == \E r \in requests : r.turn = t /\ GiveUp(r)

\* Nothing is assumed of the service: it may never answer.  The timeouts of the
\* briefing, of the HTTP client and of the capture all end.
FairSpec ==
    /\ Spec
    /\ WF_vars(phase # "idle" /\ AgentStep)
    /\ WF_vars(TurnGivesUp)
    /\ \A t \in 1..MaxTurns : WF_vars(TaskGivesUp(t))

-----------------------------------------------------------------------------

Waiting(by) == {r \in requests : r.waiting /\ r.by \in by}

\* The turn waits for one request exactly while its phase says so: an answer
\* given up is not taken for that of a later request.
TypeOK ==
    /\ users \in [Conversations -> Seq(People \cup {NoPerson})]
    /\ empty \subseteq Conversations
    /\ phase \in {"idle", "briefing", "enter", "model", "tool"}
    /\ requests \subseteq Request
    /\ memories \subseteq Memory
    /\ turns \in Seq(Turn)
    /\ said \in [Conversations -> Seq(People \cup {NoPerson})]
    /\ issued \in Ids
    /\ \A k \in stored \cup forgotten \cup late : k \in Namespaces \X Ids
    /\ Cardinality(Waiting({"briefing", "tool"})) = IF phase \in {"briefing", "tool"} THEN 1 ELSE 0

\* Who wrote the newest message of conversation c.
Newest(c) == said[c][Max({i \in DOMAIN said[c] : said[c][i] # NoPerson})]

\* A tool acts in the home namespace of nobody, or of the author of the newest
\* message of its conversation: through nudges, compaction, resets, evictions
\* and restarts it never acts for an earlier author (from_tool_context).
CallerNeverOther ==
    \A r \in Waiting({"tool"}) :
        r.home # {} => r.home = home_namespace_for(Newest(Current.conversation))

\* A turn is captured once at most, in its own conversation's namespace and in
\* its author's home, whenever its task gets to run and however often the
\* service or the process fails (the task spawned at the end of run_turn).
CapturesFaithful ==
    LET captures == {m \in memories : m.turn # 0}
    IN  \A m \in captures :
            /\ m.ns = namespace_for(AboutConversation(turns[m.turn].conversation))
            /\ m.home = home_namespace_for(turns[m.turn].author)
            /\ turns[m.turn].content
            /\ \A o \in captures : o.turn = m.turn => o = m

\* What the memory tools tell the model is so: a memory they reported as stored
\* is in the table, and one reported as gone is not.  The only exception is a
\* memory updated or forgotten by a request whose caller had given up before.
ToldIsTrue ==
    LET table == {<<m.ns, m.id>> : m \in memories}
    IN  (stored \ table) \cup (forgotten \cap table) \subseteq late

Captured(t) == \E r \in Waiting({"capture"}) : r.turn = t

\* A turn ends, and so does the task of every capture, although the service may
\* never answer (the three timeouts; none of the calls is retried).
NothingHangs ==
    /\ phase # "idle" ~> phase = "idle"
    /\ \A t \in 1..MaxTurns : Captured(t) ~> ~Captured(t)

=============================================================================
