--------------------------- MODULE ProviderStream ---------------------------
(***************************************************************************)
(* One streamed request: the server, the network, the provider task of     *)
(* livvi-openai and the agent's stream_iteration, which reads what the task *)
(* sends through a bounded channel.  Both providers are here; the           *)
(* configuration selects one.                                              *)
(*                                                                         *)
(* Chat completions come as server-sent events, cut by the network into     *)
(* fragments anywhere, which the provider joins in a buffer.  The events of *)
(* the Responses API come whole from the client library.                   *)
(*                                                                         *)
(* A thinking token travels as a token does, and is left out.  The          *)
(* arguments of a call are a JSON text in ArgPieces pieces, of which no     *)
(* proper part parses.  A character that is replaced in it leaves it JSON.  *)
(***************************************************************************)
EXTENDS Integers, Sequences, FiniteSets, SequencesExt

CONSTANTS
    BufferSize,  \* TOK_STREAM_BUFFER_SIZE
    ArgPieces,   \* deltas that make up the arguments of a call
    MaxCalls,    \* bound: calls in a response
    MaxTexts,    \* bound: tokens in a response
    MaxEvents    \* bound: server events

ASSUME StreamAssumption ==
    /\ BufferSize \in Nat \ {0}
    /\ ArgPieces \in Nat \ {0}
    /\ MaxCalls \in Nat
    /\ MaxTexts \in Nat
    /\ MaxEvents \in Nat

VARIABLES
    protocol,  \* "chat" or "responses"
    \* The server and the network.
    sent,      \* history: the events the server wrote
    whole,     \* history: how many of them the network carries whole
    wire,      \* their bytes on the way
    closed,    \* "no", "end", or "lost" by an error
    \* The provider task.
    buffer,    \* bytes read that are not an event yet
    accumulators,
    started,   \* tool_call_started
    outbox,    \* provider events the task is sending
    task,      \* "reading", "flushing", or how it ended: "ok" or "error"
    \* The channel, and the locals of stream_iteration.
    channel,
    response, toolCalls,
    result     \* "none" until the iteration ends

server   == <<sent, whole, closed>>
provider == <<buffer, accumulators, started, outbox, task>>
agent    == <<response, toolCalls, result>>
vars     == <<protocol, server, wire, provider, channel, agent>>

-----------------------------------------------------------------------------

\* n is the number of a token or of a call.  "skip" stands for an event without
\* tokens and calls: a comment, an error object, a status.  "bad" does not
\* parse, or lacks a field that is required.
Kinds == {"text", "open", "arg", "done", "skip", "bad", "end"}
Event == [kind : Kinds, n : Nat, wide : BOOLEAN]

\* The bytes of event number `event`: a wide text or argument piece has a
\* character whose bytes fall into two parts; the blank line ends the event.
Unit == [event : Nat, part : {"text", "lead", "rest", "blank"}, garbled : BOOLEAN]

UnitsOf(e, i) ==
    LET unit(p) == [event |-> i, part |-> p, garbled |-> FALSE]
    IN  CASE protocol = "responses" -> <<unit("blank")>>
          [] protocol = "chat" /\ e.wide -> <<unit("lead"), unit("rest"), unit("blank")>>
          [] OTHER -> <<unit("text"), unit("blank")>>

Token == [kind : {"token"}, n : Nat, garbled : BOOLEAN]

\* A tool call: which call its id and name are of, which argument pieces its
\* input was parsed from, and whether a character of them was replaced; <<>> is
\* the empty object.
Call == [call : Nat, input : Seq(Nat \X Nat), garbled : BOOLEAN]

ProviderEvent == Token \cup [kind : {"started"}] \cup [kind : {"calls"}, calls : Seq(Call)]

Accumulator == [call : Nat, arguments : Seq(Nat \X Nat), garbled : BOOLEAN]

Fresh == [call |-> 0, arguments |-> <<>>, garbled |-> FALSE]

\* entry(key).or_default()
Entry(key) == IF key \in DOMAIN accumulators THEN accumulators[key] ELSE Fresh

WithEntry(key, acc) ==
    [k \in DOMAIN accumulators \cup {key} |-> IF k = key THEN acc ELSE accumulators[k]]

\* The argument pieces of call c.
Pieces(c) == [p \in 1 .. ArgPieces |-> <<c, p>>]

\* serde_json::from_str, or the empty object.
Parsed(arguments) ==
    IF \E c \in 1 .. MaxCalls : arguments = Pieces(c) THEN arguments ELSE <<>>

CallOf(acc) ==
    LET input == Parsed(acc.arguments)
    IN  [call |-> acc.call, input |-> input, garbled |-> input # <<>> /\ acc.garbled]

\* The events among the first k that are of a kind and for number n.
Count(kind, n, k) == Cardinality({i \in 1 .. k : sent[i].kind = kind /\ sent[i].n = n})

NumbersOf(kind, k) == {sent[i].n : i \in {j \in 1 .. k : sent[j].kind = kind}}

Texts(k) == NumbersOf("text", k)

Opened(k) == NumbersOf("open", k)

-----------------------------------------------------------------------------

Init ==
    /\ protocol \in {"chat", "responses"}
    /\ sent = <<>> /\ whole = 0 /\ wire = <<>> /\ closed = "no"
    /\ buffer = <<>>
    /\ accumulators = [k \in {} |-> Fresh]
    /\ started = FALSE
    /\ outbox = <<>>
    /\ task = "reading"
    /\ channel = <<>>
    /\ response = <<>> /\ toolCalls = <<>> /\ result = "none"

(* The server and the network.                                             *)

\* The server may follow what it sent by e: it opens calls in order, sends the
\* pieces of each in order, ends a call of the Responses API when all its
\* pieces are out, and may stop anywhere.
Follows(e) ==
    LET k    == Len(sent)
        live == e.n \in Opened(k) /\ Count("done", e.n, k) = 0
    IN  /\ closed = "no"
        /\ Count("end", 0, k) = 0
        /\ e.kind = "text" => e.n = Cardinality(Texts(k)) + 1 /\ e.n <= MaxTexts
        /\ e.kind = "open" => e.n = Cardinality(Opened(k)) + 1 /\ e.n <= MaxCalls
        /\ e.kind = "arg"  => live /\ Count("arg", e.n, k) < ArgPieces
        /\ e.kind = "done" => live /\ protocol = "responses" /\ Count("arg", e.n, k) = ArgPieces
        /\ e.kind \in {"skip", "bad", "end"} => e.n = 0
        /\ e.wide => e.kind \in {"text", "arg"} /\ protocol = "chat"

ServerSends(e) ==
    /\ Len(sent) < MaxEvents
    /\ Follows(e)
    /\ sent' = Append(sent, e)
    /\ whole' = Len(sent')
    /\ wire' = wire \o UnitsOf(e, Len(sent'))
    /\ UNCHANGED <<protocol, closed, provider, channel, agent>>

\* The connection closes, cleanly or by an error; bytes from unit k on are lost.
Close(how, k) ==
    /\ closed = "no"
    /\ closed' = how
    /\ wire' = SubSeq(wire, 1, k - 1)
    /\ whole' = IF k \in DOMAIN wire THEN wire[k].event - 1 ELSE whole
    /\ UNCHANGED <<protocol, sent, provider, channel, agent>>

\* The request cannot be sent, or is refused: nothing is streamed.
RequestFails ==
    /\ sent = <<>> /\ closed = "no"
    /\ closed' = "lost"
    /\ task' = "error"
    /\ UNCHANGED <<protocol, sent, whole, wire, buffer, accumulators, started, outbox, channel, agent>>

-----------------------------------------------------------------------------
(* The provider task, which goes on when what it sent has room.            *)

Reading == task = "reading" /\ outbox = <<>>

\* Mutant of SendNext: the channel has no bound.
SendUnbounded ==
    /\ outbox # <<>>
    /\ channel' = Append(channel, Head(outbox))
    /\ outbox' = Tail(outbox)
    /\ UNCHANGED <<protocol, server, wire, buffer, accumulators, started, task, agent>>

\* Mutant of SendNext: try_send, which drops what finds no room.
SendOrDrop ==
    /\ outbox # <<>>
    /\ channel' = IF Len(channel) < BufferSize THEN Append(channel, Head(outbox)) ELSE channel
    /\ outbox' = Tail(outbox)
    /\ UNCHANGED <<protocol, server, wire, buffer, accumulators, started, task, agent>>

SendNext ==
    /\ outbox # <<>>
    /\ Len(channel) < BufferSize
    /\ channel' = Append(channel, Head(outbox))
    /\ outbox' = Tail(outbox)
    /\ UNCHANGED <<protocol, server, wire, buffer, accumulators, started, task, agent>>

HasEvent == \E i \in DOMAIN buffer : buffer[i].part = "blank"

\* The end of the first event in the buffer.
FirstBlank ==
    CHOOSE i \in DOMAIN buffer :
        buffer[i].part = "blank" /\ \A j \in 1 .. (i - 1) : buffer[j].part # "blank"

\* from_utf8_lossy of a fragment: a character that does not start and end in it
\* is replaced.
Decoded(fragment) ==
    [i \in DOMAIN fragment |->
        [fragment[i] EXCEPT !.garbled =
            \/ fragment[i].part = "lead" /\ i = Len(fragment)
            \/ fragment[i].part = "rest" /\ i = 1]]

\* The next fragment is read when the buffer has no event.
ReadFragment(n) ==
    /\ protocol = "chat" /\ Reading
    /\ ~HasEvent
    /\ n \in 1 .. Len(wire)
    /\ buffer' = buffer \o Decoded(SubSeq(wire, 1, n))
    /\ wire' = SubSeq(wire, n + 1, Len(wire))
    /\ UNCHANGED <<protocol, server, accumulators, started, outbox, task, channel, agent>>

\* What both providers do with a token, and with an event that says nothing,
\* fails, or is the last.
TakePlain(e, garbled) ==
    /\ e.kind \in {"text", "skip", "bad", "end"}
    /\ outbox' = IF e.kind = "text"
                 THEN <<[kind |-> "token", n |-> e.n, garbled |-> garbled]>>
                 ELSE <<>>
    /\ task' = CASE e.kind = "bad" -> "error"
                 [] e.kind = "end" -> "flushing"
                 [] OTHER -> task
    /\ UNCHANGED <<accumulators, started>>

\* Mutant of Index: the index of a call is not looked at.
IndexZero(c) == 0

\* The index under which the server sends call c.
Index(c) == c - 1

\* Chat completions: a delta of a call is accumulated under its index; the
\* first delta of all is announced.
TakeDelta(e, garbled) ==
    LET acc   == Entry(Index(e.n))
        piece == Cardinality({i \in DOMAIN acc.arguments : acc.arguments[i][1] = e.n}) + 1
    IN  /\ e.kind \in {"open", "arg"}
        /\ accumulators' = WithEntry(Index(e.n),
              IF e.kind = "open"
              THEN [acc EXCEPT !.call = e.n]
              ELSE [acc EXCEPT !.arguments = Append(@, <<e.n, piece>>),
                               !.garbled = @ \/ garbled])
        /\ outbox' = IF started THEN <<>> ELSE <<[kind |-> "started"]>>
        /\ started' = TRUE
        /\ UNCHANGED task

\* Mutant of TakeEvent: an event without data stays in the buffer.
TakeEventButEmpty ==
    LET garbled == \E i \in 1 .. FirstBlank : buffer[i].garbled
        e       == sent[buffer[1].event]
    IN  /\ protocol = "chat" /\ Reading
        /\ HasEvent
        /\ TakePlain(e, garbled) \/ TakeDelta(e, garbled)
        /\ buffer' = IF e.kind = "skip" THEN buffer ELSE SubSeq(buffer, FirstBlank + 1, Len(buffer))
        /\ UNCHANGED <<protocol, server, wire, channel, agent>>

\* The first event of the buffer, up to its blank line.
TakeEvent ==
    LET garbled == \E i \in 1 .. FirstBlank : buffer[i].garbled
        e       == sent[buffer[1].event]
    IN  /\ protocol = "chat" /\ Reading
        /\ HasEvent
        /\ TakePlain(e, garbled) \/ TakeDelta(e, garbled)
        /\ buffer' = SubSeq(buffer, FirstBlank + 1, Len(buffer))
        /\ UNCHANGED <<protocol, server, wire, channel, agent>>

\* Mutant of TakeItem: a call that is done stays accumulated.
TakeItemKept(e) ==
    LET acc   == Entry(e.n)
        piece == Len(acc.arguments) + 1
    IN  /\ UNCHANGED <<started, task>>
        /\ \/ /\ e.kind = "open"
              /\ accumulators' = WithEntry(e.n, [acc EXCEPT !.call = e.n])
              /\ outbox' = <<[kind |-> "started"]>>
           \/ /\ e.kind = "arg"
              /\ accumulators' = WithEntry(e.n, [acc EXCEPT !.arguments = Append(@, <<e.n, piece>>)])
              /\ UNCHANGED outbox
           \/ /\ e.kind = "done"
              /\ UNCHANGED accumulators
              /\ outbox' = <<[kind |-> "calls", calls |-> <<CallOf(acc)>>]>>

\* Responses: a call is announced, accumulated and handed over under its id.
TakeItem(e) ==
    LET acc   == Entry(e.n)
        piece == Len(acc.arguments) + 1
    IN  /\ UNCHANGED <<started, task>>
        /\ \/ /\ e.kind = "open"
              /\ accumulators' = WithEntry(e.n, [acc EXCEPT !.call = e.n])
              /\ outbox' = <<[kind |-> "started"]>>
           \/ /\ e.kind = "arg"
              /\ accumulators' = IF e.n \in DOMAIN accumulators
                                 THEN WithEntry(e.n, [acc EXCEPT !.arguments = Append(@, <<e.n, piece>>)])
                                 ELSE accumulators
              /\ UNCHANGED outbox
           \/ /\ e.kind = "done"
              /\ accumulators' = [k \in DOMAIN accumulators \ {e.n} |-> accumulators[k]]
              /\ outbox' = IF e.n \in DOMAIN accumulators
                           THEN <<[kind |-> "calls", calls |-> <<CallOf(acc)>>]>>
                           ELSE <<>>

\* The next event of the client library.
TakeStreamed ==
    LET e == sent[Head(wire).event]
    IN  /\ protocol = "responses" /\ Reading
        /\ wire # <<>>
        /\ TakePlain(e, FALSE) \/ TakeItem(e)
        /\ wire' = Tail(wire)
        /\ UNCHANGED <<protocol, server, buffer, channel, agent>>

\* The connection is closed and all it brought is read.  A rest without a blank
\* line is dropped; an error ends the task.
StreamCloses ==
    /\ Reading
    /\ wire = <<>> /\ closed # "no" /\ ~HasEvent
    /\ task' = IF closed = "lost" /\ protocol = "chat" THEN "error" ELSE "flushing"
    /\ UNCHANGED <<protocol, server, wire, buffer, accumulators, started, outbox, channel, agent>>

\* The calls that are left, in the order of the map, go out in one event.
Flush ==
    LET named == {k \in DOMAIN accumulators : accumulators[k].call # 0}
    IN  /\ task = "flushing"
        /\ \E order \in SetToSeqs(named) :
              outbox' = IF order = <<>>
                        THEN <<>>
                        ELSE <<[kind  |-> "calls",
                                calls |-> [i \in DOMAIN order |-> CallOf(accumulators[order[i]])]]>>
        /\ task' = "ok"
        /\ UNCHANGED <<protocol, server, wire, buffer, accumulators, started, channel, agent>>

-----------------------------------------------------------------------------
(* The agent: stream_iteration.                                            *)

Receive ==
    LET ev == Head(channel)
    IN  /\ channel # <<>>
        /\ channel' = Tail(channel)
        /\ response' = IF ev.kind = "token" THEN Append(response, ev) ELSE response
        /\ toolCalls' = IF ev.kind = "calls" THEN toolCalls \o ev.calls ELSE toolCalls
        /\ UNCHANGED <<protocol, server, wire, provider, result>>

\* The sender is dropped and the channel empty: the task is joined.
Join ==
    /\ result = "none"
    /\ task \in {"ok", "error"} /\ outbox = <<>>
    /\ channel = <<>>
    /\ result' = task
    /\ UNCHANGED <<protocol, server, wire, provider, channel, response, toolCalls>>

Server ==
    \/ \E kind \in Kinds, n \in 0 .. (MaxCalls + MaxTexts), wide \in BOOLEAN :
          ServerSends([kind |-> kind, n |-> n, wide |-> wide])
    \/ \E how \in {"end", "lost"}, k \in 1 .. (Len(wire) + 1) : Close(how, k)
    \/ RequestFails

Provider ==
    \/ SendNext
    \/ \E n \in 1 .. Len(wire) : ReadFragment(n)
    \/ TakeEvent
    \/ TakeStreamed
    \/ StreamCloses
    \/ Flush

Agent == Receive \/ Join

Next == Server \/ Provider \/ Agent

Spec == Init /\ [][Next]_vars

\* The network delivers what was sent, and both tasks run.  The server need not
\* answer, nor close the connection.
FairSpec == Spec /\ WF_vars(Provider) /\ WF_vars(Agent)

-----------------------------------------------------------------------------
(* Properties.                                                             *)

\* Every variable has its type, and the channel its bound.
TypeOK ==
    /\ protocol \in {"chat", "responses"}
    /\ sent \in Seq(Event)
    /\ whole \in 0 .. Len(sent)
    /\ wire \in Seq(Unit) /\ buffer \in Seq(Unit)
    /\ closed \in {"no", "end", "lost"}
    /\ \A k \in DOMAIN accumulators : accumulators[k] \in Accumulator
    /\ started \in BOOLEAN
    /\ outbox \in Seq(ProviderEvent)
    /\ task \in {"reading", "flushing", "ok", "error"}
    /\ channel \in Seq(ProviderEvent) /\ Len(channel) <= BufferSize
    /\ response \in Seq(Token)
    /\ toolCalls \in Seq(Call)
    /\ result \in {"none", "ok", "error"}

C == INSTANCE Completion WITH
        said   <- Cardinality(Texts(Len(sent))),
        heard  <- [i \in DOMAIN response |-> response[i].n],
        opened <- Opened(Len(sent)),
        given  <- [i \in DOMAIN toolCalls |-> toolCalls[i].call]

\* Both providers keep the promise of Completion.
CompletionKept == C!Spec

\* An iteration that ends well lost nothing of what the network carried: every
\* token is in the response, changed only if one of its characters was cut in
\* two, and every call that was opened is given.
NothingLost ==
    result = "ok" =>
        /\ Texts(whole) = {response[i].n : i \in DOMAIN response}
        /\ \A i \in DOMAIN response :
              response[i].garbled =>
                  \E j \in 1 .. whole :
                      sent[j].kind = "text" /\ sent[j].wide /\ sent[j].n = response[i].n
        /\ Opened(whole) = {toolCalls[i].call : i \in DOMAIN toolCalls}

\* A call is handed over with the server's own argument pieces for it, in order,
\* when all of them came, and with the empty object otherwise: never with a part
\* of them, or with those of another call.  What the tool gets differs from what
\* the server wrote only if a character of its own pieces could be cut in two.
ArgumentsAreOwn ==
    \A i \in DOMAIN toolCalls :
        LET c == toolCalls[i].call
        IN  /\ toolCalls[i].input =
                  IF Count("arg", c, whole) = ArgPieces THEN Pieces(c) ELSE <<>>
            /\ toolCalls[i].garbled =>
                  \E j \in 1 .. whole :
                      sent[j].kind = "arg" /\ sent[j].wide /\ sent[j].n = c

\* When the server is done or gone, the iteration ends, whatever was cut.
IterationEnds ==
    (closed # "no" \/ Count("end", 0, Len(sent)) = 1) ~> result # "none"

=============================================================================
