------------------------------ MODULE Identity ------------------------------
(***************************************************************************)
(* From a Discord event to the identities the agent works with: the event  *)
(* handlers of livvi-discord, the interrupt queue, the resolver of         *)
(* livvi-core and the tables of livvi-store.                               *)
(*                                                                         *)
(* Each gateway event has a handler task of its own, which awaits Discord  *)
(* before it forwards an interrupt: handlers overtake each other.  The     *)
(* agent resolves one interrupt at a time; each of its writes is one       *)
(* action, which may fail (the interrupt is logged and dropped), and the   *)
(* process may end between any two.  A read goes with the write that       *)
(* follows it: nothing else writes the tables.                             *)
(*                                                                         *)
(* A display name is the sequence of the parts its commas separate, since  *)
(* the column also_known_as is a comma-separated list.                     *)
(***************************************************************************)
EXTENDS Integers, Sequences, FiniteSets

CONSTANTS
    Authors,        \* Discord users
    Admins,         \* allowed_tool_user_ids
    Channels,       \* Discord channels
    Names,          \* display names
    ToolNames,      \* names given to the allow command
    QueueCapacity,  \* capacity of the interrupt channel, 256 in the code
    MaxEvents,      \* bound: gateway events
    MaxFails,       \* bound: store calls that fail
    MaxCrashes      \* bound: ends of the process

ASSUME IdentityAssumption ==
    /\ Admins \subseteq Authors
    /\ \A n \in Names : n \in Seq(STRING)
    /\ QueueCapacity \in Nat \ {0}
    /\ MaxEvents \in Nat
    /\ MaxFails \in Nat
    /\ MaxCrashes \in Nat

VARIABLES
    \* The transport and the queue.
    handlers,       \* handler tasks that have not forwarded their interrupt
    queue,          \* the interrupt channel
    arrived,        \* history: the number of gateway events
    promised,       \* history: the <<channel, tool>> whose reply was sent
    \* The tables; ids are numbers in the order of creation.
    persons,        \* id -> display_name and also_known_as
    identities,     \* author -> person id
    conversations,  \* channel -> conversation id
    participants,   \* <<conversation, person>>
    permissions,    \* <<conversation, tool>>
    \* The resolver.
    pc,             \* "idle", or the table it is about to write
    ev,             \* the interrupt being resolved
    person,         \* the person that ensure_identity returned
    conversation,   \* the conversation that ensure_conversation returned
    \* History.
    dispatched,     \* resolved interrupts handed to the run loop
    commanded,      \* <<channel, tool>> of the commands of Admins
    fails, crashes

transport == <<handlers, queue, arrived, promised, commanded>>
tables    == <<persons, identities, conversations, participants, permissions>>
locals    == <<ev, person, conversation>>
troubles  == <<fails, crashes>>
vars      == <<transport, tables, pc, locals, dispatched, troubles>>

-----------------------------------------------------------------------------

Kinds == {"message", "reset", "allow"}

Event == [n : Nat, kind : Kinds, author : Authors, channel : Channels,
          name : Names, tool : ToolNames, replied : BOOLEAN]

NoEvent == [kind |-> "none"]

\* display_name, and also_known_as as deserialize_aliases reads it back: each
\* part of each alias has become an alias.
PersonRow == [name : Names, aliases : Seq(STRING)]

\* The function f with y at x.
With(f, x, y) == [z \in DOMAIN f \cup {x} |-> IF z = x THEN y ELSE f[z]]

Empty == [x \in {} |-> 0]

\* aliases.contains(name)
Contains(aliases, name) == \E i \in DOMAIN aliases : <<aliases[i]>> = name

\* add_also_known_as, as the next read of the row sees it.
AddName(row, name) ==
    IF Contains(row.aliases, name) \/ row.name = name
    THEN row
    ELSE [row EXCEPT !.aliases = @ \o name]

\* resolve_identity finds a person.
Known(author) == author \in DOMAIN identities

-----------------------------------------------------------------------------

Init ==
    /\ handlers = {} /\ queue = <<>>
    /\ arrived = 0 /\ promised = {} /\ commanded = {}
    /\ persons = Empty /\ identities = Empty /\ conversations = Empty
    /\ participants = {} /\ permissions = {}
    /\ pc = "idle" /\ ev = NoEvent /\ person = 0 /\ conversation = 0
    /\ dispatched = {}
    /\ fails = 0 /\ crashes = 0

(* The handlers of the transport.                                          *)

\* A gateway event starts a handler.
Arrive(kind, a, c, name, t) ==
    /\ arrived < MaxEvents
    /\ arrived' = arrived + 1
    /\ handlers' = handlers \cup
          {[n |-> arrived + 1, kind |-> kind, author |-> a, channel |-> c, name |-> name,
            tool |-> t, replied |-> FALSE]}
    /\ UNCHANGED <<queue, promised, tables, pc, locals, dispatched, troubles>>

\* A message of another user than the bot.
MessageArrives(a, c, name) ==
    /\ \E t \in ToolNames : Arrive("message", a, c, name, t)
    /\ UNCHANGED commanded

\* /reset
ResetArrives(a, c, name) ==
    /\ \E t \in ToolNames : Arrive("reset", a, c, name, t)
    /\ UNCHANGED commanded

\* Mutant of AllowArrives: anyone may use the command.
AllowArrivesFromAnyone(a, c, name, t) ==
    /\ Arrive("allow", a, c, name, t)
    /\ commanded' = IF a \in Admins THEN commanded \cup {<<c, t>>} ELSE commanded

\* /allow; other users are refused and nothing else happens.
AllowArrives(a, c, name, t) ==
    /\ a \in Admins
    /\ Arrive("allow", a, c, name, t)
    /\ commanded' = commanded \cup {<<c, t>>}

\* Mutant of Reply: the handler returns with its answer.
ReplyOnly(h) ==
    /\ h \in handlers
    /\ h.kind # "message" /\ ~h.replied
    /\ handlers' = handlers \ {h}
    /\ promised' = IF h.kind = "allow" THEN promised \cup {<<h.channel, h.tool>>} ELSE promised
    /\ UNCHANGED <<queue, arrived, commanded, tables, pc, locals, dispatched, troubles>>

\* create_response: a command answers the user before it forwards.
Reply(h) ==
    /\ h \in handlers
    /\ h.kind # "message" /\ ~h.replied
    /\ handlers' = (handlers \ {h}) \cup {[h EXCEPT !.replied = TRUE]}
    /\ promised' = IF h.kind = "allow" THEN promised \cup {<<h.channel, h.tool>>} ELSE promised
    /\ UNCHANGED <<queue, arrived, commanded, tables, pc, locals, dispatched, troubles>>

\* Discord fails: get_current_user for a message, create_response for a
\* command.  The handler returns.
HandlerFails(h) ==
    /\ h \in handlers
    /\ ~h.replied
    /\ handlers' = handlers \ {h}
    /\ UNCHANGED <<queue, arrived, promised, commanded, tables, pc, locals, dispatched, troubles>>

\* interrupt_tx.send, which waits for room.
Forward(h) ==
    /\ h \in handlers
    /\ h.kind = "message" \/ h.replied
    /\ Len(queue) < QueueCapacity
    /\ handlers' = handlers \ {h}
    /\ queue' = Append(queue, h)
    /\ UNCHANGED <<arrived, promised, commanded, tables, pc, locals, dispatched, troubles>>

-----------------------------------------------------------------------------
(* The resolver.                                                           *)

\* The run loop takes the next interrupt; an AllowTool event resolves no
\* person.
Receive ==
    /\ pc = "idle"
    /\ queue # <<>>
    /\ ev' = Head(queue)
    /\ queue' = Tail(queue)
    /\ pc' = IF Head(queue).kind = "allow" THEN "conversation" ELSE "person"
    /\ UNCHANGED <<handlers, arrived, promised, commanded, tables, person, conversation,
                   dispatched, troubles>>

\* Mutant of FindPerson: another name is ignored.
FindPersonOnly ==
    /\ pc = "person"
    /\ Known(ev.author)
    /\ person' = identities[ev.author]
    /\ pc' = "conversation"
    /\ UNCHANGED <<transport, tables, ev, conversation, dispatched, troubles>>

\* ensure_identity finds the person; a name other than the canonical one is to
\* be added.
FindPerson ==
    /\ pc = "person"
    /\ Known(ev.author)
    /\ person' = identities[ev.author]
    /\ pc' = IF ev.name = persons[person'].name THEN "conversation" ELSE "alias"
    /\ UNCHANGED <<transport, tables, ev, conversation, dispatched, troubles>>

\* Mutant of CreatePerson: the row is not written.
CreatePersonUnsaved ==
    /\ pc = "person"
    /\ ~Known(ev.author)
    /\ person' = Cardinality(DOMAIN persons) + 1
    /\ pc' = "link"
    /\ UNCHANGED <<transport, tables, ev, conversation, dispatched, troubles>>

\* ensure_identity: create_person, committed on its own.
CreatePerson ==
    LET id == Cardinality(DOMAIN persons) + 1
    IN  /\ pc = "person"
        /\ ~Known(ev.author)
        /\ persons' = With(persons, id, [name |-> ev.name, aliases |-> <<>>])
        /\ person' = id
        /\ pc' = "link"
        /\ UNCHANGED <<transport, identities, conversations, participants, permissions, ev,
                       conversation, dispatched, troubles>>

\* Mutant of LinkIdentity: the person that was created is not linked.
LinkIdentityNone ==
    /\ pc = "link"
    /\ pc' = "conversation"
    /\ UNCHANGED <<transport, tables, locals, dispatched, troubles>>

\* ensure_identity: link_identity, a plain INSERT: the author must be new to it.
LinkIdentity ==
    /\ pc = "link"
    /\ ~Known(ev.author)
    /\ identities' = With(identities, ev.author, person)
    /\ pc' = "conversation"
    /\ UNCHANGED <<transport, persons, conversations, participants, permissions, locals,
                   dispatched, troubles>>

\* add_also_known_as reads the row, and writes it back.
AddAlias ==
    /\ pc = "alias"
    /\ persons' = [persons EXCEPT ![person] = AddName(@, ev.name)]
    /\ pc' = "conversation"
    /\ UNCHANGED <<transport, identities, conversations, participants, permissions, locals,
                   dispatched, troubles>>

\* Mutant of EnsureConversation: the transport_id is not looked at.
EnsureConversationByKind ==
    /\ pc = "conversation"
    /\ conversations' = With(conversations, ev.channel, 1)
    /\ conversation' = 1
    /\ pc' = IF ev.kind = "allow" THEN "permission" ELSE "participant"
    /\ UNCHANGED <<transport, persons, identities, participants, permissions, ev, person,
                   dispatched, troubles>>

\* ensure_conversation finds the conversation, or creates it.
EnsureConversation ==
    LET new == Cardinality(DOMAIN conversations) + 1
    IN  /\ pc = "conversation"
        /\ conversations' = IF ev.channel \in DOMAIN conversations
                            THEN conversations
                            ELSE With(conversations, ev.channel, new)
        /\ conversation' = conversations'[ev.channel]
        /\ pc' = IF ev.kind = "allow" THEN "permission" ELSE "participant"
        /\ UNCHANGED <<transport, persons, identities, participants, permissions, ev, person,
                       dispatched, troubles>>

EndResolve == pc' = "idle" /\ ev' = NoEvent /\ person' = 0 /\ conversation' = 0

\* Mutant of AddParticipant: the participant is not recorded.
AddParticipantNone ==
    /\ pc = "participant"
    /\ dispatched' = dispatched \cup
          {[ev |-> ev, person |-> person, conversation |-> conversation]}
    /\ EndResolve
    /\ UNCHANGED <<transport, tables, troubles>>

\* add_participant; the event goes on to the run loop with its two ids.
AddParticipant ==
    /\ pc = "participant"
    /\ participants' = participants \cup {<<conversation, person>>}
    /\ dispatched' = dispatched \cup
          {[ev |-> ev, person |-> person, conversation |-> conversation]}
    /\ EndResolve
    /\ UNCHANGED <<transport, persons, identities, conversations, permissions, troubles>>

\* set_tool_permission; nothing is dispatched.
SetToolPermission ==
    /\ pc = "permission"
    /\ permissions' = permissions \cup {<<conversation, ev.tool>>}
    /\ EndResolve
    /\ UNCHANGED <<transport, persons, identities, conversations, participants, dispatched,
                   troubles>>

\* A store call fails; the run loop logs the error and drops the interrupt.
StoreFails ==
    /\ pc # "idle"
    /\ fails < MaxFails
    /\ fails' = fails + 1
    /\ EndResolve
    /\ UNCHANGED <<transport, tables, dispatched, crashes>>

\* The process ends and starts again with its tables.
Crash ==
    /\ crashes < MaxCrashes
    /\ crashes' = crashes + 1
    /\ handlers' = {} /\ queue' = <<>>
    /\ EndResolve
    /\ UNCHANGED <<arrived, promised, commanded, tables, dispatched, fails>>

Resolve ==
    \/ Receive
    \/ FindPerson
    \/ CreatePerson
    \/ LinkIdentity
    \/ AddAlias
    \/ EnsureConversation
    \/ AddParticipant
    \/ SetToolPermission

Transport ==
    \/ \E a \in Authors, c \in Channels, name \in Names :
          \/ MessageArrives(a, c, name)
          \/ ResetArrives(a, c, name)
          \/ \E t \in ToolNames : AllowArrives(a, c, name, t)
    \/ \E h \in handlers : Reply(h) \/ HandlerFails(h) \/ Forward(h)

Next ==
    \/ Transport
    \/ Resolve
    \/ StoreFails
    \/ Crash

Spec == Init /\ [][Next]_vars

\* The store answers, and a handler that waits for room in the queue gets it
\* in its turn.
Fairness ==
    /\ WF_vars(Resolve)
    /\ \A n \in 1 .. MaxEvents : WF_vars(\E h \in handlers : h.n = n /\ Forward(h))

FairSpec == Spec /\ Fairness

-----------------------------------------------------------------------------
(* Properties.                                                             *)

\* Every variable has its type, and the tables keep their foreign keys.
TypeOK ==
    /\ handlers \subseteq Event
    /\ queue \in Seq(Event) /\ Len(queue) <= QueueCapacity
    /\ arrived \in 0 .. MaxEvents
    /\ promised \subseteq Channels \X ToolNames
    /\ commanded \subseteq Channels \X ToolNames
    /\ \A p \in DOMAIN persons : persons[p] \in PersonRow
    /\ DOMAIN identities \subseteq Authors
    /\ \A a \in DOMAIN identities : identities[a] \in DOMAIN persons
    /\ DOMAIN conversations \subseteq Channels
    /\ \A c \in DOMAIN conversations : conversations[c] \in Nat \ {0}
    /\ \A r \in participants :
          /\ \E c \in DOMAIN conversations : conversations[c] = r[1]
          /\ r[2] \in DOMAIN persons
    /\ \A r \in permissions : \E c \in DOMAIN conversations : conversations[c] = r[1]
    /\ pc \in {"idle", "person", "link", "alias", "conversation", "participant", "permission"}
    /\ ev \in Event \cup {NoEvent}
    /\ person \in DOMAIN persons \cup {0}
    /\ conversation \in Nat

\* An event the agent acts on carries the ids its author and its channel have
\* now, and the person takes part in the conversation.
DispatchedIsRecorded ==
    \A d \in dispatched :
        /\ identities[d.ev.author] = d.person
        /\ conversations[d.ev.channel] = d.conversation
        /\ <<d.conversation, d.person>> \in participants

\* An author is the same person for ever, through failures and restarts: in the
\* tables, and in all events the agent acts on.
PersonForGood ==
    [][/\ \A a \in DOMAIN identities : a \in DOMAIN identities' /\ identities'[a] = identities[a]
       /\ \A d \in dispatched', e \in dispatched :
             d.ev.author = e.ev.author => d.person = e.person]_vars

\* No two authors share a person, and no two channels a conversation.
NothingShared ==
    /\ \A a, b \in DOMAIN identities : identities[a] = identities[b] => a = b
    /\ \A c, d \in DOMAIN conversations : conversations[c] = conversations[d] => c = d

\* The agent can tell who goes by every name it has been addressed under; and,
\* where names hold no commas, no alias is kept twice, and none is the canonical
\* name.
NamesAreKept ==
    /\ \A d \in dispatched :
          LET row == persons[d.person]
          IN  row.name = d.ev.name \/ Contains(row.aliases, d.ev.name)
    /\ \A p \in DOMAIN persons :
          LET row == persons[p]
          IN  /\ ~Contains(row.aliases, row.name)
              /\ \A i, j \in DOMAIN row.aliases : row.aliases[i] = row.aliases[j] => i = j

\* A tool is permitted to a conversation only by the command of a user who may
\* use it, given in that channel.
GrantedByAdmin ==
    \A c \in DOMAIN conversations, t \in ToolNames :
        <<conversations[c], t>> \in permissions => <<c, t>> \in commanded

\* What a reply promises is recorded in the end, unless a store call fails or
\* the process ends.
PromiseKept ==
    \A c \in Channels, t \in ToolNames :
        <<c, t>> \in promised
            ~> \/ c \in DOMAIN conversations /\ <<conversations[c], t>> \in permissions
               \/ fails + crashes > 0

=============================================================================
