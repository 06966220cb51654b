---------------------------- MODULE IdentityProofs ----------------------------
(***************************************************************************)
(* Proofs about Identity, for any authors, channels, names and tools, and  *)
(* any number of events, failing store calls and restarts.                 *)
(*                                                                         *)
(* The invariant relates the resolver's locals to the tables: what it      *)
(* found or created is still what the tables say when it writes the next   *)
(* one.                                                                    *)
(***************************************************************************)
EXTENDS Identity, FiniteSetTheorems, SequenceTheorems, TLAPS

-----------------------------------------------------------------------------
(* The inductive invariant.                                                *)

\* Ids are given in order, so that the next one is new.
Numbered ==
    /\ \E k \in Nat : DOMAIN persons = 1 .. k
    /\ IsFiniteSet(DOMAIN conversations)
    /\ \A c \in DOMAIN conversations : conversations[c] <= Cardinality(DOMAIN conversations)

\* What the resolver has established for the event at hand.
Resolving ==
    /\ pc # "idle" => ev \in Event
    /\ pc = "permission" => ev.kind = "allow"
    /\ pc \in {"person", "link", "alias", "participant"} => ev.kind # "allow"
    /\ pc = "link" =>
          /\ person \in DOMAIN persons
          /\ ev.author \notin DOMAIN identities
          /\ \A a \in DOMAIN identities : identities[a] # person
    /\ pc = "alias" \/ pc = "participant" \/ (pc = "conversation" /\ ev.kind # "allow") =>
          ev.author \in DOMAIN identities /\ identities[ev.author] = person
    /\ pc = "participant" \/ pc = "permission" =>
          ev.channel \in DOMAIN conversations /\ conversations[ev.channel] = conversation

\* Wherever an allow event is, the command was given by one of the Admins, and
\* a permission stands for such a command.
Commanded ==
    /\ \A h \in handlers : h.kind = "allow" => <<h.channel, h.tool>> \in commanded
    /\ \A i \in DOMAIN queue : queue[i].kind = "allow" => <<queue[i].channel, queue[i].tool>> \in commanded
    /\ ev.kind = "allow" => <<ev.channel, ev.tool>> \in commanded
    /\ \A r \in permissions :
          \E c \in DOMAIN conversations : conversations[c] = r[1] /\ <<c, r[2]>> \in commanded

\* What was dispatched has its rows.
Recorded ==
    \A d \in dispatched :
        /\ d.ev.author \in DOMAIN identities
        /\ d.ev.channel \in DOMAIN conversations

Inv ==
    /\ TypeOK
    /\ Numbered
    /\ NothingShared
    /\ Resolving
    /\ Commanded
    /\ Recorded
    /\ DispatchedIsRecorded

-----------------------------------------------------------------------------
(* Lemmas.                                                                 *)

\* The id of a new person is the first that is not in use.
LEMMA NewPerson ==
    ASSUME Numbered
    PROVE  LET id == Cardinality(DOMAIN persons) + 1
           IN  /\ id \in Nat \ {0}
               /\ id \notin DOMAIN persons
               /\ \E k \in Nat : DOMAIN persons \cup {id} = 1 .. k
<1>1. PICK k \in Nat : DOMAIN persons = 1 .. k
  BY DEF Numbered
<1>2. Cardinality(DOMAIN persons) = k
  BY <1>1, FS_Interval
<1>3. DOMAIN persons \cup {k + 1} = 1 .. (k + 1)
  BY <1>1
<1> QED
  BY <1>1, <1>2, <1>3

\* The id of a new conversation is larger than those in use.
LEMMA NewConversation ==
    ASSUME Numbered, NEW c, c \notin DOMAIN conversations
    PROVE  /\ Cardinality(DOMAIN conversations) \in Nat
           /\ IsFiniteSet(DOMAIN conversations \cup {c})
           /\ Cardinality(DOMAIN conversations \cup {c}) = Cardinality(DOMAIN conversations) + 1
BY FS_AddElement, FS_CardinalityType DEF Numbered

\* Adding a name to a row leaves a row.
LEMMA AddNameType ==
    ASSUME NEW row \in PersonRow, NEW name \in Names
    PROVE  AddName(row, name) \in PersonRow
<1>1. name \in Seq(STRING)
  BY IdentityAssumption DEF IdentityAssumption
<1>2. row.aliases \o name \in Seq(STRING)
  BY <1>1, ConcatProperties DEF PersonRow
<1> QED
  BY <1>2 DEF AddName, PersonRow

\* The first states satisfy the invariant.
LEMMA InvInit == Init => Inv
<1> SUFFICES ASSUME Init PROVE Inv
  OBVIOUS
<1> USE IdentityAssumption DEF IdentityAssumption, Init, Empty
<1>1. <<>> \in Seq(Event) /\ Len(<<>>) = 0 /\ DOMAIN <<>> = {}
  BY EmptySeq
<1>2. TypeOK
  BY <1>1 DEF TypeOK
<1>3. Numbered
  <2>1. DOMAIN persons = 1 .. 0
    OBVIOUS
  <2> QED
    BY <2>1, FS_EmptySet DEF Numbered
<1>4. NothingShared
  BY DEF NothingShared
<1>5. Resolving
  BY DEF Resolving
<1>6. Commanded
  BY <1>1 DEF Commanded, NoEvent
<1>7. Recorded /\ DispatchedIsRecorded
  BY DEF Recorded, DispatchedIsRecorded
<1> QED
  BY <1>2, <1>3, <1>4, <1>5, <1>6, <1>7 DEF Inv

-----------------------------------------------------------------------------
(* The transport leaves tables and resolver alone.                         *)

\* What the resolver and the tables are stays true when they do not change.
LEMMA TablesKept ==
    ASSUME Inv, UNCHANGED <<tables, pc, locals, dispatched>>
    PROVE  Numbered' /\ NothingShared' /\ Resolving' /\ Recorded' /\ DispatchedIsRecorded'
BY DEF Inv, tables, locals, Numbered, NothingShared, Resolving, Recorded, DispatchedIsRecorded

\* A gateway event starts a handler; an allow event is from one of the Admins.
LEMMA ArriveKeeps ==
    ASSUME Inv, NEW kind \in Kinds, NEW a \in Authors, NEW c \in Channels, NEW name \in Names,
           NEW t \in ToolNames, Arrive(kind, a, c, name, t),
           commanded' = IF kind = "allow" THEN commanded \cup {<<c, t>>} ELSE commanded
    PROVE  Inv'
<1> DEFINE e == [n |-> arrived + 1, kind |-> kind, author |-> a, channel |-> c, name |-> name,
                 tool |-> t, replied |-> FALSE]
<1>1. arrived \in Nat /\ arrived' \in 0 .. MaxEvents
  BY IdentityAssumption DEF Inv, TypeOK, Arrive, IdentityAssumption
<1>2. e \in Event /\ handlers' = handlers \cup {e}
  BY <1>1 DEF Event, Arrive
<1>3. commanded \subseteq commanded' /\ commanded' \subseteq Channels \X ToolNames
  BY DEF Inv, TypeOK
<1>4. UNCHANGED <<tables, pc, locals, dispatched, queue, promised, troubles>>
  BY DEF Arrive
<1>5. TypeOK'
  BY <1>1, <1>2, <1>3, <1>4 DEF Inv, TypeOK, tables, locals, troubles
<1>6. Commanded'
  <2>1. UNCHANGED <<queue, ev, permissions, conversations>>
    BY <1>4 DEF tables, locals
  <2>2. ASSUME NEW h \in handlers', h.kind = "allow"
        PROVE  <<h.channel, h.tool>> \in commanded'
    <3>1. CASE h \in handlers
      BY <2>2, <3>1, <1>3 DEF Inv, Commanded
    <3>2. CASE h = e
      BY <2>2, <3>2
    <3> QED
      BY <1>2, <3>1, <3>2
  <2>3. ASSUME NEW i \in DOMAIN queue', queue'[i].kind = "allow"
        PROVE  <<queue'[i].channel, queue'[i].tool>> \in commanded'
    BY <2>1, <2>3, <1>3 DEF Inv, Commanded
  <2>4. ASSUME NEW r \in permissions
        PROVE  \E d \in DOMAIN conversations : conversations[d] = r[1] /\ <<d, r[2]>> \in commanded'
    BY <1>3 DEF Inv, Commanded
  <2>5. ev.kind = "allow" => <<ev.channel, ev.tool>> \in commanded'
    BY <1>3 DEF Inv, Commanded
  <2> QED
    BY ONLY <2>1, <2>2, <2>3, <2>4, <2>5 DEF Commanded
<1> QED
  BY <1>4, <1>5, <1>6, TablesKept DEF Inv

\* The other steps of the transport move an event from the handlers to the
\* queue, or drop it.
LEMMA HandlerKeeps ==
    ASSUME Inv, NEW h \in handlers, Reply(h) \/ HandlerFails(h) \/ Forward(h)
    PROVE  Inv'
<1>1. h \in Event /\ handlers \subseteq Event
  BY DEF Inv, TypeOK
<1>2. UNCHANGED <<tables, pc, locals, dispatched, commanded, arrived, troubles>>
  BY DEF Reply, HandlerFails, Forward
<1>3. CASE Reply(h)
  <2>1. [h EXCEPT !.replied = TRUE] \in Event
    BY <1>1 DEF Event
  <2>2. promised' \subseteq Channels \X ToolNames
    BY <1>1, <1>3 DEF Reply, Inv, TypeOK, Event
  <2>3. TypeOK'
    BY <1>1, <1>2, <1>3, <2>1, <2>2 DEF Inv, TypeOK, Reply, tables, locals, troubles
  <2>4. Commanded'
    BY <1>1, <1>2, <1>3 DEF Inv, Commanded, Reply, tables, locals, Event
  <2> QED
    BY <1>2, <2>3, <2>4, TablesKept DEF Inv
<1>4. CASE HandlerFails(h)
  <2>1. TypeOK'
    BY <1>1, <1>2, <1>4 DEF Inv, TypeOK, HandlerFails, tables, locals, troubles
  <2>2. Commanded'
    BY <1>2, <1>4 DEF Inv, Commanded, HandlerFails, tables, locals
  <2> QED
    BY <1>2, <2>1, <2>2, TablesKept DEF Inv
<1>5. CASE Forward(h)
  <2>1. /\ queue \in Seq(Event)
        /\ queue' = Append(queue, h)
        /\ handlers' = handlers \ {h}
        /\ promised' = promised
        /\ Len(queue) < QueueCapacity
    BY <1>5 DEF Inv, TypeOK, Forward
  <2>2. /\ queue' \in Seq(Event)
        /\ Len(queue') = Len(queue) + 1
        /\ \A i \in 1 .. Len(queue) : queue'[i] = queue[i]
        /\ queue'[Len(queue) + 1] = h
    BY <1>1, <2>1, AppendProperties
  <2>3. Len(queue) \in Nat /\ DOMAIN queue = 1 .. Len(queue) /\ DOMAIN queue' = 1 .. Len(queue) + 1
    BY <2>1, <2>2, LenProperties
  <2>4. Len(queue') <= QueueCapacity
    BY <2>1, <2>2, <2>3, IdentityAssumption DEF IdentityAssumption
  <2>5. TypeOK'
    BY <1>1, <1>2, <2>1, <2>2, <2>4 DEF Inv, TypeOK, tables, locals, troubles
  <2>6. \A i \in DOMAIN queue' : (i \in DOMAIN queue /\ queue'[i] = queue[i]) \/ queue'[i] = h
    BY <2>2, <2>3
  <2>7. Commanded'
    BY <1>2, <2>1, <2>6 DEF Inv, Commanded, tables, locals
  <2> QED
    BY <1>2, <2>5, <2>7, TablesKept DEF Inv
<1> QED
  BY <1>3, <1>4, <1>5

-----------------------------------------------------------------------------
(* The resolver, write by write.                                           *)

\* The run loop takes an event off the queue.
LEMMA ReceiveKeeps == Inv /\ Receive => Inv'
<1> SUFFICES ASSUME Inv, Receive PROVE Inv'
  OBVIOUS
<1>1. /\ queue \in Seq(Event) /\ queue # <<>> /\ Len(queue) <= QueueCapacity
      /\ ev' = Head(queue) /\ queue' = Tail(queue)
      /\ pc' = IF ev'.kind = "allow" THEN "conversation" ELSE "person"
      /\ UNCHANGED <<handlers, arrived, promised, commanded, tables, person, conversation,
                     dispatched, troubles>>
  BY DEF Inv, TypeOK, Receive
<1>2. /\ ev' \in Event /\ queue' \in Seq(Event)
      /\ Len(queue) \in Nat /\ Len(queue') = Len(queue) - 1
      /\ ev' = queue[1] /\ 1 \in DOMAIN queue
      /\ \A i \in DOMAIN queue' : i + 1 \in DOMAIN queue /\ queue'[i] = queue[i + 1]
  BY <1>1, HeadTailProperties, LenProperties
<1>3. Len(queue') <= QueueCapacity
  BY <1>1, <1>2, IdentityAssumption DEF IdentityAssumption
<1>4. TypeOK'
  BY <1>1, <1>2, <1>3 DEF Inv, TypeOK, tables, troubles
<1>5. Resolving'
  BY <1>1, <1>2 DEF Resolving, Event, Kinds
<1>6. Commanded'
  BY <1>1, <1>2 DEF Inv, Commanded, tables
<1>7. Numbered' /\ NothingShared' /\ Recorded' /\ DispatchedIsRecorded'
  BY <1>1 DEF Inv, Numbered, NothingShared, Recorded, DispatchedIsRecorded, tables
<1> QED
  BY <1>4, <1>5, <1>6, <1>7 DEF Inv

\* The person is found by the author.
LEMMA FindPersonKeeps == Inv /\ FindPerson => Inv'
<1> SUFFICES ASSUME Inv, FindPerson PROVE Inv'
  OBVIOUS
<1>1. /\ UNCHANGED <<transport, tables, ev, conversation, dispatched, troubles>>
      /\ ev.author \in DOMAIN identities /\ person' = identities[ev.author]
      /\ pc = "person" /\ pc' \in {"conversation", "alias"}
  BY DEF FindPerson, Known
<1>2. ev \in Event /\ ev.kind # "allow" /\ person' \in DOMAIN persons
  BY <1>1 DEF Inv, TypeOK, Resolving
<1>3. TypeOK'
  BY <1>1, <1>2 DEF Inv, TypeOK, transport, tables, troubles
<1>4. Resolving'
  BY <1>1, <1>2 DEF Inv, Resolving, tables
<1>5. Numbered' /\ NothingShared' /\ Commanded' /\ Recorded' /\ DispatchedIsRecorded'
  BY <1>1 DEF Inv, Numbered, NothingShared, Commanded, Recorded, DispatchedIsRecorded, transport,
              tables
<1> QED
  BY <1>3, <1>4, <1>5 DEF Inv

\* A person is created under an id that nobody is linked to.
LEMMA CreatePersonKeeps == Inv /\ CreatePerson => Inv'
<1> SUFFICES ASSUME Inv, CreatePerson PROVE Inv'
  OBVIOUS
<1> DEFINE id == Cardinality(DOMAIN persons) + 1
<1> DEFINE row == [name |-> ev.name, aliases |-> <<>>]
<1>1. /\ UNCHANGED <<transport, identities, conversations, participants, permissions, ev,
                     conversation, dispatched, troubles>>
      /\ pc = "person" /\ pc' = "link" /\ person' = id
      /\ ev.author \notin DOMAIN identities
      /\ persons' = With(persons, id, row)
  BY DEF CreatePerson, Known
<1>2. ev \in Event /\ ev.kind # "allow"
  BY <1>1 DEF Inv, Resolving
<1>3. row \in PersonRow
  BY <1>2, EmptySeq DEF PersonRow, Event
<1>4. id \notin DOMAIN persons /\ \E k \in Nat : DOMAIN persons \cup {id} = 1 .. k
  BY NewPerson DEF Inv
<1>5. /\ DOMAIN persons' = DOMAIN persons \cup {id}
      /\ \A p \in DOMAIN persons' : persons'[p] \in PersonRow
  BY <1>1, <1>3, <1>4 DEF Inv, TypeOK, With
<1>6. TypeOK'
  BY <1>1, <1>5 DEF Inv, TypeOK, transport, troubles
<1>7. Numbered'
  BY <1>1, <1>4, <1>5 DEF Inv, Numbered
<1>8. Resolving'
  BY <1>1, <1>2, <1>4, <1>5 DEF Inv, TypeOK, Resolving
<1>9. NothingShared' /\ Commanded' /\ Recorded' /\ DispatchedIsRecorded'
  BY <1>1 DEF Inv, NothingShared, Commanded, Recorded, DispatchedIsRecorded, transport
<1> QED
  BY <1>6, <1>7, <1>8, <1>9 DEF Inv

\* The author is linked to the person that was created, whom nobody else has.
LEMMA LinkIdentityKeeps == Inv /\ LinkIdentity => Inv'
<1> SUFFICES ASSUME Inv, LinkIdentity PROVE Inv'
  OBVIOUS
<1>1. /\ UNCHANGED <<transport, persons, conversations, participants, permissions, locals,
                     dispatched, troubles>>
      /\ pc = "link" /\ pc' = "conversation"
      /\ identities' = With(identities, ev.author, person)
  BY DEF LinkIdentity
<1>2. /\ ev \in Event /\ ev.kind # "allow"
      /\ person \in DOMAIN persons
      /\ ev.author \notin DOMAIN identities
      /\ \A a \in DOMAIN identities : identities[a] # person
  BY <1>1 DEF Inv, Resolving
<1>3. /\ DOMAIN identities' = DOMAIN identities \cup {ev.author}
      /\ identities'[ev.author] = person
      /\ \A a \in DOMAIN identities : identities'[a] = identities[a]
  BY <1>1, <1>2 DEF With
<1>4. TypeOK'
  BY <1>1, <1>2, <1>3 DEF Inv, TypeOK, transport, locals, troubles, Event
<1>5. NothingShared'
  BY <1>1, <1>2, <1>3 DEF Inv, NothingShared
<1>6. Resolving'
  BY <1>1, <1>2, <1>3 DEF Inv, Resolving, locals
<1>7. Recorded' /\ DispatchedIsRecorded'
  BY <1>1, <1>3 DEF Inv, Recorded, DispatchedIsRecorded
<1>8. Numbered' /\ Commanded'
  BY <1>1 DEF Inv, Numbered, Commanded, transport, locals
<1> QED
  BY <1>4, <1>5, <1>6, <1>7, <1>8 DEF Inv

\* Adding an alias changes the row of the person and nothing that refers to it.
LEMMA AddAliasKeeps == Inv /\ AddAlias => Inv'
<1> SUFFICES ASSUME Inv, AddAlias PROVE Inv'
  OBVIOUS
<1>1. /\ UNCHANGED <<transport, identities, conversations, participants, permissions, locals,
                     dispatched, troubles>>
      /\ pc = "alias" /\ pc' = "conversation"
      /\ persons' = [persons EXCEPT ![person] = AddName(persons[person], ev.name)]
  BY DEF AddAlias
<1>2. ev \in Event /\ ev.kind # "allow" /\ ev.author \in DOMAIN identities /\ identities[ev.author] = person
  BY <1>1 DEF Inv, Resolving
<1>3. person \in DOMAIN persons /\ persons[person] \in PersonRow
  BY <1>2 DEF Inv, TypeOK
<1>4. AddName(persons[person], ev.name) \in PersonRow
  BY <1>2, <1>3, AddNameType DEF Event
<1>5. DOMAIN persons' = DOMAIN persons /\ \A p \in DOMAIN persons' : persons'[p] \in PersonRow
  BY <1>1, <1>4 DEF Inv, TypeOK
<1>6. TypeOK'
  BY <1>1, <1>5 DEF Inv, TypeOK, transport, locals, troubles
<1>7. Resolving'
  BY <1>1, <1>2 DEF Inv, Resolving, locals
<1>8. Numbered' /\ NothingShared' /\ Commanded' /\ Recorded' /\ DispatchedIsRecorded'
  BY <1>1, <1>5 DEF Inv, Numbered, NothingShared, Commanded, Recorded, DispatchedIsRecorded,
                    transport, locals
<1> QED
  BY <1>6, <1>7, <1>8 DEF Inv

\* The conversation is found by its channel, or created under a new id.
LEMMA EnsureConversationKeeps == Inv /\ EnsureConversation => Inv'
<1> SUFFICES ASSUME Inv, EnsureConversation PROVE Inv'
  OBVIOUS
<1> DEFINE new == Cardinality(DOMAIN conversations) + 1
<1>1. /\ UNCHANGED <<transport, persons, identities, participants, permissions, ev, person,
                     dispatched, troubles>>
      /\ pc = "conversation"
      /\ conversations' = IF ev.channel \in DOMAIN conversations
                          THEN conversations ELSE With(conversations, ev.channel, new)
      /\ conversation' = conversations'[ev.channel]
      /\ pc' = IF ev.kind = "allow" THEN "permission" ELSE "participant"
  BY DEF EnsureConversation
<1>2. ev \in Event
  BY <1>1 DEF Inv, Resolving
<1>3. /\ IsFiniteSet(DOMAIN conversations)
      /\ Cardinality(DOMAIN conversations) \in Nat
      /\ \A c \in DOMAIN conversations : /\ conversations[c] \in Nat \ {0}
                                         /\ conversations[c] <= Cardinality(DOMAIN conversations)
  BY FS_CardinalityType DEF Inv, TypeOK, Numbered
<1>4. /\ DOMAIN conversations' = DOMAIN conversations \cup {ev.channel}
      /\ \A c \in DOMAIN conversations : conversations'[c] = conversations[c]
      /\ ev.channel \notin DOMAIN conversations => conversations'[ev.channel] = new
  BY <1>1 DEF With
<1>5. /\ IsFiniteSet(DOMAIN conversations')
      /\ Cardinality(DOMAIN conversations') =
            IF ev.channel \in DOMAIN conversations THEN new - 1 ELSE new
  <2>1. CASE ev.channel \in DOMAIN conversations
    BY <2>1, <1>1, <1>3
  <2>2. CASE ev.channel \notin DOMAIN conversations
    BY <2>2, <1>3, <1>4, NewConversation DEF Inv
  <2> QED
    BY <2>1, <2>2
<1>6. \A c \in DOMAIN conversations' :
          /\ conversations'[c] \in Nat \ {0}
          /\ conversations'[c] <= Cardinality(DOMAIN conversations')
  BY <1>3, <1>4, <1>5
<1>7. TypeOK'
  <2>1. DOMAIN conversations' \subseteq Channels /\ conversation' \in Nat
    BY <1>1, <1>2, <1>4, <1>6 DEF Inv, TypeOK, Event
  <2>2. /\ \A r \in participants' :
              /\ \E c \in DOMAIN conversations' : conversations'[c] = r[1]
              /\ r[2] \in DOMAIN persons'
        /\ \A r \in permissions' : \E c \in DOMAIN conversations' : conversations'[c] = r[1]
    BY <1>1, <1>4 DEF Inv, TypeOK
  <2> QED
    BY <1>1, <1>6, <2>1, <2>2 DEF Inv, TypeOK, transport, troubles
<1>8. Numbered'
  BY <1>1, <1>5, <1>6 DEF Inv, Numbered
<1>9. NothingShared'
  BY <1>1, <1>3, <1>4 DEF Inv, NothingShared
<1>10. Resolving'
  BY <1>1, <1>2, <1>4 DEF Inv, Resolving
<1>11. Commanded'
  BY <1>1, <1>4 DEF Inv, Commanded, transport
<1>12. Recorded' /\ DispatchedIsRecorded'
  BY <1>1, <1>4 DEF Inv, Recorded, DispatchedIsRecorded
<1> QED
  BY <1>7, <1>8, <1>9, <1>10, <1>11, <1>12 DEF Inv

\* At the end of an event the resolver holds nothing.
LEMMA Ended ==
    ASSUME EndResolve
    PROVE  /\ Resolving'
           /\ pc' = "idle" /\ ev' = NoEvent /\ person' = 0 /\ conversation' = 0
           /\ ev'.kind # "allow"
BY DEF EndResolve, Resolving, NoEvent

\* The participant is recorded with the event that is dispatched.
LEMMA AddParticipantKeeps == Inv /\ AddParticipant => Inv'
<1> SUFFICES ASSUME Inv, AddParticipant PROVE Inv'
  OBVIOUS
<1>1. /\ UNCHANGED <<transport, persons, identities, conversations, permissions, troubles>>
      /\ pc = "participant" /\ EndResolve
      /\ participants' = participants \cup {<<conversation, person>>}
      /\ dispatched' = dispatched \cup
            {[ev |-> ev, person |-> person, conversation |-> conversation]}
  BY DEF AddParticipant
<1>2. /\ ev.author \in DOMAIN identities /\ identities[ev.author] = person
      /\ ev.channel \in DOMAIN conversations /\ conversations[ev.channel] = conversation
      /\ person \in DOMAIN persons
  BY <1>1 DEF Inv, TypeOK, Resolving
<1>3. TypeOK'
  BY <1>1, <1>2, Ended DEF Inv, TypeOK, transport, troubles
<1>4. Recorded' /\ DispatchedIsRecorded'
  BY <1>1, <1>2 DEF Inv, Recorded, DispatchedIsRecorded
<1>5. Numbered' /\ NothingShared'
  BY <1>1 DEF Inv, Numbered, NothingShared
<1>6. Commanded'
  BY <1>1, Ended DEF Inv, Commanded, transport
<1> QED
  BY <1>1, <1>3, <1>4, <1>5, <1>6, Ended DEF Inv

\* The permission is recorded for the conversation of the command's channel.
LEMMA SetToolPermissionKeeps == Inv /\ SetToolPermission => Inv'
<1> SUFFICES ASSUME Inv, SetToolPermission PROVE Inv'
  OBVIOUS
<1>1. /\ UNCHANGED <<transport, persons, identities, conversations, participants, dispatched,
                     troubles>>
      /\ pc = "permission" /\ EndResolve
      /\ permissions' = permissions \cup {<<conversation, ev.tool>>}
  BY DEF SetToolPermission
<1>2. /\ ev.kind = "allow"
      /\ ev.channel \in DOMAIN conversations /\ conversations[ev.channel] = conversation
      /\ <<ev.channel, ev.tool>> \in commanded
  BY <1>1 DEF Inv, Resolving, Commanded
<1>3. TypeOK'
  BY <1>1, <1>2, Ended DEF Inv, TypeOK, transport, troubles
<1>4. Commanded'
  BY <1>1, <1>2, Ended DEF Inv, Commanded, transport
<1>5. Numbered' /\ NothingShared' /\ Recorded' /\ DispatchedIsRecorded'
  BY <1>1 DEF Inv, Numbered, NothingShared, Recorded, DispatchedIsRecorded
<1> QED
  BY <1>1, <1>3, <1>4, <1>5, Ended DEF Inv

\* A failure and a restart leave the tables as they are.
LEMMA TroubleKeeps == Inv /\ (StoreFails \/ Crash) => Inv'
<1> SUFFICES ASSUME Inv, StoreFails \/ Crash PROVE Inv'
  OBVIOUS
<1>1. /\ UNCHANGED <<tables, dispatched, arrived, promised, commanded>>
      /\ EndResolve
      /\ UNCHANGED <<handlers, queue>> \/ (handlers' = {} /\ queue' = <<>>)
  BY DEF StoreFails, Crash, transport
<1>2. /\ handlers' \subseteq Event
      /\ queue' \in Seq(Event) /\ Len(queue') <= QueueCapacity
  <2>1. CASE UNCHANGED <<handlers, queue>>
    BY <2>1 DEF Inv, TypeOK
  <2>2. CASE handlers' = {} /\ queue' = <<>>
    <3>1. queue' \in Seq(Event) /\ Len(queue') = 0
      BY <2>2, EmptySeq
    <3> QED
      BY <2>2, <3>1, IdentityAssumption DEF IdentityAssumption
  <2> QED
    BY <1>1, <2>1, <2>2
<1>3. TypeOK'
  BY <1>1, <1>2, Ended DEF Inv, TypeOK, tables
<1>4. Commanded'
  BY <1>1, Ended, EmptySeq DEF Inv, Commanded, tables
<1>5. Numbered' /\ NothingShared' /\ Recorded' /\ DispatchedIsRecorded'
  BY <1>1 DEF Inv, Numbered, NothingShared, Recorded, DispatchedIsRecorded, tables
<1> QED
  BY <1>1, <1>3, <1>4, <1>5, Ended DEF Inv

-----------------------------------------------------------------------------
(* The theorems.                                                           *)

\* Every step keeps the invariant.
LEMMA InvNext == Inv /\ [Next]_vars => Inv'
<1> SUFFICES ASSUME Inv, [Next]_vars PROVE Inv'
  OBVIOUS
<1>1. CASE Transport
  <2>1. ASSUME NEW a \in Authors, NEW c \in Channels, NEW name \in Names,
               MessageArrives(a, c, name) \/ ResetArrives(a, c, name)
        PROVE  Inv'
    <3>1. CASE MessageArrives(a, c, name)
      BY <3>1, ArriveKeeps DEF MessageArrives, Kinds
    <3>2. CASE ResetArrives(a, c, name)
      BY <3>2, ArriveKeeps DEF ResetArrives, Kinds
    <3> QED
      BY <2>1, <3>1, <3>2
  <2>2. ASSUME NEW a \in Authors, NEW c \in Channels, NEW name \in Names, NEW t \in ToolNames,
               AllowArrives(a, c, name, t)
        PROVE  Inv'
    BY <2>2, ArriveKeeps DEF AllowArrives, Kinds
  <2>3. ASSUME NEW h \in handlers, Reply(h) \/ HandlerFails(h) \/ Forward(h)
        PROVE  Inv'
    BY <2>3, HandlerKeeps
  <2> QED
    BY <1>1, <2>1, <2>2, <2>3 DEF Transport
<1>2. CASE Resolve
  BY <1>2, ReceiveKeeps, FindPersonKeeps, CreatePersonKeeps, LinkIdentityKeeps, AddAliasKeeps,
     EnsureConversationKeeps, AddParticipantKeeps, SetToolPermissionKeeps DEF Resolve
<1>3. CASE StoreFails \/ Crash
  BY <1>3, TroubleKeeps
<1>4. CASE UNCHANGED vars
  <2>1. UNCHANGED <<transport, tables, pc, locals, dispatched, troubles>>
    BY <1>4 DEF vars
  <2>2. TypeOK' /\ Commanded'
    BY <2>1 DEF Inv, TypeOK, Commanded, transport, tables, locals, troubles
  <2> QED
    BY <2>1, <2>2, TablesKept DEF Inv
<1> QED
  BY <1>1, <1>2, <1>3, <1>4 DEF Next

\* Every reachable state satisfies the invariant.
THEOREM Invariance == Spec => []Inv
<1> QED
  BY InvInit, InvNext, PTL DEF Spec

\* Every reachable state is well typed, and the tables keep their foreign keys,
\* through failing store calls and restarts.
THEOREM TypeCorrect == Spec => []TypeOK
<1>1. Inv => TypeOK
  BY DEF Inv
<1> QED
  BY <1>1, Invariance, PTL

\* What the agent acts on carries the ids of its author and channel, and the
\* person takes part in the conversation.
THEOREM DispatchedIsRecordedHolds == Spec => []DispatchedIsRecorded
<1>1. Inv => DispatchedIsRecorded
  BY DEF Inv
<1> QED
  BY <1>1, Invariance, PTL

\* No two authors share a person, and no two channels a conversation.
THEOREM NothingSharedHolds == Spec => []NothingShared
<1>1. Inv => NothingShared
  BY DEF Inv
<1> QED
  BY <1>1, Invariance, PTL

\* A tool is permitted to a conversation only by the command of one of the
\* Admins in its channel.
THEOREM GrantedByAdminHolds == Spec => []GrantedByAdmin
<1>1. Inv => GrantedByAdmin
  <2> SUFFICES ASSUME Inv, NEW c \in DOMAIN conversations, NEW t \in ToolNames,
                      <<conversations[c], t>> \in permissions
               PROVE  <<c, t>> \in commanded
    BY DEF GrantedByAdmin
  <2>1. PICK d \in DOMAIN conversations : conversations[d] = conversations[c] /\ <<d, t>> \in commanded
    BY DEF Inv, Commanded
  <2>2. d = c
    BY <2>1 DEF Inv, NothingShared
  <2> QED
    BY <2>1, <2>2
<1> QED
  BY <1>1, Invariance, PTL

\* An author is the same person for ever, in the tables and in what the agent
\* acts on.
THEOREM PersonForGoodHolds == Spec => PersonForGood
<1>1. ASSUME Inv, [Next]_vars
      PROVE  \A a \in DOMAIN identities : a \in DOMAIN identities' /\ identities'[a] = identities[a]
  <2>1. CASE LinkIdentity
    <3>1. ev.author \notin DOMAIN identities /\ identities' = With(identities, ev.author, person)
      BY <1>1, <2>1 DEF Inv, Resolving, LinkIdentity
    <3> QED
      BY <3>1 DEF With
  <2>2. CASE ~LinkIdentity
    <3>1. identities' = identities
      BY <1>1, <2>2 DEF Next, Transport, Resolve, MessageArrives, ResetArrives, AllowArrives,
         Arrive, Reply, HandlerFails, Forward, Receive, FindPerson, CreatePerson, AddAlias,
         EnsureConversation, AddParticipant, SetToolPermission, StoreFails, Crash, tables, vars
    <3> QED
      BY <3>1
  <2> QED
    BY <2>1, <2>2
<1>2. ASSUME Inv, [Next]_vars, NEW d \in dispatched', NEW e \in dispatched, d.ev.author = e.ev.author
      PROVE  d.person = e.person
  <2>1. dispatched \subseteq dispatched'
    BY <1>2 DEF Next, Transport, Resolve, MessageArrives, ResetArrives, AllowArrives,
       Arrive, Reply, HandlerFails, Forward, Receive, FindPerson, CreatePerson, LinkIdentity,
       AddAlias, EnsureConversation, AddParticipant, SetToolPermission, StoreFails, Crash, vars
  <2>2. DispatchedIsRecorded'
    BY <1>2, InvNext DEF Inv
  <2>3. identities'[d.ev.author] = d.person /\ identities'[e.ev.author] = e.person
    BY <2>1, <2>2 DEF DispatchedIsRecorded
  <2> QED
    BY <1>2, <2>3
<1>3. Inv /\ [Next]_vars =>
          [/\ \A a \in DOMAIN identities : a \in DOMAIN identities' /\ identities'[a] = identities[a]
           /\ \A d \in dispatched', e \in dispatched :
                 d.ev.author = e.ev.author => d.person = e.person]_vars
  BY <1>1, <1>2
<1> QED
  BY <1>3, Invariance, PTL DEF Spec, PersonForGood

-----------------------------------------------------------------------------
(* Names, where none holds a comma: also_known_as separates them by commas. *)

Plain == \A n \in Names : Len(n) = 1

\* The person of the row goes by the name.
GoesBy(row, name) == row.name = name \/ Contains(row.aliases, name)

\* No alias twice, and none that is the canonical name.
Distinct(row) ==
    /\ ~Contains(row.aliases, row.name)
    /\ \A i, j \in DOMAIN row.aliases : row.aliases[i] = row.aliases[j] => i = j

\* The person resolved goes by the name of the event at hand when the event gets
\* to the conversation.
Named ==
    /\ NamesAreKept
    /\ pc = "link" => persons[person].name = ev.name
    /\ pc = "participant" \/ (pc = "conversation" /\ ev.kind # "allow") =>
          GoesBy(persons[person], ev.name)

\* Adding a name forgets none and repeats none.
LEMMA AddNameKeeps ==
    ASSUME Plain, NEW row \in PersonRow, NEW name \in Names, Distinct(row)
    PROVE  /\ Distinct(AddName(row, name))
           /\ GoesBy(AddName(row, name), name)
           /\ \A m : GoesBy(row, m) => GoesBy(AddName(row, name), m)
<1>1. CASE Contains(row.aliases, name) \/ row.name = name
  BY <1>1 DEF AddName, GoesBy
<1>2. CASE ~Contains(row.aliases, name) /\ row.name # name
  <2> DEFINE new == row.aliases \o name
  <2>1. /\ name \in Seq(STRING) /\ Len(name) = 1 /\ name = <<name[1]>>
        /\ row.aliases \in Seq(STRING) /\ Len(row.aliases) \in Nat
    BY IdentityAssumption DEF IdentityAssumption, Plain, PersonRow
  <2>2. /\ new \in Seq(STRING) /\ Len(new) = Len(row.aliases) + 1
        /\ \A i \in 1 .. Len(row.aliases) : new[i] = row.aliases[i]
        /\ new[Len(row.aliases) + 1] = name[1]
    <3>1. /\ new \in Seq(STRING) /\ Len(new) = Len(row.aliases) + Len(name)
          /\ \A i \in 1 .. Len(row.aliases) + Len(name) :
                new[i] = IF i <= Len(row.aliases) THEN row.aliases[i] ELSE name[i - Len(row.aliases)]
      BY <2>1, ConcatProperties
    <3> HIDE DEF new
    <3>2. \A i \in 1 .. Len(row.aliases) : new[i] = row.aliases[i]
      <4> TAKE i \in 1 .. Len(row.aliases)
      <4>1. i \in 1 .. Len(row.aliases) + Len(name) /\ i <= Len(row.aliases)
        BY <2>1
      <4> QED
        BY <3>1, <4>1
    <3>3. new[Len(row.aliases) + 1] = name[1]
      <4> DEFINE k == Len(row.aliases) + 1
      <4>1. k \in 1 .. Len(row.aliases) + Len(name) /\ ~(k <= Len(row.aliases)) /\ k - Len(row.aliases) = 1
        BY <2>1
      <4> HIDE DEF k
      <4>2. new[k] = name[1]
        BY <3>1, <4>1
      <4> QED
        BY <4>2 DEF k
    <3> QED
      BY <2>1, <3>1, <3>2, <3>3
  <2>3. AddName(row, name) = [row EXCEPT !.aliases = new]
    BY <1>2 DEF AddName
  <2>4. AddName(row, name).name = row.name /\ AddName(row, name).aliases = new
    BY <2>3 DEF PersonRow
  <2> HIDE DEF new
  <2>5. /\ DOMAIN row.aliases = 1 .. Len(row.aliases)
        /\ DOMAIN new = 1 .. (Len(row.aliases) + 1)
    BY <2>1, <2>2
  <2>6. \A i \in 1 .. Len(row.aliases) : row.aliases[i] # name[1]
    BY <1>2, <2>1, <2>5 DEF Contains
  <2>7. \A i, j \in DOMAIN new : new[i] = new[j] => i = j
    <3> SUFFICES ASSUME NEW i \in DOMAIN new, NEW j \in DOMAIN new, i < j PROVE new[i] # new[j]
      BY <2>1, <2>5
    <3>1. i \in 1 .. Len(row.aliases) /\ new[i] = row.aliases[i]
      BY <2>1, <2>2, <2>5
    <3>2. CASE j = Len(row.aliases) + 1
      BY <2>2, <2>6, <3>1, <3>2
    <3>3. CASE j # Len(row.aliases) + 1
      <4>1. j \in 1 .. Len(row.aliases) /\ new[j] = row.aliases[j]
        BY <2>1, <2>2, <2>5, <3>3
      <4> QED
        BY <2>5, <3>1, <4>1 DEF Distinct
    <3> QED
      BY <3>2, <3>3
  <2>8. \A m : Contains(new, m) <=> Contains(row.aliases, m) \/ m = name
    <3> TAKE m
    <3>1. ASSUME Contains(new, m) PROVE Contains(row.aliases, m) \/ m = name
      <4>1. PICK i \in 1 .. (Len(row.aliases) + 1) : <<new[i]>> = m
        BY <2>5, <3>1 DEF Contains
      <4>2. CASE i = Len(row.aliases) + 1
        BY <2>1, <2>2, <4>1, <4>2
      <4>3. CASE i # Len(row.aliases) + 1
        <5>1. i \in 1 .. Len(row.aliases)
          BY <2>1, <4>3
        <5> QED
          BY <2>2, <2>5, <4>1, <5>1 DEF Contains
      <4> QED
        BY <4>2, <4>3
    <3>2. ASSUME Contains(row.aliases, m) PROVE Contains(new, m)
      <4>1. PICK i \in 1 .. Len(row.aliases) : <<row.aliases[i]>> = m
        BY <2>5, <3>2 DEF Contains
      <4>2. i \in DOMAIN new /\ <<new[i]>> = m
        BY <2>1, <2>2, <2>5, <4>1
      <4> QED
        BY <4>2 DEF Contains
    <3>3. ASSUME m = name PROVE Contains(new, m)
      <4>1. Len(row.aliases) + 1 \in DOMAIN new /\ <<new[Len(row.aliases) + 1]>> = m
        BY <2>1, <2>2, <2>5, <3>3
      <4> QED
        BY <4>1 DEF Contains
    <3> QED
      BY <3>1, <3>2, <3>3
  <2> QED
    BY <1>2, <2>4, <2>7, <2>8 DEF Distinct, GoesBy
<1> QED
  BY <1>1, <1>2

\* A dispatched event's person has a row.
LEMMA DispatchedPersons == Inv => \A d \in dispatched : d.person \in DOMAIN persons
  BY DEF Inv, Recorded, DispatchedIsRecorded, TypeOK

\* Every step keeps the names.
LEMMA NamedNext == ASSUME Plain, Inv, Named, [Next]_vars PROVE Named'
<1> USE DEF Inv
<1>0. NamesAreKept <=>
         /\ \A d \in dispatched : GoesBy(persons[d.person], d.ev.name)
         /\ \A p \in DOMAIN persons : Distinct(persons[p])
  BY DEF NamesAreKept, GoesBy, Distinct
<1>1. NamesAreKept' <=>
         /\ \A d \in dispatched' : GoesBy(persons'[d.person], d.ev.name)
         /\ \A p \in DOMAIN persons' : Distinct(persons'[p])
  BY DEF NamesAreKept, GoesBy, Distinct
<1>2. \A d \in dispatched : d.person \in DOMAIN persons
  BY DispatchedPersons
<1>3. CASE CreatePerson
  <2> DEFINE id == Cardinality(DOMAIN persons) + 1
  <2> DEFINE row == [name |-> ev.name, aliases |-> <<>>]
  <2>1. /\ dispatched' = dispatched /\ ev' = ev /\ pc' = "link" /\ person' = id
        /\ persons' = With(persons, id, row) /\ id \notin DOMAIN persons
    BY <1>3, NewPerson DEF CreatePerson
  <2>2. /\ DOMAIN persons' = DOMAIN persons \cup {id} /\ persons'[id] = row
        /\ \A p \in DOMAIN persons : persons'[p] = persons[p]
    BY <2>1 DEF With
  <2>3. Distinct(row)
    BY DEF Distinct, Contains
  <2> HIDE DEF id
  <2>4. NamesAreKept'
    BY <1>0, <1>1, <1>2, <2>1, <2>2, <2>3 DEF Named
  <2> QED
    BY <2>1, <2>2, <2>4 DEF Named
<1>4. CASE AddAlias
  <2>1. /\ dispatched' = dispatched /\ ev' = ev /\ pc' = "conversation" /\ person' = person
        /\ pc = "alias" /\ persons' = [persons EXCEPT ![person] = AddName(persons[person], ev.name)]
    BY <1>4 DEF AddAlias, locals
  <2>2. ev.name \in Names /\ person \in DOMAIN persons /\ persons[person] \in PersonRow
    BY <2>1 DEF Resolving, TypeOK, Event
  <2>3. /\ Distinct(AddName(persons[person], ev.name))
        /\ GoesBy(AddName(persons[person], ev.name), ev.name)
        /\ \A m : GoesBy(persons[person], m) => GoesBy(AddName(persons[person], ev.name), m)
    BY <1>0, <2>2, AddNameKeeps DEF Named
  <2>4. /\ DOMAIN persons' = DOMAIN persons
        /\ persons'[person] = AddName(persons[person], ev.name)
        /\ \A p \in DOMAIN persons : p # person => persons'[p] = persons[p]
    BY <2>1, <2>2
  <2>5. NamesAreKept'
    BY <1>0, <1>1, <1>2, <2>1, <2>3, <2>4 DEF Named
  <2> QED
    BY <2>1, <2>3, <2>4, <2>5 DEF Named
<1>5. CASE AddParticipant
  <2>1. /\ persons' = persons /\ pc' = "idle" /\ pc = "participant"
        /\ dispatched' = dispatched \cup {[ev |-> ev, person |-> person, conversation |-> conversation]}
    BY <1>5 DEF AddParticipant, EndResolve
  <2>2. NamesAreKept'
    BY <1>0, <1>1, <2>1 DEF Named
  <2> QED
    BY <2>1, <2>2 DEF Named
<1>6. CASE ~(CreatePerson \/ AddAlias \/ AddParticipant)
  <2>1. persons' = persons /\ dispatched' = dispatched
    BY <1>6 DEF Next, Transport, Resolve, MessageArrives, ResetArrives, AllowArrives, Arrive, Reply,
       HandlerFails, Forward, Receive, FindPerson, LinkIdentity, EnsureConversation,
       SetToolPermission, StoreFails, Crash, tables, vars
  <2>2. NamesAreKept'
    BY <1>0, <1>1, <2>1 DEF Named
  <2>3. CASE Transport \/ UNCHANGED vars
    <3>1. UNCHANGED <<pc, ev, person>>
      BY <2>3 DEF Transport, MessageArrives, ResetArrives, AllowArrives, Arrive, Reply,
         HandlerFails, Forward, locals, vars
    <3> QED
      BY <2>1, <2>2, <3>1 DEF Named
  <2>4. CASE Receive
    BY <2>2, <2>4 DEF Receive, Named
  <2>5. CASE FindPerson
    BY <2>1, <2>2, <2>5 DEF FindPerson, Named, GoesBy
  <2>6. CASE LinkIdentity
    BY <2>1, <2>2, <2>6 DEF LinkIdentity, Named, GoesBy, locals
  <2>7. CASE EnsureConversation
    BY <2>1, <2>2, <2>7 DEF EnsureConversation, Named
  <2>8. CASE SetToolPermission \/ StoreFails \/ Crash
    BY <2>2, <2>8 DEF SetToolPermission, StoreFails, Crash, EndResolve, Named
  <2> QED
    BY <1>6, <2>3, <2>4, <2>5, <2>6, <2>7, <2>8 DEF Next, Resolve
<1> QED
  BY <1>3, <1>4, <1>5, <1>6

\* Where no name holds a comma, a person goes by every name an event of theirs was
\* dispatched with, and no name is kept twice (ensure_identity and
\* add_also_known_as).
THEOREM NamesAreKeptHolds ==
    ASSUME Plain
    PROVE  Spec => []NamesAreKept
<1>1. Init => Named
  BY DEF Init, Empty, Named, NamesAreKept
<1>2. Inv /\ Named /\ [Next]_vars => Named'
  BY NamedNext
<1>3. Named => NamesAreKept
  BY DEF Named
<1> QED
  BY <1>1, <1>2, <1>3, Invariance, PTL DEF Spec

=============================================================================
