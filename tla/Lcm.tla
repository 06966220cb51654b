--------------------------------- MODULE Lcm ---------------------------------
(***************************************************************************)
(* The LCM compactor of livvi-lcm, for one conversation: the raw messages  *)
(* and the summary nodes it holds in memory, their copies in SQLite, and    *)
(* what it hands back to the agent's context.                              *)
(*                                                                         *)
(* The agent calls compact() once per turn and awaits it, so nothing        *)
(* interleaves with a compaction but the failure of a store call and the   *)
(* end of the process: every store call that writes is an action of its    *)
(* own, which may fail, and the process may end between any two.           *)
(*                                                                         *)
(* A message is its number, in the order of speaking, whether it is a tool *)
(* result, and whether it is long (its share of the token proxy is 1 or 0). *)
(* A node keeps what its text covers: the messages it summarises, directly *)
(* or through its children.  Nodes are numbered in the order of created_at. *)
(***************************************************************************)
EXTENDS Integers, Sequences, FiniteSets

CONSTANTS
    FreshTail,          \* LcmConfig::fresh_tail_count
    ChunkThreshold,     \* LcmConfig::chunk_threshold, in long messages
    CondensationCount,  \* LcmConfig::condensation_count
    MaxDepth,           \* LcmConfig::max_depth
    MaxMessages,        \* bound: messages spoken
    MaxTroubled,        \* bound: messages spoken in a behaviour with a fault
    MaxForgets,         \* bound: contexts cleared or evicted
    MaxFails,           \* bound: store calls that fail
    MaxCrashes          \* bound: ends of the process

ASSUME LcmAssumption ==
    /\ FreshTail \in Nat \ {0}
    /\ ChunkThreshold \in Nat
    /\ CondensationCount \in Nat \ {0}
    /\ MaxDepth \in Nat
    /\ MaxMessages \in Nat
    /\ MaxTroubled \in 0 .. MaxMessages
    /\ MaxForgets \in Nat
    /\ MaxFails \in Nat
    /\ MaxCrashes \in Nat

VARIABLES
    \* The context of the agent: what the last compaction returned, as nodes and
    \* messages, and the messages pushed since.
    shown, tail, fresh,
    spoken,       \* history: how many messages were spoken
    \* LcmConversationState.
    raw,          \* raw_messages
    nodes,        \* summaries, by number
    \* The tables lcm_messages (in the order of sequence) and lcm_summaries.
    diskRaw, diskNodes,
    made,         \* history: the number of the last node made
    \* The locals of a compaction.
    pc,           \* "idle", or the store call being awaited
    unsaved,      \* new_messages
    chunk,        \* i, the start of the chunk being summarised
    rolled,       \* summarized_ids
    depth,        \* depth being condensed
    children,     \* those of to_condense that are not marked yet
    parent,       \* the node that condenses them
    \* History.
    forgets, fails, crashes

context  == <<shown, tail, fresh, spoken>>
memory   == <<raw, nodes>>
disk     == <<diskRaw, diskNodes>>
locals   == <<unsaved, chunk, rolled, depth, children, parent>>
troubles == <<forgets, fails, crashes>>
vars     == <<context, memory, disk, made, pc, locals, troubles>>

-----------------------------------------------------------------------------

Message == [id : Nat, tool : BOOLEAN, long : BOOLEAN]

\* parent = 0 stands for no parent; sources are the children's numbers, and
\* empty for a node of depth 0, whose sources are the messages it covers.
Node == [depth : Nat, sources : SUBSET Nat, covers : SUBSET Nat, parent : Nat]

NoNode == [depth |-> 0, sources |-> {}, covers |-> {}, parent |-> 0]

NoNodes == [n \in {} |-> NoNode]

\* The function f with y at x.
With(f, x, y) == [z \in DOMAIN f \cup {x} |-> IF z = x THEN y ELSE f[z]]

Ids(s) == {s[i].id : i \in 1 .. Len(s)}

Smaller(a, b) == IF a < b THEN a ELSE b

\* LcmConversationState::active_summaries.
Active(ns) == {n \in DOMAIN ns : ns[n].parent = 0}

ActiveAt(ns, d) == {n \in Active(ns) : ns[n].depth = d}

\* The place of number n in the set S.
Rank(S, n) == Cardinality({m \in S : m <= n})

\* The set S of numbers in increasing order.
InOrder(S) == [k \in 1 .. Cardinality(S) |-> CHOOSE n \in S : Rank(S, n) = k]

\* The messages of s that are not in S.
Without(s, S) ==
    LET kept == InOrder({i \in 1 .. Len(s) : s[i].id \notin S})
    IN  [k \in DOMAIN kept |-> s[kept[k]]]

\* safe_tail_start: the number of messages before the tail.
SafeTailStart(s) ==
    LET cut == IF Len(s) > FreshTail THEN Len(s) - FreshTail ELSE 0
        ok  == {i \in 0 .. cut : i = 0 \/ ~s[i + 1].tool}
    IN  CHOOSE i \in ok : \A j \in ok : j <= i

\* The tail of s.
TailOf(s) == SubSeq(s, SafeTailStart(s) + 1, Len(s))

\* token_proxy > chunk_threshold.
Rolls(s) ==
    Cardinality({i \in 1 .. SafeTailStart(s) : s[i].long}) > ChunkThreshold

\* Mutant of Condensable: one node more is awaited.
CondensableLate(ns, d) == Cardinality(ActiveAt(ns, d)) > CondensationCount

\* A depth with enough active nodes is condensed.
Condensable(ns, d) == Cardinality(ActiveAt(ns, d)) >= CondensationCount

\* The first depth from d on that condense_summaries condenses, or MaxDepth.
NextDepth(ns, d) ==
    CHOOSE e \in d .. MaxDepth :
        /\ e < MaxDepth => Condensable(ns, e)
        /\ \A f \in d .. (e - 1) : ~Condensable(ns, f)

\* to_condense: the oldest active nodes of depth d.
Oldest(ns, d) == SubSeq(InOrder(ActiveAt(ns, d)), 1, CondensationCount)

-----------------------------------------------------------------------------

Init ==
    /\ shown = <<>> /\ tail = <<>> /\ fresh = <<>>
    /\ spoken = 0
    /\ raw = <<>> /\ nodes = NoNodes
    /\ diskRaw = <<>> /\ diskNodes = NoNodes
    /\ made = 0
    /\ pc = "idle"
    /\ unsaved = <<>> /\ chunk = 0 /\ rolled = {}
    /\ depth = 0 /\ children = <<>> /\ parent = NoNode
    /\ forgets = 0 /\ fails = 0 /\ crashes = 0

\* A turn pushes a message to the context.  A tool result follows its calls in
\* the same turn.
Speak(tool, long) ==
    /\ pc = "idle"
    /\ spoken < IF fails + crashes = 0 THEN MaxMessages ELSE MaxTroubled
    /\ tool => fresh # <<>>
    /\ spoken' = spoken + 1
    /\ fresh' = Append(fresh, [id |-> spoken + 1, tool |-> tool, long |-> long])
    /\ UNCHANGED <<shown, tail, memory, disk, made, pc, locals, troubles>>

\* The context is cleared by a reset, or dropped by the LRU of the run loop.
Forget ==
    /\ pc = "idle"
    /\ forgets < MaxForgets
    /\ shown' = <<>> /\ tail' = <<>> /\ fresh' = <<>>
    /\ forgets' = forgets + 1
    /\ UNCHANGED <<spoken, memory, disk, made, pc, locals, fails, crashes>>

\* The process ends: memory and context are lost.
Crash ==
    /\ crashes < MaxCrashes
    /\ spoken <= MaxTroubled
    /\ shown' = <<>> /\ tail' = <<>> /\ fresh' = <<>>
    /\ raw' = <<>> /\ nodes' = NoNodes
    /\ pc' = "idle"
    /\ unsaved' = <<>> /\ chunk' = 0 /\ rolled' = {}
    /\ depth' = 0 /\ children' = <<>> /\ parent' = NoNode
    /\ crashes' = crashes + 1
    /\ UNCHANGED <<spoken, disk, made, forgets, fails>>

-----------------------------------------------------------------------------
(* One compaction.                                                         *)

ResetLocals ==
    /\ unsaved' = <<>> /\ chunk' = 0 /\ rolled' = {}
    /\ depth' = 0 /\ children' = <<>> /\ parent' = NoNode

\* A store call fails: compact() returns the error, and the context keeps its
\* turns.
Fails ==
    /\ fails < MaxFails
    /\ spoken <= MaxTroubled
    /\ fails' = fails + 1
    /\ pc' = "idle"
    /\ ResetLocals
    /\ UNCHANGED <<context, disk, forgets, crashes>>

\* Nothing is loaded yet.
Unloaded == raw = <<>> /\ DOMAIN nodes = {}

\* load_messages fails, or (half) only load_summaries does.
LoadFails(half) ==
    /\ pc = "idle"
    /\ Unloaded
    /\ raw' = IF half THEN diskRaw ELSE raw
    /\ UNCHANGED <<nodes, made>>
    /\ Fails

\* The messages of the context that are not in `held`.
NewMessages(held) == Without(tail \o fresh, Ids(held))

\* compact() loads what is persisted if it holds nothing, and merges the
\* messages that are new to it.
Begin ==
    LET held == IF Unloaded THEN diskRaw ELSE raw
        new  == NewMessages(held)
    IN  /\ pc = "idle"
        /\ raw' = held \o new
        /\ nodes' = IF Unloaded THEN diskNodes ELSE nodes
        /\ unsaved' = new
        /\ pc' = "save"
        /\ UNCHANGED <<context, disk, made, chunk, rolled, depth, children, parent, troubles>>

\* Mutant of Retained: nothing is removed.
RetainAll(r) == raw

\* Line 148: the raw messages that were not rolled into summaries.
Retained(r) == Without(raw, r)

\* The compaction ends: the rolled messages are removed, and the active nodes
\* and the tail of what is left go back to the context.
Finish(ns, r) ==
    /\ raw' = Retained(r)
    /\ shown' = InOrder(Active(ns))
    /\ tail' = TailOf(Retained(r))
    /\ fresh' = <<>>
    /\ pc' = "idle"
    /\ ResetLocals
    /\ UNCHANGED spoken

\* Mutant of Saved: max_sequence is not added, and each save numbers its rows from
\* one.  Rows of one number are read back in the order they were written.
SavedFromOne(new) ==
    LET rows        == ({0} \X DOMAIN diskRaw) \cup ({1} \X DOMAIN new)
        before(q, r) == q[2] < r[2] \/ (q[2] = r[2] /\ q[1] <= r[1])
        row(k)      == CHOOSE r \in rows : Cardinality({q \in rows : before(q, r)}) = k
    IN  [k \in 1 .. Cardinality(rows) |->
            IF row(k)[1] = 0 THEN diskRaw[row(k)[2]] ELSE new[row(k)[2]]]

\* INSERT OR REPLACE under the next sequence numbers: a message that has a row
\* gets a new one, at the end.
Saved(new) == Without(diskRaw, Ids(new)) \o new

\* The new messages are saved in one transaction; then the messages before the
\* tail are summarised if they are long enough.
SaveMessages ==
    /\ pc = "save"
    /\ diskRaw' = Saved(unsaved)
    /\ IF Rolls(raw)
       THEN /\ pc' = "chunk"
            /\ unsaved' = <<>>
            /\ UNCHANGED <<raw, context, chunk, rolled, depth, children, parent>>
       ELSE Finish(nodes, {})
    /\ UNCHANGED <<nodes, diskNodes, made, troubles>>

SaveMessagesFails ==
    /\ pc = "save"
    /\ unsaved # <<>>
    /\ UNCHANGED <<memory, made>>
    /\ Fails

\* The oldest active nodes of depth e are given a parent.
Condense(ns, e, r) ==
    LET kids == Oldest(ns, e)
    IN  /\ depth' = e
        /\ children' = kids
        /\ parent' = [depth   |-> e + 1,
                      sources |-> {kids[i] : i \in DOMAIN kids},
                      covers  |-> UNION {ns[kids[i]].covers : i \in DOMAIN kids},
                      parent  |-> 0]
        /\ rolled' = r
        /\ pc' = "mark"
        /\ UNCHANGED <<raw, context, unsaved, chunk>>

NextChunk(r) ==
    /\ chunk' = chunk + FreshTail
    /\ rolled' = r
    /\ pc' = "chunk"
    /\ UNCHANGED <<raw, context, unsaved, depth, children, parent>>

\* condense_summaries goes on at depth d with the nodes ns: the next depth
\* that has enough is condensed; when none is left, the next chunk is
\* summarised; when none is left, the compaction ends.
Continue(ns, d, r) ==
    LET e    == NextDepth(ns, d)
        more == chunk + FreshTail < SafeTailStart(raw)
    IN  \/ e < MaxDepth /\ Condense(ns, e, r)
        \/ e = MaxDepth /\ more /\ NextChunk(r)
        \/ e = MaxDepth /\ ~more /\ Finish(ns, r)

\* A chunk is summarised (the summariser's failures become a default text) and
\* the node saved, first in the table.
SaveChunk ==
    LET ids == Ids(SubSeq(raw, chunk + 1, Smaller(chunk + FreshTail, SafeTailStart(raw))))
        n   == made + 1
        new == [depth |-> 0, sources |-> {}, covers |-> ids, parent |-> 0]
    IN  /\ pc = "chunk"
        /\ made' = n
        /\ diskNodes' = With(diskNodes, n, new)
        /\ nodes' = With(nodes, n, new)
        /\ Continue(With(nodes, n, new), 0, rolled \cup ids)
        /\ UNCHANGED <<diskRaw, troubles>>

SaveChunkFails ==
    /\ pc = "chunk"
    /\ made' = made + 1
    /\ UNCHANGED memory
    /\ Fails

\* The first child left gets its parent, in memory and then in the table.
MarkedNodes == [nodes EXCEPT ![Head(children)].parent = made + 1]

\* Mutant of MarkChild: the loop runs once more.
MarkChildOnceMore ==
    /\ pc = "mark"
    /\ nodes' = MarkedNodes
    /\ diskNodes' = With(diskNodes, Head(children), MarkedNodes[Head(children)])
    /\ children' = Tail(children)
    /\ pc' = IF children = <<>> THEN "parent" ELSE "mark"
    /\ UNCHANGED <<context, raw, diskRaw, made, unsaved, chunk, rolled, depth, parent, troubles>>

MarkChild ==
    /\ pc = "mark"
    /\ nodes' = MarkedNodes
    /\ diskNodes' = With(diskNodes, Head(children), MarkedNodes[Head(children)])
    /\ children' = Tail(children)
    /\ pc' = IF Len(children) = 1 THEN "parent" ELSE "mark"
    /\ UNCHANGED <<context, raw, diskRaw, made, unsaved, chunk, rolled, depth, parent, troubles>>

MarkChildFails ==
    /\ pc = "mark"
    /\ nodes' = MarkedNodes
    /\ made' = made + 1
    /\ UNCHANGED raw
    /\ Fails

\* Mutant of SaveParent: the parent is saved but not held.
SaveParentOnly ==
    /\ pc = "parent"
    /\ made' = made + 1
    /\ diskNodes' = With(diskNodes, made + 1, parent)
    /\ nodes' = nodes
    /\ Continue(nodes, depth + 1, rolled)
    /\ UNCHANGED <<diskRaw, troubles>>

\* The parent is saved, and the next depth considered.
SaveParent ==
    /\ pc = "parent"
    /\ made' = made + 1
    /\ diskNodes' = With(diskNodes, made + 1, parent)
    /\ nodes' = With(nodes, made + 1, parent)
    /\ Continue(With(nodes, made + 1, parent), depth + 1, rolled)
    /\ UNCHANGED <<diskRaw, troubles>>

SaveParentFails ==
    /\ pc = "parent"
    /\ made' = made + 1
    /\ UNCHANGED memory
    /\ Fails

StoreFails ==
    \/ \E half \in BOOLEAN : LoadFails(half)
    \/ SaveMessagesFails
    \/ SaveChunkFails
    \/ MarkChildFails
    \/ SaveParentFails

Next ==
    \/ \E tool, long \in BOOLEAN : Speak(tool, long)
    \/ Forget
    \/ Crash
    \/ Begin
    \/ SaveMessages
    \/ SaveChunk
    \/ MarkChild
    \/ SaveParent
    \/ StoreFails

Spec == Init /\ [][Next]_vars

-----------------------------------------------------------------------------
(* Properties.                                                             *)

\* Every variable has its type; the parent of a node is a node made earlier
\* than any made now, or the one being made.
TypeOK ==
    /\ shown \in Seq(Nat)
    /\ tail \in Seq(Message) /\ fresh \in Seq(Message)
    /\ spoken \in 0 .. MaxMessages
    /\ raw \in Seq(Message) /\ diskRaw \in Seq(Message) /\ unsaved \in Seq(Message)
    /\ \A n \in DOMAIN nodes : nodes[n] \in Node
    /\ \A n \in DOMAIN diskNodes : diskNodes[n] \in Node
    /\ DOMAIN nodes \subseteq 1 .. made /\ DOMAIN diskNodes \subseteq 1 .. made
    /\ made \in Nat
    /\ pc \in {"idle", "save", "chunk", "mark", "parent"}
    /\ chunk \in Nat
    /\ rolled \subseteq Nat
    /\ depth \in 0 .. MaxDepth
    /\ children \in Seq(DOMAIN nodes)
    /\ pc = "mark" => children # <<>>
    /\ parent \in Node
    /\ forgets \in 0 .. MaxForgets
    /\ fails \in 0 .. MaxFails
    /\ crashes \in 0 .. MaxCrashes

Covered(ns) == UNION {ns[n].covers : n \in Active(ns)}

\* Until a store call fails, memory and table agree between compactions: every
\* message that is persisted can still reach the model once the state is loaded,
\* as a raw message or covered by an active node, wherever the process ended
\* before; and every raw message is persisted, so that the next process starts
\* from all of them.
DiskAgrees ==
    pc = "idle" /\ fails = 0 =>
        /\ ~Unloaded => Ids(diskRaw) \subseteq Ids(raw) \cup Covered(nodes)
        /\ Ids(raw) \subseteq Ids(diskRaw)

\* The table keeps the messages in the order of speaking, none twice, through
\* crashes and failed saves.
DiskInOrder == \A i, j \in 1 .. Len(diskRaw) : i < j => diskRaw[i].id < diskRaw[j].id

Untroubled == fails = 0 /\ crashes = 0

\* Without faults, no message is summarised twice.
SummarisedOnce ==
    Untroubled =>
        \A m, n \in DOMAIN nodes :
            m # n /\ nodes[m].depth = 0 /\ nodes[n].depth = 0
                => nodes[m].covers \cap nodes[n].covers = {}

\* Without faults, the context tells the conversation in the order of speaking:
\* summaries first, each older than the next, then the tail.
Chronological ==
    LET covers(i) == nodes[shown[i]].covers
        earlier(S, R) == \A a \in S, b \in R : a < b
    IN  pc = "idle" /\ Untroubled =>
            /\ \A i, j \in 1 .. Len(shown) : i < j => earlier(covers(i), covers(j))
            /\ \A i \in 1 .. Len(shown) : earlier(covers(i), Ids(tail))
            /\ \A i, j \in 1 .. Len(tail) : i < j => tail[i].id < tail[j].id

\* Between compactions fewer than CondensationCount nodes are active at each
\* depth below the last.  A process that ends before the condensation is over
\* leaves at most one more behind; a store call that fails, at most as many as
\* one condensation takes, since a load of which only the first half succeeds
\* makes the compactor forget those it has in the table.
ActiveBounded ==
    pc = "idle" =>
        \A d \in 0 .. (MaxDepth - 1) :
            Cardinality(ActiveAt(nodes, d)) < CondensationCount * (1 + fails) + crashes

\* A compaction succeeds.
Succeeds == pc # "idle" /\ pc' = "idle" /\ fails' = fails /\ crashes' = crashes

\* What a compaction returns represents the conversation: each message it
\* holds is in the tail or covered by a summary in front of it.
ContextComplete ==
    [][Succeeds =>
          Ids(raw) \subseteq Ids(tail') \cup UNION {nodes'[shown'[i]].covers : i \in DOMAIN shown'}]_vars

=============================================================================
