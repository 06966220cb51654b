----------------------------- MODULE MemoryProofs -----------------------------
(***************************************************************************)
(* Proofs about Memory, for any conversations and persons, and any number  *)
(* of turns, tool calls, nudges, cleared contexts and restarts.            *)
(*                                                                         *)
(* The invariant says what a request on its way may still do: whom it acts *)
(* for, which memory it names, and what the tool that waits for it will    *)
(* report.                                                                 *)
(***************************************************************************)
EXTENDS Memory, FiniteSetTheorems, SequenceTheorems, TLAPS

-----------------------------------------------------------------------------
(* The inductive invariant.                                                *)

\* What TypeOK says of the variables one by one.
Typed ==
    /\ users \in [Conversations -> Seq(People \cup {NoPerson})]
    /\ empty \subseteq Conversations
    /\ phase \in {"idle", "briefing", "enter", "model", "tool"}
    /\ requests \subseteq Request
    /\ memories \subseteq Memory
    /\ turns \in Seq(Turn)
    /\ said \in [Conversations -> Seq(People \cup {NoPerson})]
    /\ issued \in Ids
    /\ \A k \in stored \cup forgotten \cup late : k \in Namespaces \X Ids

\* There is room for the number of a request: each has a turn or a step of work
\* of its own.
Room ==
    /\ work \in 0 .. MaxWork
    /\ Len(turns) <= MaxTurns
    /\ issued + (IF phase = "idle" THEN 0 ELSE 1) <= Len(turns) + work
    /\ phase # "idle" => turns # <<>>

\* The turn waits for at most one request, of the kind that its phase says.
OneWaits ==
    /\ \A r, q \in Waiting({"briefing", "tool"}) : r = q
    /\ \A r \in Waiting({"briefing", "tool"}) : phase = r.by
    /\ phase \in {"briefing", "tool"} => Waiting({"briefing", "tool"}) # {}

\* Who asks what.
Askers ==
    \A r \in requests :
        /\ r.op \in {"update", "forget"} => r.by = "tool"
        /\ r.turn # 0 <=> r.by = "capture"
        /\ r.by = "capture" => r.op = "remember"
        /\ r.op = "remember" => r.id # 0

\* An id is never that of a later write.
Numbered ==
    /\ \A r \in requests : r.id <= issued
    /\ \A m \in memories : m.id <= issued
    /\ \A k \in stored \cup forgotten : k[2] <= issued

\* Nobody knows the id of a memory that is not stored yet.
Unknown ==
    \A r \in requests : r.op = "remember" /\ r.state = "sent" =>
        /\ \A q \in requests : q.id = r.id => q = r
        /\ \A m \in memories : m.id # r.id
        /\ \A k \in stored \cup forgotten : k[2] # r.id

\* The last user message of a context is the last of the conversation.
CallerIsLast ==
    \A c \in Conversations :
        users[c] # <<>> => said[c] # <<>> /\ Last(users[c]) = Last(said[c])

Table == {<<m.ns, m.id>> : m \in memories}

\* What a tool that waits will report is so, until it does.
AnswersAreTrue ==
    \A r \in Waiting({"tool"}) :
        /\ r.op = "update" => Key(r) \notin forgotten
        /\ r.op = "forget" => Key(r) \notin stored
        /\ r.op \in {"remember", "update"} /\ r.state = "done" => Key(r) \in Table \cup late
        /\ r.op = "forget" /\ r.state = "done" /\ Key(r) \in Table => Key(r) \in late

\* A memory or a request captures its turn as that turn, which is over.
Faithful(x) ==
    /\ x.turn <= Len(turns)
    /\ phase # "idle" => x.turn < Len(turns)
    /\ x.ns = namespace_for(AboutConversation(turns[x.turn].conversation))
    /\ x.home = home_namespace_for(turns[x.turn].author)
    /\ turns[x.turn].content

\* A turn has one request, and then one memory.
CapturedOnce ==
    /\ \A r \in requests : r.turn # 0 => Faithful(r)
    /\ \A m \in memories : m.turn # 0 => Faithful(m)
    /\ \A r, q \in requests : r.turn # 0 /\ r.turn = q.turn => r = q
    /\ \A m, o \in memories : m.turn # 0 /\ m.turn = o.turn => m = o
    /\ \A r \in requests, m \in memories : r.turn # 0 /\ r.state = "sent" => m.turn # r.turn

Inv ==
    /\ Typed
    /\ Room
    /\ OneWaits
    /\ Askers
    /\ Numbered
    /\ Unknown
    /\ CallerIsLast
    /\ CallerNeverOther
    /\ AnswersAreTrue
    /\ ToldIsTrue
    /\ CapturedOnce

-----------------------------------------------------------------------------
(* Lemmas about single steps of the client and the service.                *)

\* What the memory provider makes of an About is a namespace.
LEMMA NamespaceType ==
    ASSUME NEW about \in Abouts
    PROVE  namespace_for(about) \in Namespaces
  BY DEF Namespaces

\* What it makes of a caller is a home, and nobody's is none.
LEMMA HomeType ==
    ASSUME NEW p \in People \cup {NoPerson}
    PROVE  /\ home_namespace_for(p) \in Homes
           /\ home_namespace_for(NoPerson) = {}
  BY DEF Homes, home_namespace_for

\* The turn under way is the last.
LEMMA CurrentType ==
    ASSUME Typed, turns # <<>>
    PROVE  /\ Current = turns[Len(turns)]
           /\ Current \in Turn
           /\ Targets \subseteq Abouts
<1>1. Current = turns[Len(turns)]
  BY DEF Current, Last
<1>2. Current \in Turn
  BY <1>1 DEF Typed
<1> QED
  BY <1>1, <1>2 DEF Targets, Abouts, Turn

\* q is request p, as far as the service and the client do not change it.
Same(p, q) ==
    /\ q.op = p.op /\ q.id = p.id /\ q.ns = p.ns /\ q.home = p.home
    /\ q.by = p.by /\ q.turn = p.turn

\* An answer takes away the request, or tells who waits for it.
LEMMA Answered ==
    ASSUME Typed, NEW r \in requests, NEW state \in {"done", "declined"}, Answer(r, state)
    PROVE  LET told_r == [r EXCEPT !.state = state]
           IN  /\ requests' \subseteq Request
               /\ Same(r, told_r) /\ told_r.waiting = r.waiting /\ told_r.state = state
               /\ \A q \in requests' :
                    \/ q \in requests /\ q # r
                    \/ q = told_r /\ r.waiting
               /\ \A q \in requests : q # r => q \in requests'
               /\ r.waiting => told_r \in requests'
  BY DEF Typed, Request, Answer, Same

\* The row of a write.
LEMMA RowType ==
    ASSUME Typed, NEW r \in requests
    PROVE  /\ Row(r) \in Memory
           /\ Row(r).ns = r.ns /\ Row(r).id = r.id /\ Row(r).turn = r.turn
           /\ r.turn # 0 => Row(r).home = r.home
<1>1. {} \in Homes
  BY DEF Homes, home_namespace_for
<1> QED
  BY <1>1 DEF Typed, Request, Row, Memory

-----------------------------------------------------------------------------
(* The service.                                                            *)

\* A request is carried out.
LEMMA ServeKeeps ==
    ASSUME Inv, NEW r \in requests, Serve(r)
    PROVE  Inv'
<1> USE DEF Inv
<1> DEFINE done == [r EXCEPT !.state = "done"]
<1>1. /\ requests' \subseteq Request
      /\ Same(r, done) /\ done.waiting = r.waiting /\ done.state = "done"
      /\ \A q \in requests' : (q \in requests /\ q # r) \/ (q = done /\ r.waiting)
      /\ \A q \in requests : q # r => q \in requests'
      /\ r.waiting => done \in requests'
  BY Answered DEF Serve
<1>2. \A m \in memories' :
        \/ m \in memories /\ (r.op \in Writes => <<m.ns, m.id>> # Key(r))
        \/ m = Row(r) /\ r.op \in {"remember", "update"}
  BY DEF Serve, At, Writes, Key, Typed, Request, Ops
<1>3. /\ Row(r) \in Memory
      /\ Row(r).ns = r.ns /\ Row(r).id = r.id /\ Row(r).turn = r.turn
      /\ r.turn # 0 => Row(r).home = r.home
  BY RowType
<1> HIDE DEF done
<1>4. Typed'
  <2>1. memories' \subseteq Memory
    BY <1>2, <1>3 DEF Typed
  <2>2. Key(r) \in Namespaces \X Ids
    BY DEF Typed, Request, Key
  <2> QED
    BY <1>1, <2>1, <2>2 DEF Serve, Typed, history, told
<1>5. Room'
  BY DEF Serve, Room, history
<1>6. OneWaits'
  BY <1>1 DEF Serve, OneWaits, Waiting, Same
<1>7. Askers'
  BY <1>1 DEF Askers, Same
<1>8. Numbered'
  BY <1>1, <1>2, <1>3 DEF Serve, Numbered, told, Same, history
<1>9. Unknown'
  <2> SUFFICES ASSUME NEW q \in requests', q.op = "remember", q.state = "sent"
               PROVE  /\ \A p \in requests' : p.id = q.id => p = q
                      /\ \A m \in memories' : m.id # q.id
                      /\ \A k \in stored \cup forgotten : k[2] # q.id
    BY DEF Unknown, Serve, told
  <2>1. q \in requests /\ q # r /\ q.id # r.id
    BY <1>1 DEF Unknown
  <2> QED
    BY <1>1, <1>2, <1>3, <2>1 DEF Unknown, Same
<1>10. CallerIsLast'
  BY DEF Serve, CallerIsLast, history
<1>11. CallerNeverOther'
  BY <1>1 DEF Serve, CallerNeverOther, Waiting, Newest, Current, history, Same
<1>12. \A m \in memories : m \in memories' \/ (r.op \in Writes /\ <<m.ns, m.id>> = Key(r))
  BY DEF Serve, At, Writes, Key, Typed, Request, Ops
<1>13. r.op \in {"remember", "update"} => Row(r) \in memories' /\ Key(r) \in Table'
  BY <1>3 DEF Serve, Table, Key
<1>14. AnswersAreTrue'
  <2> SUFFICES ASSUME NEW q \in Waiting({"tool"})'
               PROVE  /\ q.op = "update" => Key(q) \notin forgotten
                      /\ q.op = "forget" => Key(q) \notin stored
                      /\ q.op \in {"remember", "update"} /\ q.state = "done" => Key(q) \in Table' \cup late'
                      /\ q.op = "forget" /\ q.state = "done" /\ Key(q) \in Table' => Key(q) \in late'
    BY DEF AnswersAreTrue, Serve, told
  <2>1. CASE q = done
    <3>1. Key(q) = Key(r) /\ r \in Waiting({"tool"})
      BY <1>1, <2>1 DEF Same, Waiting, Key
    <3>2. q.op = "forget" => Key(q) \notin Table'
      BY <1>1, <1>2, <2>1, <3>1 DEF Same, Table, Writes
    <3> QED
      BY <1>1, <1>13, <2>1, <3>1, <3>2 DEF AnswersAreTrue, Same
  <2>2. CASE q \in requests /\ q # r
    <3>1. q \in Waiting({"tool"})
      BY <2>2 DEF Waiting
    <3>2. r.op \in {"update", "forget"} => Key(r) \in late'
      BY <2>2, <3>1 DEF Askers, OneWaits, Waiting, Serve
    <3>3. late \subseteq late'
      BY DEF Serve
    <3>4. r.op = "remember" => Key(q) # Key(r)
      BY <2>2 DEF Unknown, Serve, Key
    <3>5. Key(q) \in Table \ Table' => Key(q) = Key(r) /\ r.op = "forget"
      BY <1>12, <1>13 DEF Table, Writes
    <3>6. Key(q) \in Table' \ Table => Key(q) = Key(r) /\ r.op \in {"remember", "update"}
      BY <1>2, <1>3 DEF Table, Key
    <3> QED
      BY <3>1, <3>2, <3>3, <3>4, <3>5, <3>6 DEF AnswersAreTrue
  <2> QED
    BY <1>1, <2>1, <2>2 DEF Waiting
<1>15. ToldIsTrue'
  <2>1. r.op = "forget" /\ Key(r) \in stored => Key(r) \in late'
    BY DEF Askers, AnswersAreTrue, Waiting, Serve
  <2>2. r.op \in {"remember", "update"} /\ Key(r) \in forgotten => Key(r) \in late'
    BY DEF Askers, AnswersAreTrue, Waiting, Serve, Unknown, Key
  <2>3. \A k : k \in Table \ Table' => k = Key(r) /\ r.op = "forget"
    BY <1>12, <1>13 DEF Table, Writes
  <2>4. \A k : k \in Table' \ Table => k = Key(r) /\ r.op \in {"remember", "update"}
    BY <1>2, <1>3 DEF Table, Key
  <2>5. stored' = stored /\ forgotten' = forgotten /\ late \subseteq late'
    BY DEF Serve, told
  <2> QED
    BY <2>1, <2>2, <2>3, <2>4, <2>5 DEF ToldIsTrue, Table
<1>16. CapturedOnce'
  <2>1. UNCHANGED <<turns, phase>>
    BY DEF Serve, history
  <2>2. \A q \in requests' : q.turn # 0 => Faithful(q)'
    BY <1>1, <2>1 DEF CapturedOnce, Faithful, Same
  <2>3. \A m \in memories' : m.turn # 0 => Faithful(m)'
    BY <1>2, <1>3, <2>1 DEF CapturedOnce, Faithful
  <2>4. \A p, q \in requests' : p.turn # 0 /\ p.turn = q.turn => p = q
    BY <1>1 DEF CapturedOnce, Same
  <2>5. \A m, o \in memories' : m.turn # 0 /\ m.turn = o.turn => m = o
    <3>1. \A m \in memories : r.turn # 0 => m.turn # r.turn
      BY DEF CapturedOnce, Serve
    <3>2. \A m \in memories' : m \in memories \/ m = Row(r)
      BY <1>2
    <3> QED
      BY <1>3, <3>1, <3>2 DEF CapturedOnce
  <2>6. \A q \in requests', m \in memories' : q.turn # 0 /\ q.state = "sent" => m.turn # q.turn
    <3> SUFFICES ASSUME NEW q \in requests', NEW m \in memories', q.turn # 0, q.state = "sent"
                 PROVE  m.turn # q.turn
      OBVIOUS
    <3>1. q \in requests /\ q.turn # r.turn
      BY <1>1 DEF CapturedOnce
    <3> QED
      BY <1>2, <1>3, <3>1 DEF CapturedOnce
  <2> QED
    BY <2>2, <2>3, <2>4, <2>5, <2>6 DEF CapturedOnce
<1> QED
  BY <1>4, <1>5, <1>6, <1>7, <1>8, <1>9, <1>10, <1>11, <1>14, <1>15, <1>16

\* A request is not carried out, for too low a signal or an unknown id.
LEMMA DeclineKeeps ==
    ASSUME Inv, NEW r \in requests, Decline(r)
    PROVE  Inv'
<1> USE DEF Inv
<1> DEFINE declined == [r EXCEPT !.state = "declined"]
<1>1. /\ requests' \subseteq Request
      /\ Same(r, declined) /\ declined.waiting = r.waiting /\ declined.state = "declined"
      /\ \A q \in requests' : (q \in requests /\ q # r) \/ (q = declined /\ r.waiting)
      /\ \A q \in requests : q # r => q \in requests'
      /\ r.waiting => declined \in requests'
  BY Answered DEF Decline
<1> HIDE DEF declined
<1>2. UNCHANGED <<users, phase, memories, turns, said, issued, stored, forgotten, late, work>>
  BY DEF Decline, history, told
<1>3. Typed'
  BY <1>1, <1>2 DEF Decline, Typed
<1>4. Room'
  BY <1>2 DEF Room
<1>5. OneWaits'
  BY <1>1, <1>2 DEF OneWaits, Waiting, Same
<1>6. Askers'
  BY <1>1 DEF Askers, Same
<1>7. Numbered'
  BY <1>1, <1>2 DEF Numbered, Same
<1>8. Unknown'
  BY <1>1, <1>2 DEF Unknown, Same
<1>9. CallerIsLast'
  BY <1>2 DEF CallerIsLast
<1>10. CallerNeverOther'
  BY <1>1, <1>2 DEF CallerNeverOther, Waiting, Newest, Current, Same
<1>11. AnswersAreTrue'
  BY <1>1, <1>2 DEF AnswersAreTrue, Waiting, Same, Key, Table
<1>12. ToldIsTrue'
  BY <1>2 DEF ToldIsTrue
<1>13. CapturedOnce'
  BY <1>1, <1>2 DEF CapturedOnce, Faithful, Same
<1> QED
  BY <1>3, <1>4, <1>5, <1>6, <1>7, <1>8, <1>9, <1>10, <1>11, <1>12, <1>13

-----------------------------------------------------------------------------
(* The client.                                                             *)

\* Whoever waits for request r goes on, and what the model was told is as it was.
LEMMA LeftKeeps ==
    ASSUME Inv, NEW r \in requests,
           requests' \subseteq (requests \ {r}) \cup {[r EXCEPT !.waiting = FALSE]},
           requests \ {r} \subseteq requests',
           IF r.waiting THEN Resume(r) ELSE phase' = phase,
           UNCHANGED <<users, empty, memories, turns, said, issued, late, work>>
    PROVE  /\ requests' \subseteq Request
           /\ phase' \in {"idle", "briefing", "enter", "model", "tool"}
           /\ Room' /\ OneWaits' /\ Askers' /\ CallerIsLast' /\ CallerNeverOther' /\ CapturedOnce'
<1> USE DEF Inv
<1> DEFINE left == [r EXCEPT !.waiting = FALSE]
<1>1. /\ requests' \subseteq Request
      /\ Same(r, left) /\ ~left.waiting /\ left.state = r.state
      /\ \A q \in requests' : (q \in requests /\ q # r) \/ q = left
      /\ \A q \in requests : q # r => q \in requests'
  BY DEF Typed, Request, Same
<1> HIDE DEF left
<1>2. \/ phase' = phase
      \/ r.waiting /\ r.by = "briefing" /\ phase = "briefing" /\ phase' = "enter"
      \/ r.waiting /\ r.by = "tool" /\ phase = "tool" /\ phase' = "model"
  BY DEF Resume, OneWaits, Waiting
<1>3. phase' \in {"idle", "briefing", "enter", "model", "tool"}
  BY <1>2 DEF Typed
<1>4. Room'
  BY <1>2 DEF Room
<1>5. OneWaits'
  <2>1. Waiting({"briefing", "tool"})' \subseteq Waiting({"briefing", "tool"}) \ {r}
    BY <1>1 DEF Waiting
  <2>2. r \in Waiting({"briefing", "tool"}) => phase' \notin {"briefing", "tool"}
    BY DEF Waiting, Resume
  <2>3. r \notin Waiting({"briefing", "tool"}) =>
           phase' = phase /\ Waiting({"briefing", "tool"}) \subseteq Waiting({"briefing", "tool"})'
    BY <1>1, <1>2 DEF Waiting
  <2> QED
    BY <2>1, <2>2, <2>3 DEF OneWaits
<1>6. Askers'
  BY <1>1 DEF Askers, Same
<1>7. CallerIsLast'
  BY DEF CallerIsLast
<1>8. CallerNeverOther'
  BY <1>1 DEF CallerNeverOther, Waiting, Newest, Current
<1>9. CapturedOnce'
  <2>1. phase' # "idle" <=> phase # "idle"
    BY <1>2
  <2> QED
    BY <1>1, <2>1 DEF CapturedOnce, Faithful, Same
<1> QED
  BY <1>1, <1>3, <1>4, <1>5, <1>6, <1>7, <1>8, <1>9

\* A request that is given up, or refused, tells the model nothing.
LEMMA UntoldKeeps ==
    ASSUME Inv, NEW r \in requests,
           requests' \subseteq (requests \ {r}) \cup {[r EXCEPT !.waiting = FALSE]},
           requests \ {r} \subseteq requests',
           IF r.waiting THEN Resume(r) ELSE phase' = phase,
           UNCHANGED <<users, empty, memories, turns, said, issued, late, work, told>>
    PROVE  Inv'
<1> USE DEF Inv
<1> DEFINE left == [r EXCEPT !.waiting = FALSE]
<1>1. /\ Same(r, left) /\ ~left.waiting /\ left.state = r.state
      /\ \A q \in requests' : (q \in requests /\ q # r) \/ q = left
  BY DEF Typed, Request, Same
<1> HIDE DEF left
<1>2. /\ requests' \subseteq Request
      /\ phase' \in {"idle", "briefing", "enter", "model", "tool"}
      /\ Room' /\ OneWaits' /\ Askers' /\ CallerIsLast' /\ CallerNeverOther' /\ CapturedOnce'
  BY LeftKeeps
<1>3. Typed'
  BY <1>2 DEF Typed, told
<1>4. Numbered'
  BY <1>1 DEF Numbered, Same, told
<1>5. Unknown'
  BY <1>1 DEF Unknown, Same, told
<1>6. AnswersAreTrue'
  BY <1>1 DEF AnswersAreTrue, Waiting, Key, Table, told
<1>7. ToldIsTrue'
  BY DEF ToldIsTrue, told
<1> QED
  BY <1>2, <1>3, <1>4, <1>5, <1>6, <1>7

\* A timeout of the caller.
LEMMA GiveUpKeeps ==
    ASSUME Inv, NEW r \in requests, GiveUp(r)
    PROVE  Inv'
  BY UntoldKeeps DEF GiveUp, history

\* An error of the service.
LEMMA RefuseKeeps ==
    ASSUME Inv, NEW r \in requests, Refuse(r)
    PROVE  Inv'
  BY UntoldKeeps DEF Refuse, history

\* The answer that arrives is true, and nobody else waits for one.
LEMMA DeliverKeeps ==
    ASSUME Inv, NEW r \in requests, Deliver(r)
    PROVE  Inv'
<1> USE DEF Inv
<1>1. /\ requests' \subseteq Request
      /\ phase' \in {"idle", "briefing", "enter", "model", "tool"}
      /\ Room' /\ OneWaits' /\ Askers' /\ CallerIsLast' /\ CallerNeverOther' /\ CapturedOnce'
  BY LeftKeeps DEF Deliver, history
<1>2. /\ requests' = requests \ {r} /\ r.waiting /\ r.state # "sent"
      /\ UNCHANGED <<users, memories, turns, said, issued, late, work>>
      /\ stored \subseteq stored' /\ forgotten \subseteq forgotten'
  BY DEF Deliver, history
<1>3. /\ \A k \in stored' \ stored : k = Key(r) /\ r.by = "tool" /\ Succeeded(r)
                                     /\ r.op \in {"remember", "update"}
      /\ \A k \in forgotten' \ forgotten : k = Key(r) /\ r.op = "forget" /\ Succeeded(r)
  BY DEF Deliver
<1>4. Typed'
  <2>1. Key(r) \in Namespaces \X Ids
    BY DEF Typed, Request, Key
  <2> QED
    BY <1>1, <1>2, <1>3, <2>1 DEF Typed, Deliver
<1>5. Numbered'
  BY <1>2, <1>3 DEF Numbered, Key
<1>6. Unknown'
  BY <1>2, <1>3 DEF Unknown, Key
<1>7. AnswersAreTrue'
  <2>1. CASE r.by = "tool"
    BY <1>2, <2>1 DEF AnswersAreTrue, OneWaits, Waiting
  <2>2. CASE r.by # "tool"
    <3>1. stored' = stored /\ forgotten' = forgotten
      BY <1>2, <1>3, <2>2 DEF Askers
    <3> QED
      BY <1>2, <3>1 DEF AnswersAreTrue, Waiting, Key, Table
  <2> QED
    BY <2>1, <2>2
<1>8. ToldIsTrue'
  <2>1. r.by = "tool" => r \in Waiting({"tool"})
    BY <1>2 DEF Waiting
  <2> QED
    BY <1>2, <1>3, <2>1 DEF ToldIsTrue, AnswersAreTrue, Table, Askers, Succeeded
<1> QED
  BY <1>1, <1>4, <1>5, <1>6, <1>7, <1>8

-----------------------------------------------------------------------------
(* The agent.                                                              *)

\* What is asked is a request of its own, which somebody waits for.
LEMMA IssueMakes ==
    ASSUME Typed, Numbered, issued + 1 <= MaxTurns + MaxWork,
           NEW op \in Ops, NEW id \in KnownIds, NEW about \in Abouts,
           NEW caller \in People \cup {NoPerson}, NEW by \in {"briefing", "tool", "capture"},
           NEW t \in 0 .. MaxTurns,
           Issue(op, id, about, caller, by, t)
    PROVE  /\ issued' \in Ids /\ issued <= issued'
           /\ \E new \in Request :
                /\ requests' = requests \cup {new}
                /\ new.op = op /\ new.by = by /\ new.turn = t /\ new.waiting /\ new.state = "sent"
                /\ new.ns = namespace_for(about) /\ new.home = home_namespace_for(caller)
                /\ new.id <= issued'
                /\ new.id = IF op = "remember" THEN issued + 1 ELSE id
<1>1. id \in Nat /\ id <= issued
  BY DEF KnownIds, Numbered, Typed, Memory, Ids
<1>2. namespace_for(about) \in Namespaces /\ home_namespace_for(caller) \in Homes
  BY NamespaceType, HomeType
<1>3. issued \in Nat /\ MaxTurns + MaxWork \in Nat
  BY MemoryAssumption DEF Typed, Ids
<1> DEFINE n   == IF op = "read" THEN 0 ELSE issued + 1
           new == [n |-> n, op |-> op, id |-> IF op = "remember" THEN n ELSE id,
                   ns |-> namespace_for(about), home |-> home_namespace_for(caller),
                   by |-> by, turn |-> t, waiting |-> TRUE, state |-> "sent"]
<1>4. n \in Ids /\ new.id \in Ids
  BY <1>1, <1>3 DEF Ids
<1>5. new \in Request
  BY <1>2, <1>4 DEF Request
<1>6. requests' = requests \cup {new} /\ issued' = IF op = "read" THEN issued ELSE n
  BY DEF Issue
<1>7. /\ new.op = op /\ new.by = by /\ new.turn = t /\ new.waiting /\ new.state = "sent"
      /\ new.ns = namespace_for(about) /\ new.home = home_namespace_for(caller)
      /\ new.id = IF op = "remember" THEN issued + 1 ELSE id
  OBVIOUS
<1>8. issued' \in Ids /\ issued <= issued' /\ new.id <= issued'
  BY <1>1, <1>3, <1>4, <1>6 DEF Ids
<1> HIDE DEF new
<1> QED
  BY <1>5, <1>6, <1>7, <1>8

\* Who wrote the last message, if somebody did, wrote the newest.
LEMMA NewestIsLast ==
    ASSUME Typed, NEW c \in Conversations, said[c] # <<>>, Last(said[c]) # NoPerson
    PROVE  Newest(c) = Last(said[c])
<1>1. said[c] \in Seq(People \cup {NoPerson}) /\ Last(said[c]) = said[c][Len(said[c])]
  BY DEF Typed, Last
<1> DEFINE spoken == {i \in DOMAIN said[c] : said[c][i] # NoPerson}
<1>2. Len(said[c]) \in spoken /\ \A i \in spoken : Len(said[c]) >= i
  BY <1>1
<1>3. \A x \in spoken : (\A y \in spoken : x >= y) => x = Len(said[c])
  BY <1>1, <1>2
<1>4. Max(spoken) = Len(said[c])
  BY <1>2, <1>3 DEF Max
<1> QED
  BY <1>1, <1>4 DEF Newest

\* A turn begins when nobody waits, and all turns captured are over.
LEMMA BeginKeeps ==
    ASSUME Inv, NEW c \in Conversations, NEW p \in People, NEW content \in BOOLEAN,
           Begin(c, p, content)
    PROVE  Inv'
<1> USE DEF Inv
<1>1. /\ phase = "idle" /\ Len(turns) < MaxTurns /\ work < MaxWork /\ work' = work + 1
      /\ turns' = Append(turns, [conversation |-> c, author |-> p, content |-> content])
      /\ UNCHANGED <<users, empty, memories, said, stored, forgotten, late>>
  BY DEF Begin, Works, told
<1>2. /\ turns \in Seq(Turn) /\ turns' \in Seq(Turn) /\ Len(turns') = Len(turns) + 1
      /\ turns' # <<>>
      /\ \A i \in 1 .. Len(turns) : turns'[i] = turns[i]
  BY <1>1 DEF Typed, Turn
<1>3. Waiting({"briefing", "tool"}) = {} /\ Waiting({"tool"}) = {}
  BY <1>1 DEF OneWaits, Waiting
<1>4. issued + 1 <= MaxTurns + MaxWork /\ issued \in Nat /\ issued \in Ids /\ 0 \in 0 .. MaxTurns
  BY <1>1, <1>2, MemoryAssumption DEF Room, Typed, Ids
<1>5. \/ /\ phase' = "enter" /\ requests' = requests /\ issued' = issued
      \/ /\ phase' = "briefing" /\ issued' \in Ids /\ issued' = issued
         /\ \E new \in Request :
              /\ requests' = requests \cup {new}
              /\ new.op = "read" /\ new.by = "briefing" /\ new.turn = 0 /\ new.waiting
              /\ new.state = "sent" /\ new.id = 0
  <2>1. CASE content /\ c \in empty
    <3>1. /\ "read" \in Ops /\ 0 \in KnownIds /\ AboutConversation(c) \in Abouts
          /\ p \in People \cup {NoPerson} /\ "briefing" \in {"briefing", "tool", "capture"}
      BY DEF Ops, KnownIds, Abouts
    <3>2. Issue("read", 0, AboutConversation(c), p, "briefing", 0) /\ phase' = "briefing"
      BY <2>1 DEF Begin
    <3>3. issued' = issued
      BY <3>2 DEF Issue
    <3> QED
      BY <1>4, <3>1, <3>2, <3>3, IssueMakes
  <2>2. CASE ~(content /\ c \in empty)
    BY <2>2 DEF Begin
  <2> QED
    BY <2>1, <2>2
<1>6. \A q \in requests' \ requests :
        /\ q \in Request /\ q.op = "read" /\ q.by = "briefing" /\ q.turn = 0 /\ q.id = 0
  BY <1>5
<1>7. requests \subseteq requests' /\ issued' = issued
  BY <1>5
<1>8. Typed'
  BY <1>1, <1>2, <1>4, <1>5, <1>6 DEF Typed
<1>9. Room'
  <2>1. issued' = issued /\ phase' # "idle"
    BY <1>5
  <2>2. issued <= Len(turns) + work /\ work \in Nat /\ Len(turns) \in Nat
    BY <1>1, <1>2, <1>4, MemoryAssumption DEF Room
  <2>3. work' \in 0 .. MaxWork /\ Len(turns') <= MaxTurns
    BY <1>1, <1>2, <2>2, MemoryAssumption
  <2> QED
    BY <1>1, <1>2, <1>4, <2>1, <2>2, <2>3 DEF Room
<1>10. OneWaits'
  BY <1>3, <1>5 DEF OneWaits, Waiting
<1>11. Askers'
  BY <1>6 DEF Askers
<1>12. Numbered'
  BY <1>1, <1>4, <1>6, <1>7 DEF Numbered
<1>13. Unknown'
  BY <1>1, <1>6 DEF Unknown, Askers
<1>14. CallerIsLast'
  BY <1>1 DEF CallerIsLast
<1>15. Waiting({"tool"})' = {}
  BY <1>3, <1>6 DEF Waiting
<1>16. CallerNeverOther' /\ AnswersAreTrue'
  BY <1>15 DEF CallerNeverOther, AnswersAreTrue
<1>17. ToldIsTrue'
  BY <1>1 DEF ToldIsTrue
<1>18. CapturedOnce'
  <2>1. \A t \in Nat \ {0} : t <= Len(turns) =>
           t <= Len(turns') /\ t < Len(turns') /\ turns'[t] = turns[t]
    BY <1>2
  <2>2. \A q \in requests : q.turn \in Nat
    BY DEF Typed, Request
  <2>3. \A m \in memories : m.turn \in Nat
    BY DEF Typed, Memory
  <2>4. \A q \in requests' : q.turn # 0 => Faithful(q)' /\ q \in requests
    BY <1>6, <2>1, <2>2 DEF CapturedOnce, Faithful
  <2>5. \A m \in memories' : m.turn # 0 => Faithful(m)' /\ m \in memories
    BY <1>1, <2>1, <2>3 DEF CapturedOnce, Faithful
  <2> QED
    BY <1>1, <2>4, <2>5 DEF CapturedOnce
<1> QED
  BY <1>8, <1>9, <1>10, <1>11, <1>12, <1>13, <1>14, <1>16, <1>17, <1>18

\* The message is pushed: the context ends as the conversation does.
LEMMA EnterKeeps ==
    ASSUME Inv, Enter
    PROVE  Inv'
<1> USE DEF Inv
<1> DEFINE c   == Current.conversation
           new == IF Current.content THEN <<Current.author>> ELSE <<>>
           all == said[c] \o new
<1>1. Current \in Turn /\ c \in Conversations
  BY CurrentType DEF Enter, Room, Turn
<1>2. all \in Seq(People \cup {NoPerson}) /\ Len(new) \in Nat /\ Len(new) <= Len(all)
  <2>1. said[c] \in Seq(People \cup {NoPerson})
    BY <1>1 DEF Typed
  <2>2. new \in Seq(People \cup {NoPerson})
    <3>1. Current.author \in People \cup {NoPerson}
      BY <1>1 DEF Turn
    <3>2. <<Current.author>> \in Seq(People \cup {NoPerson}) /\ <<>> \in Seq(People \cup {NoPerson})
      BY <3>1
    <3> QED
      BY <3>2, Zenon
  <2> HIDE DEF c, new
  <2> QED
    BY <2>1, <2>2, ConcatProperties
<1>3. PICK k \in Len(new) .. Len(all) :
         users' = [users EXCEPT ![c] = SubSeq(all, Len(all) - k + 1, Len(all))]
  BY DEF Enter
<1>4. /\ phase = "enter" /\ phase' = "model"
      /\ said' = [said EXCEPT ![c] = all] /\ empty' = empty \ {c}
      /\ UNCHANGED <<requests, memories, turns, issued, stored, forgotten, late, work>>
  BY DEF Enter, told
<1> DEFINE end == SubSeq(all, Len(all) - k + 1, Len(all))
<1> HIDE DEF c, new, all
<1>5. end \in Seq(People \cup {NoPerson})
  BY <1>2
<1>6. end # <<>> => all # <<>> /\ Last(end) = Last(all)
  BY <1>2 DEF Last
<1>7. /\ said' \in [Conversations -> Seq(People \cup {NoPerson})]
      /\ users' \in [Conversations -> Seq(People \cup {NoPerson})]
  BY <1>2, <1>3, <1>4, <1>5 DEF Typed
<1>8. CallerIsLast'
  BY <1>1, <1>3, <1>4, <1>6 DEF CallerIsLast, Typed
<1>9. Waiting({"briefing", "tool"}) = {} /\ Waiting({"tool"}) = {}
  BY <1>4 DEF OneWaits, Waiting
<1>10. OneWaits'
  BY <1>4, <1>9 DEF OneWaits, Waiting
<1>11. CallerNeverOther' /\ AnswersAreTrue'
  BY <1>4, <1>9 DEF CallerNeverOther, AnswersAreTrue, Waiting
<1>12. Typed' /\ Room' /\ Askers' /\ Numbered' /\ Unknown' /\ ToldIsTrue' /\ CapturedOnce'
  BY <1>4, <1>7 DEF Typed, Room, Askers, Numbered, Unknown, ToldIsTrue, CapturedOnce, Faithful
<1> QED
  BY <1>8, <1>10, <1>11, <1>12

\* A nudge is the last user message of both.
LEMMA NudgeKeeps ==
    ASSUME Inv, phase # "idle", Nudge
    PROVE  Inv'
<1> USE DEF Inv
<1> DEFINE c == Current.conversation
<1>1. c \in Conversations
  BY CurrentType DEF Room, Turn
<1>2. /\ phase = "model" /\ work < MaxWork /\ work' = work + 1
      /\ users' = [users EXCEPT ![c] = Append(users[c], NoPerson)]
      /\ said' = [said EXCEPT ![c] = Append(said[c], NoPerson)]
      /\ UNCHANGED <<empty, phase, requests, memories, turns, issued, stored, forgotten, late>>
  BY DEF Nudge, Works, told
<1> HIDE DEF c
<1>3. /\ users[c] \in Seq(People \cup {NoPerson}) /\ said[c] \in Seq(People \cup {NoPerson})
      /\ Append(users[c], NoPerson) \in Seq(People \cup {NoPerson})
      /\ Append(said[c], NoPerson) \in Seq(People \cup {NoPerson})
      /\ Append(said[c], NoPerson) # <<>>
      /\ Last(Append(users[c], NoPerson)) = NoPerson /\ Last(Append(said[c], NoPerson)) = NoPerson
  <2>1. users[c] \in Seq(People \cup {NoPerson}) /\ said[c] \in Seq(People \cup {NoPerson})
    BY <1>1 DEF Typed
  <2>2. NoPerson \in People \cup {NoPerson}
    OBVIOUS
  <2> QED
    BY <2>1, <2>2, AppendProperties DEF Last
<1>4. /\ said' \in [Conversations -> Seq(People \cup {NoPerson})]
      /\ users' \in [Conversations -> Seq(People \cup {NoPerson})]
  BY <1>2, <1>3 DEF Typed
<1>5. CallerIsLast'
  BY <1>1, <1>2, <1>3 DEF CallerIsLast, Typed
<1>6. Waiting({"briefing", "tool"}) = {} /\ Waiting({"tool"}) = {}
  BY <1>2 DEF OneWaits, Waiting
<1>7. OneWaits'
  BY <1>2, <1>6 DEF OneWaits, Waiting
<1>8. CallerNeverOther' /\ AnswersAreTrue'
  BY <1>2, <1>6 DEF CallerNeverOther, AnswersAreTrue, Waiting
<1>9. Room'
  BY <1>2, MemoryAssumption DEF Room, Typed, Ids
<1>10. Typed' /\ Askers' /\ Numbered' /\ Unknown' /\ ToldIsTrue' /\ CapturedOnce'
  BY <1>2, <1>4 DEF Typed, Askers, Numbered, Unknown, ToldIsTrue, CapturedOnce, Faithful
<1> QED
  BY <1>5, <1>7, <1>8, <1>9, <1>10

\* A tool acts for the caller, and whatever it asks takes back what was told
\* against it.
LEMMA CallToolKeeps ==
    ASSUME Inv, phase # "idle",
           NEW op \in Ops, NEW id \in KnownIds, NEW about \in Targets,
           CallTool(op, id, about),
           stored' \subseteq stored, forgotten' \subseteq forgotten,
           op = "update" => <<namespace_for(about), id>> \notin forgotten',
           op = "forget" => <<namespace_for(about), id>> \notin stored'
    PROVE  Inv'
<1> USE DEF Inv
<1> DEFINE c == Current.conversation
<1>1. c \in Conversations /\ Targets \subseteq Abouts
  BY CurrentType DEF Room, Turn
<1>2. /\ phase = "model" /\ phase' = "tool" /\ work < MaxWork /\ work' = work + 1
      /\ UNCHANGED <<users, empty, memories, turns, said, late>>
      /\ Issue(op, id, about, Caller(c), "tool", 0)
  BY DEF CallTool, Works, history
<1>3. Waiting({"briefing", "tool"}) = {} /\ Waiting({"tool"}) = {}
  BY <1>2 DEF OneWaits, Waiting
<1>4. Caller(c) \in People \cup {NoPerson}
  BY <1>1 DEF Caller, Last, Typed
<1>5. /\ issued + 1 <= MaxTurns + MaxWork /\ issued \in Nat /\ 0 \in 0 .. MaxTurns
      /\ issued + 1 <= Len(turns) + work
  BY <1>2, MemoryAssumption DEF Room, Typed, Ids
<1>6. /\ issued' \in Ids /\ issued <= issued'
      /\ \E new \in Request :
           /\ requests' = requests \cup {new}
           /\ new.op = op /\ new.by = "tool" /\ new.turn = 0 /\ new.waiting /\ new.state = "sent"
           /\ new.ns = namespace_for(about) /\ new.home = home_namespace_for(Caller(c))
           /\ new.id <= issued'
           /\ new.id = IF op = "remember" THEN issued + 1 ELSE id
  BY <1>1, <1>2, <1>4, <1>5, IssueMakes
<1>7. PICK new \in Request :
           /\ requests' = requests \cup {new}
           /\ new.op = op /\ new.by = "tool" /\ new.turn = 0 /\ new.waiting /\ new.state = "sent"
           /\ new.ns = namespace_for(about) /\ new.home = home_namespace_for(Caller(c))
           /\ new.id <= issued'
           /\ new.id = IF op = "remember" THEN issued + 1 ELSE id
  BY <1>6
<1>8. issued' = IF op = "read" THEN issued ELSE issued + 1
  BY <1>2 DEF Issue
<1> HIDE DEF c
<1>9. Typed'
  BY <1>2, <1>6, <1>7 DEF Typed
<1>10. Room'
  BY <1>2, <1>5, <1>8, MemoryAssumption DEF Room
<1>11. Waiting({"briefing", "tool"})' = {new} /\ Waiting({"tool"})' = {new}
  BY <1>3, <1>7 DEF Waiting
<1>12. OneWaits'
  BY <1>2, <1>7, <1>11 DEF OneWaits
<1>13. Askers'
  BY <1>5, <1>7 DEF Askers
<1>14. Numbered'
  <2>1. \A n \in Nat : n <= issued => n <= issued'
    BY <1>5, <1>8
  <2>2. \A q \in requests : q.id \in Nat
    BY DEF Typed, Request, Ids
  <2>3. \A m \in memories : m.id \in Nat
    BY DEF Typed, Memory, Ids
  <2>4. \A k \in stored \cup forgotten : k[2] \in Nat
    BY DEF Typed, Ids
  <2> QED
    BY <1>2, <1>7, <2>1, <2>2, <2>3, <2>4 DEF Numbered
<1>15. Unknown'
  <2>1. \A q \in requests : q.op = "remember" /\ q.state = "sent" => q.id # new.id
    BY <1>5, <1>7 DEF Unknown, Askers, Numbered, KnownIds, Typed, Request, Ids
  <2>2. op = "remember" =>
          /\ \A q \in requests : q.id # new.id
          /\ \A m \in memories : m.id # new.id
          /\ \A k \in stored \cup forgotten : k[2] # new.id
    BY <1>5, <1>7 DEF Numbered, Typed, Request, Memory, Ids
  <2> QED
    BY <1>2, <1>7, <2>1, <2>2 DEF Unknown
<1>16. CallerIsLast'
  BY <1>2 DEF CallerIsLast
<1>17. CallerNeverOther'
  <2>1. new.home # {} => Caller(c) # NoPerson
    BY <1>7, HomeType
  <2>2. Caller(c) # NoPerson => Caller(c) = Newest(c)
    BY <1>1, NewestIsLast DEF Caller, CallerIsLast
  <2>3. Newest(Current.conversation)' = Newest(c)
    BY <1>2 DEF Newest, Current, c
  <2> QED
    BY <1>7, <1>11, <2>1, <2>2, <2>3 DEF CallerNeverOther
<1>18. AnswersAreTrue'
  BY <1>7, <1>11 DEF AnswersAreTrue, Key
<1>19. ToldIsTrue'
  BY <1>2 DEF ToldIsTrue
<1>20. CapturedOnce'
  BY <1>2, <1>7 DEF CapturedOnce, Faithful
<1> QED
  BY <1>9, <1>10, <1>12, <1>13, <1>14, <1>15, <1>16, <1>17, <1>18, <1>19, <1>20

\* The turn is over, and a task of its own captures it.
LEMMA EndTurnKeeps ==
    ASSUME Inv, phase # "idle", NEW captured \in {Current.content, FALSE}, EndTurn(captured)
    PROVE  Inv'
<1> USE DEF Inv
<1> DEFINE c == Current.conversation
           t == Len(turns)
<1>1. c \in Conversations /\ Current \in Turn /\ Current = turns[t] /\ t \in 1 .. MaxTurns
  BY CurrentType, MemoryAssumption DEF Room, Turn, Typed
<1>2. /\ phase = "model" /\ phase' = "idle"
      /\ UNCHANGED <<users, empty, memories, turns, said, stored, forgotten, late, work>>
  BY DEF EndTurn, history, told
<1>3. Waiting({"briefing", "tool"}) = {} /\ Waiting({"tool"}) = {}
  BY <1>2 DEF OneWaits, Waiting
<1>4. issued + 1 <= MaxTurns + MaxWork /\ issued \in Nat /\ issued + 1 <= t + work
  BY <1>1, <1>2, MemoryAssumption DEF Room, Typed, Ids
<1>5. CASE captured = FALSE
  <2>1. requests' = requests /\ issued' = issued
    BY <1>5 DEF EndTurn
  <2>2. Typed' /\ Askers' /\ Numbered' /\ Unknown' /\ CallerIsLast' /\ ToldIsTrue' /\ CapturedOnce'
    BY <1>2, <2>1 DEF Typed, Askers, Numbered, Unknown, CallerIsLast, ToldIsTrue, CapturedOnce,
                      Faithful
  <2>3. OneWaits' /\ CallerNeverOther' /\ AnswersAreTrue'
    BY <1>2, <1>3, <2>1 DEF OneWaits, CallerNeverOther, AnswersAreTrue, Waiting
  <2>4. Room'
    BY <1>1, <1>2, <1>4, <2>1, MemoryAssumption DEF Room
  <2> QED
    BY <2>2, <2>3, <2>4
<1>6. CASE captured # FALSE
  <2>1. captured /\ Current.content
    BY <1>1, <1>6 DEF Turn
  <2>2. Issue("remember", 0, AboutConversation(c), Current.author, "capture", t)
    BY <2>1 DEF EndTurn
  <2>3. /\ "remember" \in Ops /\ 0 \in KnownIds /\ AboutConversation(c) \in Abouts
        /\ Current.author \in People \cup {NoPerson} /\ "capture" \in {"briefing", "tool", "capture"}
        /\ t \in 0 .. MaxTurns
    BY <1>1 DEF Ops, Writes, KnownIds, Abouts, Turn
  <2> HIDE DEF c, t
  <2>4. /\ issued' \in Ids
        /\ \E new \in Request :
             /\ requests' = requests \cup {new}
             /\ new.op = "remember" /\ new.by = "capture" /\ new.turn = t /\ new.waiting
             /\ new.state = "sent"
             /\ new.ns = namespace_for(AboutConversation(c))
             /\ new.home = home_namespace_for(Current.author)
             /\ new.id = issued + 1
    BY <1>4, <2>2, <2>3, IssueMakes
  <2>5. PICK new \in Request :
             /\ requests' = requests \cup {new}
             /\ new.op = "remember" /\ new.by = "capture" /\ new.turn = t /\ new.waiting
             /\ new.state = "sent"
             /\ new.ns = namespace_for(AboutConversation(c))
             /\ new.home = home_namespace_for(Current.author)
             /\ new.id = issued + 1
    BY <2>4
  <2>6. issued' = issued + 1
    BY <2>2 DEF Issue
  <2>7. Typed'
    BY <1>2, <2>4, <2>5 DEF Typed
  <2>8. Room'
    BY <1>2, <1>4, <2>6, MemoryAssumption DEF Room, t
  <2>9. Waiting({"briefing", "tool"})' = {} /\ Waiting({"tool"})' = {}
    BY <1>3, <2>5 DEF Waiting
  <2>10. OneWaits' /\ CallerNeverOther' /\ AnswersAreTrue'
    BY <1>2, <2>9 DEF OneWaits, CallerNeverOther, AnswersAreTrue
  <2>11. Askers'
    BY <1>1, <1>4, <2>5 DEF Askers
  <2>12. /\ \A q \in requests : q.id \in Nat /\ q.id <= issued
         /\ \A m \in memories : m.id \in Nat /\ m.id <= issued
         /\ \A k \in stored \cup forgotten : k[2] \in Nat /\ k[2] <= issued
    BY DEF Numbered, Typed, Request, Memory, Ids
  <2>13. Numbered'
    BY <1>2, <1>4, <2>5, <2>6, <2>12 DEF Numbered
  <2>14. Unknown'
    <3>1. /\ \A q \in requests : q.id # new.id
          /\ \A m \in memories : m.id # new.id
          /\ \A k \in stored \cup forgotten : k[2] # new.id
      BY <1>4, <2>5, <2>12
    <3> QED
      BY <1>2, <2>5, <3>1 DEF Unknown
  <2>15. CallerIsLast' /\ ToldIsTrue'
    BY <1>2 DEF CallerIsLast, ToldIsTrue
  <2>16. CapturedOnce'
    <3>1. \A q \in requests : q.turn # 0 => Faithful(q)' /\ q.turn # t
      BY <1>1, <1>2 DEF CapturedOnce, Faithful, Typed, Request, t
    <3>2. \A m \in memories : m.turn # 0 => Faithful(m)' /\ m.turn # t
      BY <1>1, <1>2 DEF CapturedOnce, Faithful, Typed, Memory, t
    <3>3. Faithful(new)'
      BY <1>1, <1>2, <2>1, <2>5 DEF Faithful, c, t
    <3> QED
      BY <1>1, <1>2, <2>5, <3>1, <3>2, <3>3 DEF CapturedOnce
  <2> QED
    BY <2>7, <2>8, <2>10, <2>11, <2>13, <2>14, <2>15, <2>16
<1> QED
  BY <1>5, <1>6

\* A context without messages has no caller.
LEMMA ClearKeeps ==
    ASSUME Inv, NEW c \in Conversations, Clear(c)
    PROVE  Inv'
<1> USE DEF Inv
<1>1. /\ phase = "idle" /\ work < MaxWork /\ work' = work + 1
      /\ users' = [users EXCEPT ![c] = <<>>] /\ empty' = empty \cup {c}
      /\ UNCHANGED <<phase, requests, memories, turns, said, issued, stored, forgotten, late>>
  BY DEF Clear, Works, history, told
<1>2. Typed'
  BY <1>1 DEF Typed
<1>3. Room'
  BY <1>1, MemoryAssumption DEF Room, Typed, Ids
<1>4. CallerIsLast'
  BY <1>1 DEF CallerIsLast, Typed
<1>5. OneWaits' /\ Askers' /\ Numbered' /\ Unknown' /\ CallerNeverOther'
  BY <1>1 DEF OneWaits, Waiting, Askers, Numbered, Unknown, CallerNeverOther, Newest, Current
<1>6. AnswersAreTrue' /\ ToldIsTrue' /\ CapturedOnce'
  BY <1>1 DEF AnswersAreTrue, Waiting, Key, Table, ToldIsTrue, CapturedOnce, Faithful
<1> QED
  BY <1>2, <1>3, <1>4, <1>5, <1>6

\* After a restart nobody waits for what is on its way.
LEMMA CrashKeeps ==
    ASSUME Inv, Crash
    PROVE  Inv'
<1> USE DEF Inv
<1>1. /\ phase' = "idle" /\ work < MaxWork /\ work' = work + 1
      /\ users' = [c \in Conversations |-> <<>>] /\ empty' = Conversations
      /\ UNCHANGED <<memories, turns, said, issued, stored, forgotten, late>>
  BY DEF Crash, Works, history, told
<1>2. \A q \in requests' :
        /\ q \in Request /\ ~q.waiting
        /\ \E r \in requests : Same(r, q) /\ r.state = q.state /\ q = [r EXCEPT !.waiting = FALSE]
  <2> SUFFICES ASSUME NEW r \in requests, NEW q, q = [r EXCEPT !.waiting = FALSE]
               PROVE  q \in Request /\ ~q.waiting /\ Same(r, q) /\ r.state = q.state
    BY DEF Crash
  <2>1. r \in Request
    BY DEF Typed
  <2> QED
    BY <2>1 DEF Request, Same
<1>3. Typed'
  BY <1>1, <1>2 DEF Typed
<1>4. Room'
  BY <1>1, MemoryAssumption DEF Room, Typed, Ids
<1>5. OneWaits' /\ CallerNeverOther' /\ AnswersAreTrue'
  BY <1>1, <1>2 DEF OneWaits, Waiting, CallerNeverOther, AnswersAreTrue
<1>6. Askers' /\ Numbered'
  BY <1>1, <1>2 DEF Askers, Numbered, Same
<1>7. Unknown'
  <2> SUFFICES ASSUME NEW q \in requests', q.op = "remember", q.state = "sent"
               PROVE  /\ \A p \in requests' : p.id = q.id => p = q
                      /\ \A m \in memories : m.id # q.id
                      /\ \A k \in stored \cup forgotten : k[2] # q.id
    BY <1>1 DEF Unknown
  <2>1. PICK r \in requests : Same(r, q) /\ r.state = q.state /\ q = [r EXCEPT !.waiting = FALSE]
    BY <1>2
  <2>2. ASSUME NEW p \in requests', p.id = q.id
        PROVE  p = q
    <3>1. PICK o \in requests : Same(o, p) /\ p = [o EXCEPT !.waiting = FALSE]
      BY <1>2
    <3>2. o = r
      BY <2>1, <2>2, <3>1 DEF Same, Unknown
    <3> QED
      BY <2>1, <3>1, <3>2
  <2> QED
    BY <2>1, <2>2 DEF Unknown, Same
<1>8. CallerIsLast' /\ ToldIsTrue'
  BY <1>1 DEF CallerIsLast, ToldIsTrue
<1>9. CapturedOnce'
  <2>1. ASSUME NEW q \in requests', q.turn # 0
        PROVE  /\ Faithful(q)'
               /\ \A p \in requests' : p.turn = q.turn => p = q
               /\ q.state = "sent" => \A m \in memories : m.turn # q.turn
    <3>1. PICK r \in requests : Same(r, q) /\ r.state = q.state /\ q = [r EXCEPT !.waiting = FALSE]
      BY <1>2
    <3>2. Faithful(r) /\ r.turn # 0
      BY <2>1, <3>1 DEF CapturedOnce, Same
    <3>3. Faithful(q)'
      BY <1>1, <3>1, <3>2 DEF Faithful, Same
    <3>4. ASSUME NEW p \in requests', p.turn = q.turn
          PROVE  p = q
      <4>1. PICK o \in requests : Same(o, p) /\ p = [o EXCEPT !.waiting = FALSE]
        BY <1>2
      <4>2. o = r
        BY <3>1, <3>2, <3>4, <4>1 DEF Same, CapturedOnce
      <4> QED
        BY <3>1, <4>1, <4>2
    <3> QED
      BY <3>1, <3>2, <3>3, <3>4 DEF CapturedOnce, Same
  <2>2. \A m \in memories' : m.turn # 0 => Faithful(m)'
    BY <1>1 DEF CapturedOnce, Faithful
  <2> QED
    BY <1>1, <2>1, <2>2 DEF CapturedOnce
<1> QED
  BY <1>3, <1>4, <1>5, <1>6, <1>7, <1>8, <1>9

-----------------------------------------------------------------------------
(* Theorems.                                                               *)

\* A fresh process waits for nothing.
LEMMA InitInv == Init => Inv
<1> SUFFICES ASSUME Init PROVE Inv
  OBVIOUS
<1>1. issued \in Ids /\ 0 \in 0 .. MaxWork
  BY MemoryAssumption DEF Init, Ids
<1>2. Typed /\ Room
  BY <1>1, MemoryAssumption DEF Init, Typed, Room
<1>3. /\ OneWaits /\ Askers /\ Numbered /\ Unknown /\ CallerIsLast /\ CallerNeverOther
      /\ AnswersAreTrue /\ ToldIsTrue /\ CapturedOnce
  BY DEF Init, OneWaits, Waiting, Askers, Numbered, Unknown, CallerIsLast, CallerNeverOther,
         AnswersAreTrue, ToldIsTrue, CapturedOnce
<1> QED
  BY <1>2, <1>3 DEF Inv

\* Each operation keeps the invariant.
LEMMA NextInv == Inv /\ [Next]_vars => Inv'
<1> SUFFICES ASSUME Inv, [Next]_vars PROVE Inv'
  OBVIOUS
<1>1. ASSUME NEW c \in Conversations, NEW p \in People, NEW content \in BOOLEAN, Begin(c, p, content)
      PROVE  Inv'
  BY <1>1, BeginKeeps
<1>2. ASSUME phase # "idle", AgentStep
      PROVE  Inv'
  <2>1. CASE Enter
    BY <2>1, EnterKeeps
  <2>2. CASE Nudge
    BY <1>2, <2>2, NudgeKeeps
  <2>3. ASSUME NEW about \in Targets, Read(about)
        PROVE  Inv'
    <3>1. CallTool("read", 0, about) /\ stored' \subseteq stored /\ forgotten' \subseteq forgotten
      BY <2>3 DEF Read, told
    <3>2. "read" \in Ops /\ 0 \in KnownIds
      BY DEF Ops, KnownIds
    <3> QED
      BY <1>2, <3>1, <3>2, CallToolKeeps
  <2>4. ASSUME NEW about \in Targets, Remember(about)
        PROVE  Inv'
    <3>1. CallTool("remember", 0, about) /\ stored' \subseteq stored /\ forgotten' \subseteq forgotten
      BY <2>4 DEF Remember, told
    <3>2. "remember" \in Ops /\ 0 \in KnownIds
      BY DEF Ops, Writes, KnownIds
    <3> QED
      BY <1>2, <3>1, <3>2, CallToolKeeps
  <2>5. ASSUME NEW id \in KnownIds, NEW about \in Targets, Update(id, about)
        PROVE  Inv'
    <3>1. /\ CallTool("update", id, about) /\ stored' \subseteq stored /\ forgotten' \subseteq forgotten
          /\ <<namespace_for(about), id>> \notin forgotten'
      BY <2>5 DEF Update
    <3>2. "update" \in Ops
      BY DEF Ops, Writes
    <3> QED
      BY <1>2, <3>1, <3>2, CallToolKeeps
  <2>6. ASSUME NEW id \in KnownIds, NEW about \in Targets, Erase(id, about)
        PROVE  Inv'
    <3>1. /\ CallTool("forget", id, about) /\ stored' \subseteq stored /\ forgotten' \subseteq forgotten
          /\ <<namespace_for(about), id>> \notin stored'
      BY <2>6 DEF Erase
    <3>2. "forget" \in Ops
      BY DEF Ops, Writes
    <3> QED
      BY <1>2, <3>1, <3>2, CallToolKeeps
  <2>7. ASSUME NEW captured \in {Current.content, FALSE}, EndTurn(captured)
        PROVE  Inv'
    BY <1>2, <2>7, EndTurnKeeps
  <2> QED
    BY <1>2, <2>1, <2>2, <2>3, <2>4, <2>5, <2>6, <2>7 DEF AgentStep
<1>3. ASSUME NEW r \in requests, Deliver(r) \/ GiveUp(r) \/ Serve(r) \/ Decline(r) \/ Refuse(r)
      PROVE  Inv'
  BY <1>3, DeliverKeeps, GiveUpKeeps, ServeKeeps, DeclineKeeps, RefuseKeeps
<1>4. ASSUME NEW c \in Conversations, Clear(c)
      PROVE  Inv'
  BY <1>4, ClearKeeps
<1>5. CASE Crash
  BY <1>5, CrashKeeps
<1>6. CASE UNCHANGED vars
  <2>1. UNCHANGED <<users, empty, phase, requests, memories, turns, said, issued, stored, forgotten,
                    late, work>>
    BY <1>6 DEF vars, history, told
  <2>2. Typed' /\ Room' /\ OneWaits' /\ Askers' /\ Numbered' /\ Unknown' /\ CallerIsLast'
    BY <2>1 DEF Inv, Typed, Room, OneWaits, Waiting, Askers, Numbered, Unknown, CallerIsLast
  <2>3. CallerNeverOther' /\ AnswersAreTrue' /\ ToldIsTrue' /\ CapturedOnce'
    BY <2>1 DEF Inv, CallerNeverOther, Newest, Current, Waiting, AnswersAreTrue, Key, Table,
                ToldIsTrue, CapturedOnce, Faithful
  <2> QED
    BY <2>2, <2>3 DEF Inv
<1> QED
  BY <1>1, <1>2, <1>3, <1>4, <1>5, <1>6 DEF Next

\* The invariant holds in every reachable state.
THEOREM Invariance == Spec => []Inv
  BY InitInv, NextInv, PTL DEF Spec

\* Every reachable state of memory, client and agent is well typed, and the turn
\* waits for one request exactly while its phase says so.
THEOREM TypeCorrect == Spec => []TypeOK
<1>1. ASSUME Inv PROVE TypeOK
  <2> DEFINE W == Waiting({"briefing", "tool"})
  <2>1. CASE W = {}
    BY <1>1, <2>1, FS_EmptySet DEF Inv, Typed, OneWaits, TypeOK
  <2>2. CASE W # {}
    <3>1. PICK r \in W : TRUE
      BY <2>2
    <3>2. W = {r} /\ phase \in {"briefing", "tool"}
      BY <1>1, <3>1 DEF Inv, OneWaits, Waiting
    <3>3. Cardinality(W) = 1
      BY <3>2, FS_Singleton
    <3> QED
      BY <1>1, <3>2, <3>3 DEF Inv, Typed, TypeOK
  <2> QED
    BY <2>1, <2>2
<1> QED
  BY <1>1, Invariance, PTL

\* A tool acts for nobody or for the author of the newest message of its
\* conversation, whatever was nudged, compacted, cleared or lost before
\* (MemoryCallerContext::from_tool_context).
THEOREM CallerNeverOtherHolds == Spec => []CallerNeverOther
  BY Invariance, PTL DEF Inv

\* What a memory tool tells the model is so, but for what a request does whose
\* caller had given it up (the tools and the client of livvi-memini).
THEOREM ToldIsTrueHolds == Spec => []ToldIsTrue
  BY Invariance, PTL DEF Inv

\* A turn is captured once at most, as itself, for its author (the task spawned
\* at the end of run_turn).
THEOREM CapturesFaithfulHolds == Spec => []CapturesFaithful
<1>1. ASSUME Inv PROVE CapturesFaithful
  BY <1>1 DEF Inv, CapturedOnce, Faithful, CapturesFaithful
<1> QED
  BY <1>1, Invariance, PTL

=============================================================================
