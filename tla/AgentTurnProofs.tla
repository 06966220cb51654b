--------------------------- MODULE AgentTurnProofs ---------------------------
(***************************************************************************)
(* Proofs about AgentTurn, for every toolbox, compactor, bound and number  *)
(* of interrupts that TurnAssumption admits: type correctness, then the    *)
(* safety properties that the runs check.  Each of these has an inductive  *)
(* invariant of its own, an operator defined beside its theorem.  The last *)
(* two, pairing and reset, are each about one compactor; the other does    *)
(* not have them.                                                          *)
(***************************************************************************)
EXTENDS AgentTurn, SequenceTheorems, TLAPS

-----------------------------------------------------------------------------
(* Type correctness.                                                       *)

\* A plain message and a tool result are messages, and so is the message that
\* carries a response's calls.
LEMMA MessageTypes ==
    ASSUME resets \in Nat
    PROVE  /\ \A role \in Roles : Plain(role) \in Message
           /\ \A id \in CallIds : ToolResult(id) \in Message
           /\ \A calls \in Seq(Call) : AssistantCalls(calls) \in Message
<1>1. \A role \in Roles : Plain(role) \in Message
  BY DEF Plain, Message
<1>2. \A id \in CallIds : ToolResult(id) \in Message
  BY DEF ToolResult, Message, Roles
<1>3. ASSUME NEW calls \in Seq(Call)
      PROVE  AssistantCalls(calls) \in Message
  <2>1. /\ Len(calls) \in Nat
        /\ DOMAIN calls = 1 .. Len(calls)
        /\ \A i \in 1 .. Len(calls) : calls[i] \in Call
    BY LenProperties, ElementOfSeq
  <2>2. [i \in DOMAIN calls |-> calls[i].id] \in [1 .. Len(calls) -> CallIds]
    BY <2>1 DEF Call
  <2>3. [i \in DOMAIN calls |-> calls[i].id] \in Seq(CallIds)
    BY <2>1, <2>2, SeqDef
  <2> QED
    BY <2>3 DEF AssistantCalls, Message, Roles
<1> QED
  BY <1>1, <1>2, <1>3

\* The tail WindowCompactor keeps, behind its summary, is a sequence of
\* messages.
LEMMA WindowCompactType ==
    ASSUME resets \in Nat, NEW s \in Seq(Message)
    PROVE  WindowCompact(s) \in Seq(Message)
<1> DEFINE k == Keep(Len(s))
<1>1. k \in 0 .. Len(s)
  BY TurnAssumption DEF Keep, Smaller, Larger, TurnAssumption
<1>2. LastOf(s, k) \in Seq(Message)
  BY <1>1 DEF LastOf
<1>3. <<Plain("system")>> \in Seq(Message)
  BY MessageTypes DEF Roles
<1> QED
  BY <1>2, <1>3 DEF WindowCompact

\* Taking an interrupt keeps the queue's types.
LEMMA TakeType ==
    ASSUME TypeOK, NEW k \in Kinds, Take(k)
    PROVE  /\ inbox' \in Seq(Interrupt)
           /\ Len(inbox') <= QueueCapacity
           /\ stash' \in Seq(Interrupt)
           /\ Len(stash') <= 1
           /\ sent' \in Nat
           /\ started' \in Nat
<1> USE TurnAssumption DEF TurnAssumption
<1>1. inbox \in Seq(Interrupt) /\ stash \in Seq(Interrupt) /\ sent \in Nat
  BY DEF TypeOK
<1>2. CASE stash # <<>>
  <2>1. Head(stash) \in Interrupt
    BY <1>1, <1>2, HeadTailProperties
  <2> QED
    BY <1>1, <1>2, <2>1 DEF Take, RunLoopNext, TypeOK, Interrupt
<1>3. CASE stash = <<>>
  <2>1. inbox # <<>>
    BY <1>3 DEF Take
  <2>2. /\ Head(inbox) \in Interrupt
        /\ Tail(inbox) \in Seq(Interrupt)
        /\ Len(Tail(inbox)) = Len(inbox) - 1
    BY <1>1, <2>1, HeadTailProperties
  <2>3. Len(inbox) \in Nat /\ Len(inbox) <= QueueCapacity
    BY <1>1, LenProperties DEF TypeOK
  <2> QED
    BY <1>1, <1>3, <2>2, <2>3 DEF Take, RunLoopNext, TypeOK, Interrupt
<1> QED
  BY <1>2, <1>3

\* The turns after WithContent, and after Answer, are messages.
LEMMA AnswerTypes ==
    ASSUME TypeOK
    PROVE  /\ WithContent \in Seq(Message)
           /\ Answer \in Seq(Message)
           /\ Append(WithContent, Plain("nudge")) \in Seq(Message)
<1>1. /\ Plain("assistant") \in Message
      /\ Plain("nudge") \in Message
      /\ fresh \in Seq(Message)
  BY MessageTypes DEF TypeOK, Roles
<1>2. WithContent \in Seq(Message)
  BY <1>1, AppendProperties DEF WithContent
<1> QED
  BY <1>1, <1>2, AppendProperties DEF Answer

\* Nothing received yet is a response.
LEMMA EmptyResponse == NoResponse \in Response
<1>1. <<>> \in Seq(Call)
  BY EmptySeq
<1> QED
  BY <1>1 DEF NoResponse, Response

\* The initial state is of the right types.
LEMMA TypeInit == Init => TypeOK
<1>1. /\ <<>> \in Seq(Interrupt)
      /\ <<>> \in Seq(Message)
      /\ Len(<<>>) = 0
  BY EmptySeq
<1>2. NoResponse \in Response
  BY EmptyResponse
<1>3. 0 \in 0 .. MaxToolIterations /\ 0 \in 0 .. MaxNudges
  BY TurnAssumption DEF TurnAssumption
<1>4. QueueCapacity \in Nat
  BY TurnAssumption DEF TurnAssumption
<1> SUFFICES ASSUME Init PROVE TypeOK
  OBVIOUS
<1>5. Len(inbox) <= QueueCapacity /\ Len(stash) <= 1
  BY <1>1, <1>4 DEF Init
<1>6. phase \in Phases /\ phase # "tools"
  BY DEF Init, Phases
<1>7. /\ inbox \in Seq(Interrupt) /\ stash \in Seq(Interrupt)
      /\ base \in Seq(Message) /\ fresh \in Seq(Message) /\ history \in Seq(Message)
  BY <1>1 DEF Init
<1>8. summarised \in BOOLEAN /\ requiredUsed \in BOOLEAN /\ listening \in BOOLEAN
  BY ZenonT(10) DEF Init
<1>9. permitted \subseteq Tools /\ allowed \subseteq Tools /\ ran \subseteq Tools
  BY DEF Init
<1>10. /\ sent \in Nat /\ started \in Nat /\ briefings \in Nat /\ resets \in Nat
       /\ nextCall \in Nat \ {0} /\ requests \in Nat
       /\ toolIterations \in 0 .. MaxToolIterations /\ nudges \in 0 .. MaxNudges
  BY <1>3 DEF Init
<1> QED
  BY <1>2, <1>5, <1>6, <1>7, <1>8, <1>9, <1>10 DEF Init, TypeOK

\* A turn that ends leaves its variables well typed.
LEMMA EndTurnType ==
    ASSUME EndTurn
    PROVE  /\ phase' \in Phases /\ phase' # "tools"
           /\ allowed' \subseteq Tools
           /\ toolIterations' \in 0 .. MaxToolIterations
           /\ nudges' \in 0 .. MaxNudges
           /\ requiredUsed' \in BOOLEAN
           /\ listening' \in BOOLEAN
           /\ resp' \in Response
           /\ nextCall' \in Nat \ {0}
           /\ requests' \in Nat
           /\ ran' \subseteq Tools
<1>1. toolIterations' \in 0 .. MaxToolIterations /\ nudges' \in 0 .. MaxNudges
  BY TurnAssumption DEF EndTurn, TurnAssumption
<1>2. requiredUsed' \in BOOLEAN /\ listening' \in BOOLEAN
  BY ZenonT(10) DEF EndTurn
<1>3. phase' \in Phases /\ phase' # "tools"
  BY DEF EndTurn, Phases
<1>4. resp' \in Response
  BY EmptyResponse DEF EndTurn
<1>5. nextCall' \in Nat \ {0} /\ requests' \in Nat
  BY DEF EndTurn
<1>6. allowed' \subseteq Tools /\ ran' \subseteq Tools
  BY DEF EndTurn
<1> QED
  BY <1>1, <1>2, <1>3, <1>4, <1>5, <1>6

LEMMA TypeDispatch == TypeOK /\ Dispatch => TypeOK'
<1> SUFFICES ASSUME TypeOK, Dispatch PROVE TypeOK'
  OBVIOUS
<1> USE DEF convVars, turnVars, Phases
<1>1. ASSUME NEW k \in Kinds, ResolveFails(k) PROVE TypeOK'
  BY <1>1, TakeType DEF ResolveFails, TypeOK
<1>2. ASSUME NEW t \in Tools, AllowTool(t) PROVE TypeOK'
  BY <1>2, TakeType DEF AllowTool, TypeOK, Kinds
<1>3. ASSUME Reset PROVE TypeOK'
  BY <1>3, TakeType, EmptySeq DEF Reset, TypeOK, Kinds
<1>4. ASSUME BeginBareEvent PROVE TypeOK'
  BY <1>4, TakeType DEF BeginBareEvent, TypeOK, Kinds
<1>5. ASSUME BeginMessage PROVE TypeOK'
  <2>1. Append(fresh, Plain("user")) \in Seq(Message)
    BY MessageTypes, AppendProperties DEF TypeOK, Roles
  <2> QED
    BY <1>5, <2>1, TakeType DEF BeginMessage, TypeOK, Kinds
<1> QED
  BY <1>1, <1>2, <1>3, <1>4, <1>5 DEF Dispatch

LEMMA TypePrepare == TypeOK /\ Prepare => TypeOK'
<1> SUFFICES ASSUME TypeOK, Prepare PROVE TypeOK'
  OBVIOUS
<1> USE TurnAssumption DEF queueVars, convVars, turnVars, Phases, TurnAssumption
<1>0. /\ turns \in Seq(Message)
      /\ history \o fresh \in Seq(Message)
      /\ <<>> \in Seq(Message)
  BY ConcatProperties, EmptySeq DEF turns, TypeOK
<1>1. ASSUME NEW given \in BOOLEAN, Briefing(given) PROVE TypeOK'
  <2>1. Append(fresh, Plain("user")) \in Seq(Message)
    BY MessageTypes, AppendProperties DEF TypeOK, Roles
  <2> QED
    BY <1>1, <2>1 DEF Briefing, TypeOK
<1>2. ASSUME WindowCompacts PROVE TypeOK'
  BY <1>0, <1>2, WindowCompactType DEF WindowCompacts, TypeOK
<1>3. ASSUME NEW start \in 0 .. Len(history \o fresh), NEW rolls \in BOOLEAN,
             LcmCompacts(start, rolls)
      PROVE  TypeOK'
  <2> DEFINE merged == history \o fresh
             tail   == SubSeq(merged, start + 1, Len(merged))
  <2>1. tail \in Seq(Message)
    <3>1. Len(merged) \in Nat /\ \A i \in 1 .. Len(merged) : merged[i] \in Message
      BY <1>0, LenProperties, ElementOfSeq
    <3> QED
      BY <3>1, SubSeqProperties
  <2>2. <<Plain("system")>> \o tail \in Seq(Message)
    BY <2>1, MessageTypes, ConcatProperties DEF TypeOK, Roles
  <2> QED
    BY <1>0, <1>3, <2>1, <2>2 DEF LcmCompacts, TypeOK
<1>4. ASSUME NEW merges \in BOOLEAN, NEW some \in BOOLEAN, LcmFails(merges, some) PROVE TypeOK'
  BY <1>0, <1>4 DEF LcmFails, TypeOK
<1>5. ASSUME FetchPermissions PROVE TypeOK'
  BY <1>5, EmptyResponse DEF FetchPermissions, BeginRequest, TypeOK
<1>6. ASSUME PermissionsFail PROVE TypeOK'
  BY <1>6 DEF PermissionsFail, TypeOK
<1> QED
  BY <1>1, <1>2, <1>3, <1>4, <1>5, <1>6 DEF Prepare

LEMMA TypeReceive == TypeOK /\ (Receive \/ StashInterrupt) => TypeOK'
<1> SUFFICES ASSUME TypeOK, Receive \/ StashInterrupt PROVE TypeOK'
  OBVIOUS
<1> USE TurnAssumption DEF queueVars, convVars, Phases, TurnAssumption
<1>1. ASSUME ReceiveText \/ ReceiveThinking PROVE TypeOK'
  BY <1>1 DEF ReceiveText, ReceiveThinking, Received, TypeOK, Response
<1>2. ASSUME NEW c \in Call, ReceiveToolCall(c) PROVE TypeOK'
  <2>1. Append(resp.calls, c) \in Seq(Call)
    BY AppendProperties DEF TypeOK, Response
  <2>2. [resp EXCEPT !.calls = Append(@, c)] \in Response
    BY <2>1 DEF TypeOK, Response
  <2> QED
    BY <1>2, <2>2 DEF ReceiveToolCall, Received, TypeOK
<1>3. ASSUME StashInterrupt PROVE TypeOK'
  <2>1. /\ Head(inbox) \in Interrupt
        /\ Tail(inbox) \in Seq(Interrupt)
        /\ Len(Tail(inbox)) = Len(inbox) - 1
    BY <1>3, HeadTailProperties DEF StashInterrupt, TypeOK
  <2>2. Len(inbox) \in Nat
    BY LenProperties DEF TypeOK
  <2>3. <<Head(inbox)>> \in Seq(Interrupt) /\ Len(<<Head(inbox)>>) = 1
    BY <2>1
  <2>4. /\ inbox' \in Seq(Interrupt)
        /\ Len(inbox') <= QueueCapacity
        /\ stash' \in Seq(Interrupt)
        /\ Len(stash') <= 1
    BY <1>3, <2>1, <2>2, <2>3 DEF StashInterrupt, TypeOK
  <2> QED
    BY <1>3, <2>4 DEF StashInterrupt, TypeOK
<1> QED
  BY <1>1, <1>2, <1>3 DEF Receive

LEMMA TypeStreamEnds == TypeOK /\ (StreamEnds \/ RunTool) => TypeOK'
<1> SUFFICES ASSUME TypeOK, StreamEnds \/ RunTool PROVE TypeOK'
  OBVIOUS
<1> USE TurnAssumption DEF queueVars, Phases, TurnAssumption
<1>0. NoResponse \in Response
  BY EmptyResponse
<1>1. ASSUME StreamFails PROVE TypeOK'
  <2>1. Append(fresh, Plain("assistant")) \in Seq(Message)
    BY MessageTypes, AppendProperties DEF TypeOK, Roles
  <2> QED
    BY <1>1, <2>1, EndTurnType DEF StreamFails, TypeOK
<1>2. ASSUME StreamEndsWithCalls PROVE TypeOK'
  <2>1. Append(fresh, AssistantCalls(resp.calls)) \in Seq(Message)
    BY MessageTypes, AppendProperties DEF TypeOK, Response
  <2>2. Len(resp.calls) \in Nat /\ Len(resp.calls) >= 1
    BY <1>2, EmptySeq, LenProperties DEF StreamEndsWithCalls, RunsTools, TypeOK, Response
  <2> QED
    BY <1>2, <2>1, <2>2 DEF StreamEndsWithCalls, RunsTools, TypeOK
<1>3. ASSUME StreamEndsWithNudge PROVE TypeOK'
  BY <1>0, <1>3, AnswerTypes
     DEF StreamEndsWithNudge, RequiredNudge, ScratchpadNudge, BeginRequest, TypeOK
<1>4. ASSUME StreamEndsTurn PROVE TypeOK'
  BY <1>4, AnswerTypes, EndTurnType DEF StreamEndsTurn, TypeOK
<1>5. ASSUME RunTool PROVE TypeOK'
  <2> DEFINE c == resp.calls[nextCall]
  <2>1. c \in Call /\ Len(resp.calls) \in Nat
    BY <1>5, ElementOfSeq, LenProperties DEF RunTool, TypeOK, Response
  <2>2. Append(fresh, ToolResult(c.id)) \in Seq(Message)
    BY <2>1, MessageTypes, AppendProperties DEF TypeOK, Call
  <2>3. CASE nextCall < Len(resp.calls)
    BY <1>5, <2>1, <2>2, <2>3, SMTT(30) DEF RunTool, TypeOK
  <2>4. CASE ~(nextCall < Len(resp.calls))
    BY <1>0, <1>5, <2>1, <2>2, <2>4, SMTT(30) DEF RunTool, BeginRequest, TypeOK
  <2> QED
    BY <2>3, <2>4
<1> QED
  BY <1>1, <1>2, <1>3, <1>4, <1>5 DEF StreamEnds

\* Type correctness: the channel never exceeds its capacity, the stash never
\* holds two interrupts, and the counters of a turn stay within its limits.
THEOREM TypeCorrect == Spec => []TypeOK
<1>1. TypeOK /\ [Next]_vars => TypeOK'
  <2> SUFFICES ASSUME TypeOK, [Next]_vars PROVE TypeOK'
    OBVIOUS
  <2>1. ASSUME NEW k \in Kinds, Send(k) PROVE TypeOK'
    <3>1. [n |-> sent + 1, kind |-> k] \in Interrupt
      BY DEF Interrupt, TypeOK
    <3>2. /\ Append(inbox, [n |-> sent + 1, kind |-> k]) \in Seq(Interrupt)
          /\ Len(Append(inbox, [n |-> sent + 1, kind |-> k])) = Len(inbox) + 1
      BY <3>1, AppendProperties DEF TypeOK
    <3>3. Len(inbox) \in Nat
      BY LenProperties DEF TypeOK
    <3> QED
      BY <2>1, <3>2, <3>3, TurnAssumption
         DEF Send, TypeOK, convVars, turnVars, Phases, TurnAssumption
  <2>2. CASE UNCHANGED vars
    BY <2>2 DEF vars, queueVars, convVars, turnVars, TypeOK
  <2> QED
    BY <2>1, <2>2, TypeDispatch, TypePrepare, TypeReceive, TypeStreamEnds DEF Next
<1> QED
  BY <1>1, TypeInit, PTL DEF Spec

-----------------------------------------------------------------------------
(* RequestBudget.                                                          *)

\* Each request after the first is paid for by a tool iteration or a nudge;
\* outside the request loop the three counters are zero.
Paid ==
    /\ phase = "stream" => requests = toolIterations + nudges + 1
    /\ phase = "tools" => requests = toolIterations + nudges
    /\ phase \notin {"stream", "tools"} =>
        requests = 0 /\ toolIterations = 0 /\ nudges = 0

LEMMA PaidStep == TypeOK /\ Paid /\ [Next]_vars => Paid'
<1> SUFFICES ASSUME TypeOK, Paid, [Next]_vars PROVE Paid'
  OBVIOUS
<1> USE DEF queueVars, convVars, turnVars
<1>0. toolIterations \in Nat /\ nudges \in Nat /\ requests \in Nat
  BY TurnAssumption DEF TypeOK, TurnAssumption
<1>1. ASSUME NEW k \in Kinds, Send(k) PROVE Paid'
  BY <1>1 DEF Send, Paid
<1>2. ASSUME Dispatch PROVE Paid'
  BY <1>2 DEF Dispatch, ResolveFails, AllowTool, Reset, BeginBareEvent, BeginMessage,
              Take, Paid
<1>3. ASSUME Prepare PROVE Paid'
  <2>1. ASSUME FetchPermissions PROVE Paid'
    BY <1>0, <2>1 DEF FetchPermissions, BeginRequest, Paid
  <2>2. ASSUME ~FetchPermissions PROVE Paid'
    BY <1>3, <2>2 DEF Prepare, Briefing, WindowCompacts, LcmCompacts, LcmFails,
                      PermissionsFail, Paid
  <2> QED
    BY <2>1, <2>2
<1>4. ASSUME StashInterrupt \/ Receive PROVE Paid'
  BY <1>4 DEF StashInterrupt, Receive, ReceiveText, ReceiveThinking, ReceiveToolCall,
              Received, Paid
<1>5. ASSUME StreamEnds PROVE Paid'
  <2>1. ASSUME StreamFails \/ StreamEndsTurn PROVE Paid'
    BY <2>1 DEF StreamFails, StreamEndsTurn, EndTurn, Paid
  <2>2. ASSUME StreamEndsWithCalls PROVE Paid'
    BY <1>0, <2>2 DEF StreamEndsWithCalls, Paid
  <2>3. ASSUME StreamEndsWithNudge PROVE Paid'
    BY <1>0, <2>3 DEF StreamEndsWithNudge, BeginRequest, Paid
  <2> QED
    BY <1>5, <2>1, <2>2, <2>3 DEF StreamEnds
<1>6. ASSUME RunTool PROVE Paid'
  <2>1. CASE nextCall < Len(resp.calls)
    BY <1>6, <2>1 DEF RunTool, Paid
  <2>2. CASE ~(nextCall < Len(resp.calls))
    BY <1>0, <1>6, <2>2 DEF RunTool, BeginRequest, Paid
  <2> QED
    BY <2>1, <2>2
<1>7. CASE UNCHANGED vars
  BY <1>7 DEF vars, Paid
<1> QED
  BY <1>1, <1>2, <1>3, <1>4, <1>5, <1>6, <1>7 DEF Next

\* Whatever the model answers, a turn makes at most
\* MaxToolIterations + MaxNudges + 1 provider requests.
THEOREM RequestBudgetHolds == Spec => []RequestBudget
<1>1. Init => Paid
  BY DEF Init, Paid
<1>2. TypeOK /\ Paid => RequestBudget
  BY TurnAssumption DEF TypeOK, Paid, RequestBudget, Phases, TurnAssumption
<1> QED
  BY <1>1, <1>2, PaidStep, TypeCorrect, PTL DEF Spec

-----------------------------------------------------------------------------
(* DeniedToolsNeverRun.                                                    *)

\* What the turn was told is allowed is still permitted, because permissions
\* are never taken back, and so is what it has run.
Granted ==
    /\ allowed \subseteq permitted
    /\ ran \subseteq DefaultAllowed \cup permitted

LEMMA GrantedStep == Granted /\ [Next]_vars => Granted'
<1> SUFFICES ASSUME Granted, [Next]_vars PROVE Granted'
  OBVIOUS
<1> USE DEF queueVars, convVars, turnVars
<1>1. ASSUME NEW k \in Kinds, Send(k) PROVE Granted'
  BY <1>1 DEF Send, Granted
<1>2. ASSUME Dispatch PROVE Granted'
  BY <1>2 DEF Dispatch, ResolveFails, AllowTool, Reset, BeginBareEvent, BeginMessage, Granted
<1>3. ASSUME Prepare PROVE Granted'
  BY <1>3 DEF Prepare, Briefing, WindowCompacts, LcmCompacts, LcmFails, FetchPermissions,
              PermissionsFail, Granted
<1>4. ASSUME StashInterrupt \/ Receive PROVE Granted'
  BY <1>4 DEF StashInterrupt, Receive, ReceiveText, ReceiveThinking, ReceiveToolCall,
              Received, Granted
<1>5. ASSUME StreamEnds PROVE Granted'
  BY <1>5 DEF StreamEnds, StreamFails, StreamEndsTurn, EndTurn, StreamEndsWithCalls,
              StreamEndsWithNudge, Granted
<1>6. ASSUME RunTool PROVE Granted'
  BY <1>6 DEF RunTool, IsAllowed, Granted
<1>7. CASE UNCHANGED vars
  BY <1>7 DEF vars, Granted
<1> QED
  BY <1>1, <1>2, <1>3, <1>4, <1>5, <1>6, <1>7 DEF Next

\* A tool that is not allowed by default runs only in a conversation that was
\* granted it.
THEOREM DeniedToolsNeverRunHolds == Spec => []DeniedToolsNeverRun
<1>1. Init => Granted
  BY DEF Init, Granted
<1>2. Granted => DeniedToolsNeverRun
  BY DEF Granted, DeniedToolsNeverRun
<1> QED
  BY <1>1, <1>2, GrantedStep, PTL DEF Spec

-----------------------------------------------------------------------------
(* TurnLeavesAnswer.                                                       *)

\* Between turns the context is empty, or what was pushed last is an
\* assistant message.
AnswerLast ==
    phase = "idle" =>
        \/ base = <<>> /\ fresh = <<>>
        \/ fresh # <<>> /\ fresh[Len(fresh)].role = "assistant"

\* Whatever the response, the turn pushes an assistant message last.
LEMMA AnswerIsLast ==
    ASSUME TypeOK
    PROVE  /\ Answer # <<>> /\ Answer[Len(Answer)].role = "assistant"
           /\ LET s == Append(fresh, Plain("assistant"))
              IN  s # <<>> /\ s[Len(s)].role = "assistant"
<1>1. /\ Plain("assistant") \in Message
      /\ Plain("assistant").role = "assistant"
  BY MessageTypes DEF TypeOK, Roles, Plain
<1>2. ASSUME NEW s \in Seq(Message)
      PROVE  LET a == Append(s, Plain("assistant"))
             IN  a # <<>> /\ a[Len(a)].role = "assistant"
  <2>1. /\ Append(s, Plain("assistant"))[Len(s) + 1] = Plain("assistant")
        /\ Len(Append(s, Plain("assistant"))) = Len(s) + 1
        /\ Append(s, Plain("assistant")) # <<>>
    BY <1>1, AppendProperties
  <2> QED
    BY <1>1, <2>1
<1>3. fresh \in Seq(Message) /\ WithContent \in Seq(Message)
  BY AnswerTypes DEF TypeOK
<1>4. CASE resp.text
  BY <1>2, <1>3, <1>4 DEF Answer, WithContent, HasContent
<1>5. CASE ~resp.text
  BY <1>2, <1>3, <1>5 DEF Answer
<1> QED
  BY <1>2, <1>3, <1>4, <1>5

LEMMA AnswerLastStep == TypeOK /\ AnswerLast /\ [Next]_vars => AnswerLast'
<1> SUFFICES ASSUME TypeOK, AnswerLast, [Next]_vars PROVE AnswerLast'
  OBVIOUS
<1> USE DEF queueVars, convVars, turnVars
<1>1. ASSUME NEW k \in Kinds, Send(k) PROVE AnswerLast'
  BY <1>1 DEF Send, AnswerLast
<1>2. ASSUME Dispatch PROVE AnswerLast'
  BY <1>2 DEF Dispatch, ResolveFails, AllowTool, Reset, BeginBareEvent, BeginMessage,
              Take, AnswerLast
<1>3. ASSUME Prepare \/ StashInterrupt \/ Receive \/ RunTool PROVE phase' # "idle"
  BY <1>3 DEF Prepare, Briefing, WindowCompacts, LcmCompacts, LcmFails, FetchPermissions,
              BeginRequest, PermissionsFail, StashInterrupt, Receive, ReceiveText,
              ReceiveThinking, ReceiveToolCall, Received, RunTool
<1>4. ASSUME StreamFails \/ StreamEndsTurn PROVE AnswerLast'
  BY <1>4, AnswerIsLast DEF StreamFails, StreamEndsTurn, AnswerLast
<1>5. ASSUME StreamEndsWithCalls \/ StreamEndsWithNudge PROVE phase' # "idle"
  BY <1>5 DEF StreamEndsWithCalls, StreamEndsWithNudge, BeginRequest
<1>6. CASE UNCHANGED vars
  BY <1>6 DEF vars, AnswerLast
<1> QED
  BY <1>1, <1>2, <1>3, <1>4, <1>5, <1>6 DEF Next, StreamEnds, AnswerLast

\* However a turn ends, by an answer, an empty answer or a failed stream, the
\* context it leaves ends with an assistant message.
THEOREM TurnLeavesAnswerHolds == Spec => []TurnLeavesAnswer
<1>1. Init => AnswerLast
  BY DEF Init, AnswerLast
<1>2. TypeOK /\ AnswerLast => TurnLeavesAnswer
  <2> SUFFICES ASSUME TypeOK, AnswerLast, phase = "idle", turns # <<>>
               PROVE  turns[Len(turns)].role = "assistant"
    BY DEF TurnLeavesAnswer
  <2>1. base \in Seq(Message) /\ fresh \in Seq(Message)
    BY DEF TypeOK
  <2>2. fresh # <<>> /\ fresh[Len(fresh)].role = "assistant"
    BY <2>1, EmptySeq, ConcatEmptySeq DEF AnswerLast, turns
  <2>3. /\ Len(turns) = Len(base) + Len(fresh)
        /\ Len(base) \in Nat /\ Len(fresh) \in Nat /\ Len(fresh) > 0
    BY <2>1, <2>2, LenProperties, EmptySeq, ConcatProperties DEF turns
  <2>4. turns[Len(turns)] = fresh[Len(fresh)]
    BY <2>1, <2>3, ConcatProperties DEF turns
  <2> QED
    BY <2>2, <2>4
<1> QED
  BY <1>1, <1>2, AnswerLastStep, TypeCorrect, PTL DEF Spec

-----------------------------------------------------------------------------
(* InterruptsInOrder.                                                      *)

\* The agent listens for an interrupt only while it has stashed none.
StashFree == listening => stash = <<>>

LEMMA StashFreeStep == StashFree /\ [Next]_vars => StashFree'
<1> SUFFICES ASSUME StashFree, [Next]_vars PROVE StashFree'
  OBVIOUS
<1> USE DEF queueVars, convVars, turnVars
<1>1. ASSUME NEW k \in Kinds, Send(k) PROVE StashFree'
  BY <1>1 DEF Send, StashFree
<1>2. ASSUME Dispatch PROVE StashFree'
  BY <1>2 DEF Dispatch, ResolveFails, AllowTool, Reset, BeginBareEvent, BeginMessage,
              Take, RunLoopNext, StashFree
<1>3. ASSUME Prepare PROVE StashFree'
  BY <1>3 DEF Prepare, Briefing, WindowCompacts, LcmCompacts, LcmFails, FetchPermissions,
              BeginRequest, PermissionsFail, StashFree
<1>4. ASSUME StashInterrupt \/ Receive PROVE StashFree'
  BY <1>4 DEF StashInterrupt, Receive, ReceiveText, ReceiveThinking, ReceiveToolCall,
              Received, StashFree
<1>5. ASSUME StreamEnds PROVE StashFree'
  BY <1>5 DEF StreamEnds, StreamFails, StreamEndsTurn, EndTurn, StreamEndsWithCalls,
              StreamEndsWithNudge, BeginRequest, StashFree
<1>6. ASSUME RunTool PROVE StashFree'
  BY <1>6 DEF RunTool, BeginRequest, StashFree
<1>7. CASE UNCHANGED vars
  BY <1>7 DEF vars, StashFree
<1> QED
  BY <1>1, <1>2, <1>3, <1>4, <1>5, <1>6, <1>7 DEF Next

\* What the run loop takes is the head of the stash and the channel together.
LEMMA TakeIsHead ==
    ASSUME TypeOK, NEW k \in Kinds, Take(k)
    PROVE  /\ stash \o inbox # <<>>
           /\ started' = Head(stash \o inbox).n
           /\ stash' \o inbox' = Tail(stash \o inbox)
<1>1. stash \in Seq(Interrupt) /\ inbox \in Seq(Interrupt) /\ Len(stash) <= 1
  BY DEF TypeOK
<1>2. CASE stash = <<>>
  <2>1. stash \o inbox = inbox /\ inbox # <<>>
    BY <1>1, <1>2, ConcatEmptySeq DEF Take
  <2>2. Tail(inbox) \in Seq(Interrupt)
    BY <1>1, <2>1, HeadTailProperties
  <2>3. stash' = <<>> /\ inbox' = Tail(inbox) /\ started' = Head(inbox).n
    BY <1>2 DEF Take, RunLoopNext
  <2> QED
    BY <2>1, <2>2, <2>3, ConcatEmptySeq
<1>3. CASE stash # <<>>
  <2>1. Len(stash) = 1
    <3> DEFINE l == Len(stash)
    <3>1. l \in Nat \ {0} /\ l <= 1
      BY <1>1, <1>3, EmptySeq, Z3
    <3> HIDE DEF l
    <3>2. l = 1
      BY <3>1
    <3> QED
      BY <3>2 DEF l
  <2>2. stash' = <<>> /\ inbox' = inbox /\ started' = Head(stash).n
    BY <1>3 DEF Take, RunLoopNext
  <2>3. /\ Len(stash \o inbox) = 1 + Len(inbox)
        /\ Head(stash \o inbox) = Head(stash)
        /\ stash \o inbox # <<>>
        /\ stash \o inbox \in Seq(Interrupt) /\ Len(inbox) \in Nat
    <3>1. /\ Len(stash \o inbox) = 1 + Len(inbox)
          /\ Len(inbox) \in Nat
          /\ stash \o inbox \in Seq(Interrupt)
          /\ (stash \o inbox)[1] = stash[1]
      BY <1>1, <2>1, ConcatProperties, LenProperties
    <3>2. Len(stash \o inbox) # 0
      BY <3>1
    <3>3. stash \o inbox # <<>>
      BY <3>2, EmptySeq
    <3> QED
      BY <1>1, <1>3, <3>1, <3>3
  <2>4. Tail(stash \o inbox) = inbox
    <3> DEFINE p == stash \o inbox
    <3>1. p \in Seq(Interrupt) /\ Len(p) = 1 + Len(inbox) /\ Len(inbox) \in Nat
      BY <2>3
    <3>2. \A i \in 1 .. Len(inbox) : p[i + 1] = inbox[i]
      BY <1>1, <2>1, <3>1, ConcatProperties
    <3>3. /\ Tail(p) \in Seq(Interrupt)
          /\ Len(Tail(p)) = Len(inbox)
          /\ \A i \in 1 .. Len(inbox) : Tail(p)[i] = p[i + 1]
      BY <2>3, <3>1, HeadTailProperties
    <3> HIDE DEF p
    <3>4. Tail(p) = inbox
      BY <1>1, <3>2, <3>3, SeqEqual
    <3> QED
      BY <3>4 DEF p
  <2> QED
    BY <1>1, <2>2, <2>3, <2>4, ConcatEmptySeq
<1> QED
  BY <1>2, <1>3

\* Every step of the agent is a step of the queue, or leaves it alone.
LEMMA QueueStep == TypeOK /\ StashFree /\ [Next]_vars => [Queue!Next]_(Queue!vars)
<1> SUFFICES ASSUME TypeOK, StashFree, [Next]_vars PROVE [Queue!Next]_(Queue!vars)
  OBVIOUS
<1> USE DEF queueVars, convVars, turnVars, Queue!vars
<1>0. stash \in Seq(Interrupt) /\ inbox \in Seq(Interrupt)
  BY DEF TypeOK
<1>1. ASSUME NEW k \in Kinds, Send(k) PROVE Queue!Send(k)
  <2> DEFINE i == [n |-> sent + 1, kind |-> k]
  <2>1. i \in Interrupt
    BY DEF Interrupt, TypeOK
  <2>2. stash \o Append(inbox, i) = Append(stash \o inbox, i)
    <3>1. Append(inbox, i) = inbox \o <<i>>
      BY <1>0, <2>1, AppendIsConcat
    <3>2. Append(stash \o inbox, i) = (stash \o inbox) \o <<i>>
      BY <1>0, <2>1, ConcatProperties, AppendIsConcat
    <3>3. <<i>> \in Seq(Interrupt)
      BY <2>1
    <3> HIDE DEF i
    <3> QED
      BY <1>0, <3>1, <3>2, <3>3, ConcatAssociative
  <2> QED
    BY <1>1, <2>2 DEF Send, Queue!Send
<1>2. ASSUME Dispatch PROVE Queue!Begin
  <2>1. PICK k \in Kinds : Take(k)
    BY <1>2 DEF Dispatch, ResolveFails, AllowTool, Reset, BeginBareEvent, BeginMessage, Kinds
  <2>2. phase' # "dead"
    BY <1>2, <2>1 DEF Dispatch, ResolveFails, AllowTool, Reset, BeginBareEvent,
                      BeginMessage, Take
  <2> QED
    BY <2>1, <2>2, TakeIsHead DEF Queue!Begin, Take
<1>3. ASSUME PermissionsFail PROVE Queue!Stop
  BY <1>3 DEF PermissionsFail, Queue!Stop
<1>4. ASSUME Prepare, ~PermissionsFail PROVE UNCHANGED Queue!vars
  BY <1>4 DEF Prepare, Briefing, WindowCompacts, LcmCompacts, LcmFails, FetchPermissions,
              BeginRequest
<1>5. ASSUME StashInterrupt PROVE UNCHANGED Queue!vars
  <2>1. stash = <<>> /\ inbox # <<>>
    BY <1>5 DEF StashInterrupt, StashFree
  <2>2. <<Head(inbox)>> \o Tail(inbox) = inbox
    BY <1>0, <2>1
  <2>3. <<>> \o inbox = inbox
    BY <1>0, ConcatEmptySeq
  <2> QED
    BY <1>5, <2>1, <2>2, <2>3 DEF StashInterrupt
<1>6. ASSUME Receive \/ StreamEnds \/ RunTool PROVE UNCHANGED Queue!vars
  BY <1>6 DEF Receive, ReceiveText, ReceiveThinking, ReceiveToolCall, Received,
              StreamEnds, StreamFails, StreamEndsTurn, EndTurn, StreamEndsWithCalls,
              StreamEndsWithNudge, BeginRequest, RunTool
<1>7. CASE UNCHANGED vars
  BY <1>7 DEF vars
<1> QED
  BY <1>1, <1>2, <1>3, <1>4, <1>5, <1>6, <1>7 DEF Next, Queue!Next

\* The agent, its channel and its stash implement one FIFO queue: no interrupt
\* is lost, repeated or overtaken.
THEOREM QueueImplemented == Spec => InterruptsInOrder
<1>1. Init => StashFree /\ Queue!Init
  BY ConcatEmptySeq, EmptySeq DEF Init, StashFree, Queue!Init
<1> QED
  BY <1>1, QueueStep, StashFreeStep, TypeCorrect, PTL DEF Spec, InterruptsInOrder, Queue!Spec

-----------------------------------------------------------------------------
(* RequiredToolHonoured.                                                   *)

\* A required tool that this turn has run, or that iterations ran out for.
Used == ran \cap RequiredTools # {} \/ toolIterations = MaxToolIterations

\* `required_tool_used` is set when the calls are collected, before they run:
\* while they run, the required one has run or is still ahead.
UsedIsTrue ==
    /\ phase = "stream" /\ requiredUsed => Used
    /\ phase = "tools" /\ requiredUsed =>
        \/ Used
        \/ \E i \in nextCall .. Len(resp.calls) :
              resp.calls[i].name \in RequiredTools /\ IsAllowed(resp.calls[i].name)
    /\ phase \notin {"stream", "tools"} => ~requiredUsed

LEMMA UsedStep == TypeOK /\ UsedIsTrue /\ [Next]_vars => UsedIsTrue'
<1> SUFFICES ASSUME TypeOK, UsedIsTrue, [Next]_vars PROVE UsedIsTrue'
  OBVIOUS
<1> USE DEF queueVars, convVars, turnVars, IsAllowed
<1>0. /\ toolIterations \in 0 .. MaxToolIterations
      /\ resp.calls \in Seq(Call)
      /\ nextCall \in Nat \ {0}
  BY DEF TypeOK, Response
<1>1. ASSUME NEW k \in Kinds, Send(k) PROVE UsedIsTrue'
  BY <1>1 DEF Send, UsedIsTrue, Used
<1>2. ASSUME Dispatch PROVE UsedIsTrue'
  BY <1>2 DEF Dispatch, ResolveFails, AllowTool, Reset, BeginBareEvent, BeginMessage,
              Take, UsedIsTrue
<1>3. ASSUME Prepare PROVE UsedIsTrue'
  BY <1>3 DEF Prepare, Briefing, WindowCompacts, LcmCompacts, LcmFails, FetchPermissions,
              PermissionsFail, UsedIsTrue
<1>4. ASSUME StashInterrupt \/ Receive PROVE UsedIsTrue'
  BY <1>4 DEF StashInterrupt, Receive, ReceiveText, ReceiveThinking, ReceiveToolCall,
              Received, UsedIsTrue, Used
<1>5. ASSUME StreamFails \/ StreamEndsTurn PROVE UsedIsTrue'
  BY <1>5 DEF StreamFails, StreamEndsTurn, EndTurn, UsedIsTrue
<1>6. ASSUME StreamEndsWithCalls PROVE UsedIsTrue'
  <2>1. requiredUsed => ran \cap RequiredTools # {}
    BY <1>0, <1>6 DEF StreamEndsWithCalls, RunsTools, UsedIsTrue, Used
  <2>2. UsesRequiredTool(resp.calls) =>
           \E i \in 1 .. Len(resp.calls) :
              resp.calls[i].name \in RequiredTools /\ IsAllowed(resp.calls[i].name)
    BY <1>0, LenProperties DEF UsesRequiredTool
  <2> QED
    BY <1>6, <2>1, <2>2 DEF StreamEndsWithCalls, UsedIsTrue, Used
<1>7. ASSUME StreamEndsWithNudge PROVE UsedIsTrue'
  <2>1. UsesRequiredTool(resp.calls) => toolIterations = MaxToolIterations
    <3>1. UsesRequiredTool(resp.calls) => resp.calls # <<>>
      BY DEF UsesRequiredTool
    <3> QED
      BY <1>0, <1>7, <3>1, TurnAssumption DEF StreamEndsWithNudge, RunsTools, TurnAssumption
  <2> QED
    BY <1>7, <2>1 DEF StreamEndsWithNudge, BeginRequest, UsedIsTrue, Used
<1>8. ASSUME RunTool PROVE UsedIsTrue'
  <2> DEFINE c == resp.calls[nextCall]
  <2>1. /\ phase = "tools"
        /\ ran \subseteq ran'
        /\ UNCHANGED <<requiredUsed, allowed, toolIterations>>
        /\ c.name \in RequiredTools /\ IsAllowed(c.name) => c.name \in ran'
    BY <1>8, TurnAssumption DEF RunTool, TurnAssumption
  <2>2. Used => Used'
    BY <2>1 DEF Used
  <2>3. CASE nextCall < Len(resp.calls)
    <3>1. phase' = phase /\ resp' = resp /\ nextCall' = nextCall + 1
      BY <1>8, <2>3 DEF RunTool
    <3>2. \A i \in nextCall .. Len(resp.calls) :
            i = nextCall \/ i \in (nextCall + 1) .. Len(resp.calls)
      BY <1>0, LenProperties
    <3> QED
      BY <2>1, <2>2, <3>1, <3>2 DEF UsedIsTrue, Used
  <2>4. CASE ~(nextCall < Len(resp.calls))
    <3>1. phase' = "stream"
      BY <1>8, <2>4 DEF RunTool, BeginRequest
    <3>2. \A i \in nextCall .. Len(resp.calls) : i = nextCall
      BY <1>0, <2>4, LenProperties
    <3> QED
      BY <2>1, <2>2, <3>1, <3>2 DEF UsedIsTrue, Used
  <2> QED
    BY <2>3, <2>4
<1>9. CASE UNCHANGED vars
  BY <1>9 DEF vars, UsedIsTrue, Used
<1> QED
  BY <1>1, <1>2, <1>3, <1>4, <1>5, <1>6, <1>7, <1>8, <1>9 DEF Next, StreamEnds

\* A turn completes only after a required tool has run, unless its tool
\* iterations or its nudges are used up or no required tool is allowed.
THEOREM RequiredToolHonouredHolds == Spec => RequiredToolHonoured
<1>1. Init => UsedIsTrue
  BY DEF Init, UsedIsTrue
<1>2. TypeOK /\ UsedIsTrue =>
        (StreamEndsTurn =>
            \/ ran \cap RequiredTools # {}
            \/ toolIterations = MaxToolIterations
            \/ nudges = MaxNudges
            \/ \A t \in RequiredTools : ~IsAllowed(t))
  <2> SUFFICES ASSUME TypeOK, UsedIsTrue, StreamEndsTurn,
                      nudges # MaxNudges, \E t \in RequiredTools : IsAllowed(t)
               PROVE  ran \cap RequiredTools # {} \/ toolIterations = MaxToolIterations
    OBVIOUS
  <2>1. requiredUsed \/ UsesRequiredTool(resp.calls)
    BY TurnAssumption DEF StreamEndsTurn, RequiredNudge, TypeOK, TurnAssumption
  <2>2. UsesRequiredTool(resp.calls) => toolIterations = MaxToolIterations
    <3>1. UsesRequiredTool(resp.calls) => resp.calls # <<>>
      BY DEF UsesRequiredTool
    <3> QED
      BY <3>1, TurnAssumption DEF StreamEndsTurn, RunsTools, TypeOK, TurnAssumption
  <2> QED
    BY <2>1, <2>2 DEF StreamEndsTurn, UsedIsTrue, Used
<1> QED
  BY <1>1, <1>2, UsedStep, TypeCorrect, PTL DEF Spec, RequiredToolHonoured


-----------------------------------------------------------------------------
(* Sequences that pair tool calls and results.                             *)

\* Two paired sequences make one.
LEMMA PairedConcat ==
    ASSUME NEW s \in Seq(Message), NEW t \in Seq(Message), Paired(s), Paired(t)
    PROVE  Paired(s \o t)
<1> DEFINE u == s \o t
           n == Len(s)
<1>1. /\ n \in Nat /\ Len(t) \in Nat
      /\ Len(u) = n + Len(t)
      /\ \A i \in 1 .. n : u[i] = s[i]
      /\ \A i \in 1 .. Len(t) : u[n + i] = t[i]
  BY ConcatProperties, LenProperties
<1>2. /\ \A i \in 1 .. n : s[i] \in Message /\ Len(s[i].ids) \in Nat
      /\ \A i \in 1 .. Len(t) : t[i] \in Message /\ Len(t[i].ids) \in Nat
  <2>1. \A m \in Message : Len(m.ids) \in Nat
    BY LenProperties DEF Message
  <2> QED
    BY <2>1, ElementOfSeq
<1> SUFFICES ASSUME NEW i \in 1 .. Len(u)
             PROVE  /\ u[i].role = "calls" => Answered(u, i)
                    /\ u[i].role = "tool" => Owned(u, i)
  BY DEF Paired
<1> HIDE DEF u, n
<1>3. CASE i <= n
  <2>1. u[i] = s[i] /\ i \in 1 .. n
    BY <1>1, <1>3
  <2>2. ASSUME u[i].role = "calls" PROVE Answered(u, i)
    <3>1. Answered(s, i)
      BY <2>1, <2>2 DEF Paired, n
    <3>2. SUFFICES ASSUME NEW j \in 1 .. Len(u[i].ids)
                   PROVE  /\ i + j \in 1 .. Len(u)
                          /\ u[i + j].role = "tool"
                          /\ u[i + j].ids = <<u[i].ids[j]>>
      BY DEF Answered
    <3>3. j \in 1 .. Len(s[i].ids)
      BY <2>1
    <3>4. /\ i + j \in 1 .. n
          /\ s[i + j].role = "tool"
          /\ s[i + j].ids = <<s[i].ids[j]>>
      BY <3>1, <3>3 DEF Answered, n
    <3>5. u[i + j] = s[i + j] /\ i + j \in 1 .. Len(u)
      BY <1>1, <3>4
    <3> QED
      BY <2>1, <3>4, <3>5
  <2>3. ASSUME u[i].role = "tool" PROVE Owned(u, i)
    <3>1. PICK k \in 1 .. (i - 1) : s[k].role = "calls" /\ i - k <= Len(s[k].ids)
      BY <2>1, <2>3 DEF Paired, Owned, n
    <3>2. k \in 1 .. n
      BY <1>1, <2>1
    <3> QED
      BY <1>1, <3>1, <3>2 DEF Owned
  <2> QED
    BY <2>2, <2>3
<1>4. CASE i > n
  <2> DEFINE d == i - n
  <2>1. d \in 1 .. Len(t) /\ i = n + d /\ u[i] = t[d]
    BY <1>1, <1>4
  <2> HIDE DEF d
  <2>2. ASSUME u[i].role = "calls" PROVE Answered(u, i)
    <3>1. Answered(t, d)
      BY <2>1, <2>2 DEF Paired
    <3>2. SUFFICES ASSUME NEW j \in 1 .. Len(u[i].ids)
                   PROVE  /\ i + j \in 1 .. Len(u)
                          /\ u[i + j].role = "tool"
                          /\ u[i + j].ids = <<u[i].ids[j]>>
      BY DEF Answered
    <3>3. j \in 1 .. Len(t[d].ids) /\ j \in Nat
      BY <1>2, <2>1
    <3>4. /\ d + j \in 1 .. Len(t)
          /\ t[d + j].role = "tool"
          /\ t[d + j].ids = <<t[d].ids[j]>>
      BY <3>1, <3>3 DEF Answered
    <3>5. i + j = n + (d + j) /\ i + j \in 1 .. Len(u)
      BY <1>1, <2>1, <3>3, <3>4
    <3>6. u[i + j] = t[d + j]
      BY <1>1, <3>4, <3>5
    <3> QED
      BY <2>1, <3>4, <3>5, <3>6
  <2>3. ASSUME u[i].role = "tool" PROVE Owned(u, i)
    <3>1. PICK k \in 1 .. (d - 1) : t[k].role = "calls" /\ d - k <= Len(t[k].ids)
      BY <2>1, <2>3 DEF Paired, Owned
    <3>2. k \in 1 .. Len(t) /\ k \in Nat /\ d \in Nat /\ k < d
      BY <1>1, <2>1
    <3>3. u[n + k] = t[k]
      BY <1>1, <3>2
    <3>4. n + k \in 1 .. (i - 1) /\ i - (n + k) = d - k
      BY <1>1, <2>1, <3>2
    <3> QED
      BY <3>1, <3>3, <3>4 DEF Owned
  <2> QED
    BY <2>2, <2>3
<1> QED
  BY <1>1, <1>3, <1>4

\* A paired sequence stays paired from the first message that is not a result.
LEMMA PairedSuffix ==
    ASSUME NEW s \in Seq(Message), Paired(s),
           NEW start \in 0 .. Len(s),
           start # Len(s) => s[start + 1].role # "tool"
    PROVE  Paired(SubSeq(s, start + 1, Len(s)))
<1> DEFINE t == SubSeq(s, start + 1, Len(s))
<1>1. /\ Len(s) \in Nat
      /\ \A i \in 1 .. Len(s) : s[i] \in Message /\ Len(s[i].ids) \in Nat
  <2>1. \A m \in Message : Len(m.ids) \in Nat
    BY LenProperties DEF Message
  <2> QED
    BY <2>1, ElementOfSeq, LenProperties
<1>2. /\ Len(t) = Len(s) - start
      /\ \A i \in 1 .. Len(t) : t[i] = s[start + i]
  <2>1. \A i \in (start + 1) .. Len(s) : s[i] \in Message
    BY <1>1
  <2> QED
    BY <1>1, <2>1, SubSeqProperties
<1> SUFFICES ASSUME NEW i \in 1 .. Len(t)
             PROVE  /\ t[i].role = "calls" => Answered(t, i)
                    /\ t[i].role = "tool" => Owned(t, i)
  BY DEF Paired
<1> HIDE DEF t
<1> DEFINE p == start + i
<1>3. p \in 1 .. Len(s) /\ t[i] = s[p] /\ p > start
  BY <1>1, <1>2
<1>4. ASSUME t[i].role = "calls" PROVE Answered(t, i)
  <2>1. Answered(s, p)
    BY <1>3, <1>4 DEF Paired
  <2>2. ASSUME NEW j \in 1 .. Len(s[p].ids)
        PROVE  /\ i + j \in 1 .. Len(t)
               /\ t[i + j] = s[p + j]
    BY <1>1, <1>2, <1>3, <2>1 DEF Answered
  <2> QED
    BY <1>3, <2>1, <2>2 DEF Answered
<1>5. ASSUME t[i].role = "tool" PROVE Owned(t, i)
  <2>1. PICK k \in 1 .. (p - 1) : s[k].role = "calls" /\ p - k <= Len(s[k].ids)
    BY <1>3, <1>5 DEF Paired, Owned
  <2>2. CASE k > start
    <3>1. /\ k - start \in 1 .. (i - 1)
          /\ k - start \in 1 .. Len(t)
          /\ start + (k - start) = k
          /\ i - (k - start) = p - k
      BY <1>1, <1>2, <1>3, <2>2
    <3>2. t[k - start] = s[start + (k - start)]
      BY <1>2, <3>1
    <3> QED
      BY <2>1, <3>1, <3>2 DEF Owned
  <2>3. CASE k <= start
    <3> DEFINE j == start + 1 - k
    <3>1. k \in 1 .. Len(s)
      BY <1>1, <1>3
    <3>2. Answered(s, k) /\ Len(s[k].ids) \in Nat
      BY <1>1, <2>1, <3>1 DEF Paired
    <3>3. j \in 1 .. Len(s[k].ids) /\ k + j = start + 1
      BY <1>1, <1>3, <2>1, <2>3, <3>1, <3>2
    <3> HIDE DEF j
    <3>4. k + j \in 1 .. Len(s) /\ s[k + j].role = "tool"
      BY <3>2, <3>3 DEF Answered
    <3>5. s[start + 1].role = "tool" /\ start + 1 \in 1 .. Len(s)
      BY <3>3, <3>4
    <3>6. start # Len(s)
      BY <1>1, <3>5
    <3> QED
      BY <3>5, <3>6
  <2>4. k \in Int /\ start \in Int
    BY <1>1, <1>3
  <2> QED
    BY <2>2, <2>3, <2>4
<1> QED
  BY <1>4, <1>5

\* The empty sequence is paired, and a message that neither makes nor answers
\* calls keeps a sequence paired.
LEMMA PairedAppend ==
    /\ Paired(<<>>)
    /\ \A m \in Message : m.role \notin {"calls", "tool"} => Paired(<<m>>)
    /\ \A s \in Seq(Message), m \in Message :
          Paired(s) /\ m.role \notin {"calls", "tool"} => Paired(Append(s, m))
<1>1. Paired(<<>>)
  BY DEF Paired
<1>2. ASSUME NEW m \in Message, m.role \notin {"calls", "tool"} PROVE Paired(<<m>>)
  <2>1. Len(<<m>>) = 1 /\ <<m>>[1] = m
    OBVIOUS
  <2> QED
    BY <1>2, <2>1 DEF Paired
<1>3. ASSUME NEW s \in Seq(Message), NEW m \in Message, Paired(s),
             m.role \notin {"calls", "tool"}
      PROVE  Paired(Append(s, m))
  <2>1. Append(s, m) = s \o <<m>> /\ <<m>> \in Seq(Message)
    BY AppendIsConcat
  <2> QED
    BY <1>2, <1>3, <2>1, PairedConcat
<1> QED
  BY <1>1, <1>2, <1>3

-----------------------------------------------------------------------------
(* RequestsPaired.                                                         *)

\* s ends with a group whose calls carry these ids and of which n results
\* have been pushed; what precedes the group is paired.
OpenGroup(s, ids, n) ==
    LET g == Len(s) - n
    IN  /\ g \in 1 .. Len(s)
        /\ s[g].role = "calls"
        /\ s[g].ids = ids
        /\ \A j \in 1 .. n : s[g + j].role = "tool" /\ s[g + j].ids = <<ids[j]>>
        /\ Paired(SubSeq(s, 1, g - 1))

\* A group opens with the assistant's calls, takes one result at a time, and
\* is paired once all its calls are answered.
LEMMA GroupOpens ==
    ASSUME NEW s \in Seq(Message), Paired(s),
           NEW m \in Message, m.role = "calls"
    PROVE  OpenGroup(Append(s, m), m.ids, 0)
<1> DEFINE u == Append(s, m)
<1>1. /\ Len(s) \in Nat /\ Len(u) = Len(s) + 1
      /\ u[Len(s) + 1] = m
      /\ \A i \in 1 .. Len(s) : u[i] = s[i] /\ s[i] \in Message
  BY AppendProperties, LenProperties, ElementOfSeq
<1>2. SubSeq(u, 1, Len(s)) = s
  <2>1. /\ SubSeq(u, 1, Len(s)) \in Seq(Message)
        /\ Len(SubSeq(u, 1, Len(s))) = Len(s)
        /\ \A i \in 1 .. Len(s) : SubSeq(u, 1, Len(s))[i] = u[i]
    <3> HIDE DEF u
    <3>1. \A i \in 1 .. Len(s) : u[i] \in Message
      BY <1>1
    <3> QED
      BY <1>1, <3>1, SubSeqProperties
  <2> HIDE DEF u
  <2> QED
    BY <1>1, <2>1, SeqEqual
<1> HIDE DEF u
<1>3. /\ Len(u) - 0 = Len(s) + 1
      /\ Len(s) + 1 \in 1 .. Len(u)
      /\ (Len(s) + 1) - 1 = Len(s)
      /\ 1 .. 0 = {}
  BY <1>1
<1>4. OpenGroup(u, m.ids, 0)
  BY <1>1, <1>2, <1>3 DEF OpenGroup
<1> QED
  BY <1>4 DEF u

LEMMA GroupGrows ==
    ASSUME NEW s \in Seq(Message), NEW ids, NEW n \in Nat, OpenGroup(s, ids, n),
           NEW m \in Message, m.role = "tool", m.ids = <<ids[n + 1]>>
    PROVE  OpenGroup(Append(s, m), ids, n + 1)
<1> DEFINE u == Append(s, m)
           g == Len(s) - n
<1>1. /\ Len(s) \in Nat /\ Len(u) = Len(s) + 1
      /\ u[Len(s) + 1] = m
      /\ \A i \in 1 .. Len(s) : u[i] = s[i] /\ s[i] \in Message
  BY AppendProperties, LenProperties, ElementOfSeq
<1>2. g \in 1 .. Len(s) /\ Len(u) - (n + 1) = g
  BY <1>1 DEF OpenGroup
<1>3. SubSeq(u, 1, g - 1) = SubSeq(s, 1, g - 1)
  <2>1. g - 1 \in Nat /\ \A i \in 1 .. (g - 1) : u[i] = s[i] /\ s[i] \in Message
    BY <1>1, <1>2
  <2> HIDE DEF u, g
  <2>2. \A i \in 1 .. (g - 1) : u[i] \in Message
    BY <2>1
  <2>3. /\ SubSeq(u, 1, g - 1) \in Seq(Message)
        /\ Len(SubSeq(u, 1, g - 1)) = g - 1
        /\ \A i \in 1 .. (g - 1) : SubSeq(u, 1, g - 1)[i] = u[i]
    BY <1>2, <2>1, <2>2, SubSeqProperties
  <2>4. /\ SubSeq(s, 1, g - 1) \in Seq(Message)
        /\ Len(SubSeq(s, 1, g - 1)) = g - 1
        /\ \A i \in 1 .. (g - 1) : SubSeq(s, 1, g - 1)[i] = s[i]
    BY <1>2, <2>1, SubSeqProperties
  <2> QED
    BY <2>1, <2>3, <2>4, SeqEqual
<1>4. ASSUME NEW j \in 1 .. (n + 1)
      PROVE  u[g + j].role = "tool" /\ u[g + j].ids = <<ids[j]>>
  <2>1. CASE j = n + 1
    <3>1. g + j = Len(s) + 1
      BY <1>1, <2>1
    <3> HIDE DEF u, g
    <3> QED
      BY <1>1, <2>1, <3>1
  <2>2. CASE j # n + 1
    <3>1. j \in 1 .. n /\ g + j \in 1 .. Len(s)
      BY <1>1, <1>2, <2>2
    <3>2. s[g + j].role = "tool" /\ s[g + j].ids = <<ids[j]>>
      BY <3>1 DEF OpenGroup
    <3> HIDE DEF u, g
    <3> QED
      BY <1>1, <3>1, <3>2
  <2> QED
    BY <2>1, <2>2
<1>5. u[g].role = "calls" /\ u[g].ids = ids /\ g \in 1 .. Len(u)
  BY <1>1, <1>2 DEF OpenGroup
<1>6. Paired(SubSeq(u, 1, g - 1))
  BY <1>3 DEF OpenGroup
<1> HIDE DEF u, g
<1>7. OpenGroup(u, ids, n + 1)
  BY <1>2, <1>4, <1>5, <1>6 DEF OpenGroup
<1> QED
  BY <1>7 DEF u

LEMMA GroupCloses ==
    ASSUME NEW s \in Seq(Message), NEW ids \in Seq(CallIds),
           OpenGroup(s, ids, Len(ids))
    PROVE  Paired(s)
<1> DEFINE n == Len(ids)
           g == Len(s) - n
           t == SubSeq(s, g, Len(s))
<1>1. /\ Len(s) \in Nat /\ n \in Nat /\ g \in 1 .. Len(s)
      /\ \A i \in 1 .. Len(s) : s[i] \in Message
  BY LenProperties, ElementOfSeq DEF OpenGroup
<1>2. /\ t \in Seq(Message)
      /\ Len(t) = n + 1
      /\ \A i \in 1 .. (n + 1) : t[i] = s[g + i - 1]
  <2>1. \A i \in g .. Len(s) : s[i] \in Message
    BY <1>1
  <2>2. Len(s) - g + 1 = n + 1 /\ g <= Len(s) /\ g \in Int /\ Len(s) \in Int
    BY <1>1
  <2> HIDE DEF g, n
  <2> QED
    BY <2>1, <2>2, SubSeqProperties
<1>3. Paired(t)
  <2>1. t[1] = s[g] /\ \A j \in 1 .. n : t[1 + j] = s[g + j]
    <3>1. \A j \in 0 .. n : t[1 + j] = s[g + j]
      <4>1. \A j \in 0 .. n : 1 + j \in 1 .. (n + 1) /\ g + (1 + j) - 1 = g + j
        BY <1>1
      <4> HIDE DEF t, g, n
      <4> QED
        BY <1>2, <4>1
    <3> HIDE DEF t
    <3> QED
      BY <1>1, <3>1
  <2>2. t[1].role = "calls" /\ t[1].ids = ids
    BY <2>1 DEF OpenGroup
  <2>3. \A j \in 1 .. n : t[1 + j].role = "tool" /\ t[1 + j].ids = <<ids[j]>>
    BY <2>1 DEF OpenGroup
  <2> HIDE DEF t, g
  <2>4. Answered(t, 1)
    <3>1. \A j \in 1 .. Len(t[1].ids) : 1 + j \in 1 .. Len(t)
      BY <1>1, <1>2, <2>2
    <3> QED
      BY <2>2, <2>3, <3>1 DEF Answered
  <2>5. ASSUME NEW i \in 2 .. Len(t)
        PROVE  t[i].role = "tool" /\ Owned(t, i)
    <3>1. i - 1 \in 1 .. n /\ 1 + (i - 1) = i
      BY <1>1, <1>2
    <3>2. t[i].role = "tool"
      BY <2>3, <3>1
    <3>3. 1 \in 1 .. (i - 1) /\ i - 1 <= Len(t[1].ids)
      BY <1>1, <2>2, <3>1
    <3> QED
      BY <2>2, <3>2, <3>3 DEF Owned
  <2>6. \A i \in 1 .. Len(t) : i = 1 \/ i \in 2 .. Len(t)
    BY <1>1, <1>2
  <2> QED
    BY <2>2, <2>4, <2>5, <2>6 DEF Paired
<1>4. /\ Paired(SubSeq(s, 1, g - 1))
      /\ SubSeq(s, 1, g - 1) \in Seq(Message)
  <2>1. \A i \in 1 .. (g - 1) : s[i] \in Message
    BY <1>1
  <2>2. SubSeq(s, 1, g - 1) \in Seq(Message)
    BY <1>1, <2>1, SubSeqProperties
  <2> QED
    BY <2>2 DEF OpenGroup
<1>5. SubSeq(s, 1, g - 1) \o t = s
  <2>1. /\ g - 1 \in 0 .. Len(s) /\ Len(s) \in (g - 1) .. Len(s)
        /\ 1 \in 1 .. Len(s) + 1 /\ g - 1 \in 1 - 1 .. Len(s)
        /\ (g - 1) + 1 = g
    BY <1>1
  <2>2. SubSeq(s, 1, g - 1) \o SubSeq(s, (g - 1) + 1, Len(s)) = SubSeq(s, 1, Len(s))
    BY <2>1, ConcatAdjacentSubSeq
  <2> QED
    BY <2>1, <2>2, SubSeqFull
<1> HIDE DEF t, g
<1> QED
  BY <1>2, <1>3, <1>4, <1>5, PairedConcat

\* What the last compaction returned, what LCM keeps, and what was pushed since
\* are paired, except while the calls at the end of the context are run.
ContextPaired ==
    /\ Paired(base)
    /\ Paired(history)
    /\ phase # "tools" => Paired(fresh)
    /\ phase = "tools" => OpenGroup(fresh, AssistantCalls(resp.calls).ids, nextCall - 1)

\* The tail LCM returns is paired: it does not start with a result.
LEMMA LcmTailPaired ==
    ASSUME NEW s \in Seq(Message), Paired(s),
           NEW start \in 0 .. Len(s), IsSafeTailStart(s, start)
    PROVE  Paired(SubSeq(s, start + 1, Len(s)))
<1>1. Len(s) \in Nat
  BY LenProperties
<1>2. CASE start = Len(s)
  BY <1>2, PairedSuffix
<1>3. CASE start # Len(s) /\ start > 0
  BY <1>3, PairedSuffix DEF IsSafeTailStart
<1>4. CASE start # Len(s) /\ ~(start > 0)
  <2>1. start = 0 /\ 1 \in 1 .. Len(s)
    BY <1>1, <1>4
  <2>2. ~Owned(s, 1)
    BY DEF Owned
  <2>3. s[start + 1].role # "tool"
    BY <2>1, <2>2 DEF Paired
  <2> QED
    BY <2>3, PairedSuffix
<1> QED
  BY <1>2, <1>3, <1>4

LEMMA PairedPrepare ==
    ASSUME Compactor = "lcm", TypeOK, ContextPaired, Prepare
    PROVE  ContextPaired'
<1> USE DEF queueVars, convVars, turnVars
<1>0. /\ base \in Seq(Message) /\ fresh \in Seq(Message) /\ history \in Seq(Message)
      /\ resets \in Nat
      /\ Plain("user") \in Message /\ Plain("user").role = "user"
      /\ Plain("system") \in Message /\ Plain("system").role = "system"
  BY MessageTypes DEF TypeOK, Roles, Plain
<1>1. ASSUME NEW given \in BOOLEAN, Briefing(given) PROVE ContextPaired'
  BY <1>0, <1>1, PairedAppend DEF Briefing, ContextPaired
<1>2. ~WindowCompacts
  BY DEF WindowCompacts
<1>3. ASSUME NEW start \in 0 .. Len(history \o fresh), NEW rolls \in BOOLEAN,
             LcmCompacts(start, rolls)
      PROVE  ContextPaired'
  <2> DEFINE merged == history \o fresh
             tail   == SubSeq(merged, start + 1, Len(merged))
  <2>1. merged \in Seq(Message) /\ Paired(merged)
    BY <1>0, <1>3, ConcatProperties, PairedConcat DEF LcmCompacts, ContextPaired
  <2>2. Paired(tail)
    BY <1>3, <2>1, LcmTailPaired DEF LcmCompacts
  <2>3. tail \in Seq(Message)
    <3>1. Len(merged) \in Nat /\ \A i \in 1 .. Len(merged) : merged[i] \in Message
      BY <2>1, LenProperties, ElementOfSeq
    <3> QED
      BY <3>1, SubSeqProperties
  <2>4. Paired(<<Plain("system")>> \o tail)
    <3>1. Paired(<<Plain("system")>>) /\ <<Plain("system")>> \in Seq(Message)
      BY <1>0, PairedAppend
    <3> HIDE DEF tail
    <3> QED
      BY <2>2, <2>3, <3>1, PairedConcat
  <2>5. /\ base' \in {tail, <<Plain("system")>> \o tail}
        /\ history' \in {tail, merged}
        /\ fresh' = <<>>
        /\ phase' = "permissions"
    BY <1>3 DEF LcmCompacts
  <2> HIDE DEF merged, tail
  <2> QED
    BY <2>1, <2>2, <2>4, <2>5, PairedAppend DEF ContextPaired
<1>4. ASSUME NEW merges \in BOOLEAN, NEW some \in BOOLEAN, LcmFails(merges, some) PROVE ContextPaired'
  <2>1. Paired(fresh) /\ Paired(base) /\ Paired(history)
    BY <1>4 DEF LcmFails, ContextPaired
  <2>2. Paired(turns) /\ Paired(history \o fresh)
    BY <1>0, <2>1, PairedConcat DEF turns
  <2> QED
    BY <1>4, <2>1, <2>2, PairedAppend DEF LcmFails, ContextPaired
<1>5. ASSUME FetchPermissions \/ PermissionsFail PROVE ContextPaired'
  BY <1>5 DEF FetchPermissions, BeginRequest, PermissionsFail, ContextPaired
<1> QED
  BY <1>1, <1>2, <1>3, <1>4, <1>5 DEF Prepare

LEMMA PairedStreamEnds ==
    ASSUME TypeOK, ContextPaired, StreamEnds
    PROVE  ContextPaired'
<1> USE DEF queueVars
<1>0. /\ fresh \in Seq(Message) /\ WithContent \in Seq(Message)
      /\ resp.calls \in Seq(Call)
      /\ resets \in Nat
      /\ \A role \in {"assistant", "nudge"} : Plain(role) \in Message /\ Plain(role).role = role
  BY MessageTypes, AnswerTypes DEF TypeOK, Roles, Plain, Response
<1>1. Paired(fresh) /\ Paired(base) /\ Paired(history)
  BY DEF StreamEnds, StreamFails, StreamEndsWithCalls, StreamEndsWithNudge, StreamEndsTurn,
         ContextPaired
<1>2. Paired(WithContent)
  BY <1>0, <1>1, PairedAppend DEF WithContent
<1>3. ASSUME StreamFails PROVE ContextPaired'
  BY <1>0, <1>1, <1>3, PairedAppend DEF StreamFails, EndTurn, ContextPaired
<1>4. ASSUME StreamEndsWithCalls PROVE ContextPaired'
  <2>1. /\ AssistantCalls(resp.calls) \in Message
        /\ AssistantCalls(resp.calls).role = "calls"
    BY <1>0, MessageTypes DEF AssistantCalls
  <2>2. OpenGroup(Append(fresh, AssistantCalls(resp.calls)), AssistantCalls(resp.calls).ids, 0)
    BY <1>0, <1>1, <2>1, GroupOpens
  <2>3. AssistantCalls(resp.calls)' = AssistantCalls(resp.calls)
    BY <1>4 DEF StreamEndsWithCalls, AssistantCalls
  <2> QED
    BY <1>1, <1>4, <2>2, <2>3 DEF StreamEndsWithCalls, ContextPaired
<1>5. ASSUME StreamEndsWithNudge PROVE ContextPaired'
  BY <1>0, <1>1, <1>2, <1>5, PairedAppend
     DEF StreamEndsWithNudge, BeginRequest, ContextPaired
<1>6. ASSUME StreamEndsTurn PROVE ContextPaired'
  <2>1. Paired(Answer)
    BY <1>0, <1>2, PairedAppend DEF Answer
  <2> QED
    BY <1>1, <1>6, <2>1 DEF StreamEndsTurn, EndTurn, ContextPaired
<1> QED
  BY <1>3, <1>4, <1>5, <1>6 DEF StreamEnds

LEMMA PairedRunTool ==
    ASSUME TypeOK, ContextPaired, RunTool
    PROVE  ContextPaired'
<1> DEFINE c   == resp.calls[nextCall]
           ids == AssistantCalls(resp.calls).ids
<1>0. /\ fresh \in Seq(Message) /\ resp.calls \in Seq(Call)
      /\ resets \in Nat /\ nextCall \in Nat \ {0} /\ nextCall <= Len(resp.calls)
      /\ phase = "tools"
  BY DEF TypeOK, Response, RunTool
<1>1. c \in Call /\ Len(resp.calls) \in Nat /\ nextCall \in 1 .. Len(resp.calls)
  BY <1>0, ElementOfSeq, LenProperties
<1>2. /\ ToolResult(c.id) \in Message
      /\ ToolResult(c.id).role = "tool"
      /\ ToolResult(c.id).ids = <<c.id>>
  BY <1>0, <1>1, MessageTypes DEF ToolResult, Call
<1>3. /\ ids \in Seq(CallIds)
      /\ Len(ids) = Len(resp.calls)
      /\ ids[nextCall] = c.id
  <2>1. AssistantCalls(resp.calls) \in Message
    BY <1>0, MessageTypes
  <2>2. DOMAIN resp.calls = 1 .. Len(resp.calls)
    BY <1>0, LenProperties
  <2>3. ids = [i \in 1 .. Len(resp.calls) |-> resp.calls[i].id]
    BY <2>2 DEF AssistantCalls
  <2>4. Len(ids) = Len(resp.calls)
    BY <1>1, <2>3
  <2>5. ids[nextCall] = c.id
    BY <1>1, <2>3
  <2> QED
    BY <2>1, <2>4, <2>5 DEF Message
<1>4. OpenGroup(fresh, ids, nextCall - 1)
  BY <1>0 DEF ContextPaired
<1>5. OpenGroup(fresh', ids, nextCall)
  <2>1. fresh' = Append(fresh, ToolResult(c.id))
    BY DEF RunTool
  <2>2. nextCall - 1 \in Nat /\ (nextCall - 1) + 1 = nextCall
    BY <1>0
  <2>3. ToolResult(c.id).ids = <<ids[(nextCall - 1) + 1]>>
    BY <1>2, <1>3, <2>2
  <2> HIDE DEF ids, c
  <2>4. OpenGroup(Append(fresh, ToolResult(c.id)), ids, (nextCall - 1) + 1)
    BY <1>0, <1>2, <1>4, <2>2, <2>3, GroupGrows
  <2> QED
    BY <2>1, <2>2, <2>4
<1>6. UNCHANGED <<base, history, resets>> /\ Paired(base) /\ Paired(history)
  BY DEF RunTool, queueVars, ContextPaired
<1>7. CASE nextCall < Len(resp.calls)
  <2>1. phase' = "tools" /\ nextCall' = nextCall + 1 /\ resp' = resp
    BY <1>0, <1>7 DEF RunTool
  <2>2. AssistantCalls(resp.calls)' = AssistantCalls(resp.calls)
    BY <1>6, <2>1 DEF AssistantCalls
  <2>3. nextCall' - 1 = nextCall
    BY <1>0, <2>1
  <2> QED
    BY <1>5, <1>6, <2>1, <2>2, <2>3 DEF ContextPaired
<1>8. CASE ~(nextCall < Len(resp.calls))
  <2>1. phase' = "stream"
    BY <1>8 DEF RunTool, BeginRequest
  <2>2. nextCall = Len(ids)
    BY <1>1, <1>3, <1>8
  <2>3. fresh' \in Seq(Message)
    BY TypeStreamEnds DEF TypeOK
  <2> HIDE DEF ids
  <2>4. Paired(fresh')
    BY <1>3, <1>5, <2>2, <2>3, GroupCloses
  <2> QED
    BY <1>6, <2>1, <2>4 DEF ContextPaired
<1> QED
  BY <1>7, <1>8

LEMMA PairedStep ==
    ASSUME Compactor = "lcm"
    PROVE  TypeOK /\ ContextPaired /\ [Next]_vars => ContextPaired'
<1> SUFFICES ASSUME TypeOK, ContextPaired, [Next]_vars PROVE ContextPaired'
  OBVIOUS
<1> USE DEF queueVars, convVars, turnVars
<1>1. ASSUME NEW k \in Kinds, Send(k) PROVE ContextPaired'
  BY <1>1 DEF Send, ContextPaired, AssistantCalls
<1>2. ASSUME Dispatch PROVE ContextPaired'
  <2>1. /\ Plain("user") \in Message /\ Plain("user").role = "user"
        /\ fresh \in Seq(Message)
    BY MessageTypes DEF TypeOK, Roles, Plain
  <2> QED
    BY <1>2, <2>1, PairedAppend
       DEF Dispatch, ResolveFails, AllowTool, Reset, BeginBareEvent, BeginMessage, Take,
           ContextPaired
<1>3. ASSUME StashInterrupt \/ Receive PROVE ContextPaired'
  BY <1>3 DEF StashInterrupt, Receive, ReceiveText, ReceiveThinking, ReceiveToolCall,
              Received, ContextPaired
<1>4. CASE UNCHANGED vars
  BY <1>4 DEF vars, ContextPaired, AssistantCalls
<1> QED
  BY <1>1, <1>2, <1>3, <1>4, PairedPrepare, PairedStreamEnds, PairedRunTool DEF Next

\* With the LCM compactor every request to the provider answers each of its
\* tool calls once, in order, and holds no result without its call, whatever
\* the model calls and however the context is compacted or the store fails.
THEOREM RequestsPairedWithLcm ==
    ASSUME Compactor = "lcm"
    PROVE  Spec => []RequestsPaired
<1>1. Init => ContextPaired
  BY PairedAppend DEF Init, ContextPaired
<1>2. TypeOK /\ ContextPaired => RequestsPaired
  BY PairedConcat DEF TypeOK, ContextPaired, RequestsPaired, turns
<1>3. TypeOK /\ ContextPaired /\ [Next]_vars => ContextPaired'
  BY PairedStep
<1> QED
  BY <1>1, <1>2, <1>3, TypeCorrect, PTL DEF Spec

-----------------------------------------------------------------------------
(* ResetForgets.                                                           *)

\* Every message of s but a summary was pushed since the last reset.
Current(s) == \A i \in 1 .. Len(s) : s[i].role # "system" => s[i].epoch = resets

LEMMA CurrentConcat ==
    ASSUME NEW s \in Seq(Message), NEW t \in Seq(Message), Current(s), Current(t)
    PROVE  Current(s \o t)
<1>1. /\ Len(s) \in Nat /\ Len(t) \in Nat
      /\ Len(s \o t) = Len(s) + Len(t)
      /\ \A i \in 1 .. Len(s) + Len(t) :
            (s \o t)[i] = IF i <= Len(s) THEN s[i] ELSE t[i - Len(s)]
  BY ConcatProperties, LenProperties
<1>2. ASSUME NEW i \in 1 .. Len(s \o t), (s \o t)[i].role # "system"
      PROVE  (s \o t)[i].epoch = resets
  <2>1. CASE i <= Len(s)
    <3>1. i \in 1 .. Len(s) /\ (s \o t)[i] = s[i]
      BY <1>1, <2>1
    <3> QED
      BY <1>2, <3>1 DEF Current
  <2>2. CASE ~(i <= Len(s))
    <3>1. i - Len(s) \in 1 .. Len(t) /\ (s \o t)[i] = t[i - Len(s)]
      BY <1>1, <2>2
    <3> QED
      BY <1>2, <3>1 DEF Current
  <2> QED
    BY <2>1, <2>2
<1> QED
  BY <1>2 DEF Current

LEMMA CurrentAppend ==
    ASSUME NEW s \in Seq(Message), Current(s), NEW m \in Message, m.epoch = resets
    PROVE  Current(Append(s, m))
<1>1. /\ Len(s) \in Nat
      /\ Len(Append(s, m)) = Len(s) + 1
      /\ \A i \in 1 .. Len(s) : Append(s, m)[i] = s[i]
      /\ Append(s, m)[Len(s) + 1] = m
  BY AppendProperties, LenProperties
<1>2. \A i \in 1 .. Len(s) + 1 : i \in 1 .. Len(s) \/ i = Len(s) + 1
  BY <1>1
<1> QED
  BY <1>1, <1>2 DEF Current

\* What WindowCompactor keeps, behind its summary, is current.
LEMMA WindowCurrent ==
    ASSUME NEW s \in Seq(Message), Current(s), resets \in Nat
    PROVE  Current(WindowCompact(s))
<1> DEFINE k == Keep(Len(s))
           t == LastOf(s, k)
<1>1. Len(s) \in Nat /\ k \in 0 .. Len(s)
  BY TurnAssumption, LenProperties DEF Keep, Smaller, Larger, TurnAssumption
<1>2. /\ t \in Seq(Message)
      /\ Len(t) = k
      /\ \A i \in 1 .. k : t[i] = s[Len(s) - k + i]
  <2> HIDE DEF k
  <2>1. \A i \in (Len(s) - k + 1) .. Len(s) : s[i] \in Message
    BY <1>1, ElementOfSeq
  <2>2. /\ SubSeq(s, Len(s) - k + 1, Len(s)) \in Seq(Message)
        /\ Len(SubSeq(s, Len(s) - k + 1, Len(s))) = k
        /\ \A i \in 1 .. k : SubSeq(s, Len(s) - k + 1, Len(s))[i] = s[(Len(s) - k + 1) + i - 1]
    BY <1>1, <2>1, SubSeqProperties
  <2>3. \A i \in 1 .. k : (Len(s) - k + 1) + i - 1 = Len(s) - k + i
    BY <1>1
  <2> QED
    BY <2>2, <2>3 DEF LastOf
<1>3. Current(t)
  <2> HIDE DEF t, k
  <2>1. \A i \in 1 .. Len(t) : t[i] = s[Len(s) - k + i] /\ Len(s) - k + i \in 1 .. Len(s)
    BY <1>1, <1>2
  <2> QED
    BY <2>1 DEF Current
<1>4. /\ <<Plain("system")>> \in Seq(Message)
      /\ Current(<<Plain("system")>>)
  <2>1. Plain("system") \in Message /\ Plain("system").role = "system"
    BY MessageTypes DEF Roles, Plain
  <2> HIDE DEF t, k
  <2> QED
    BY <2>1 DEF Current
<1>5. Current(<<Plain("system")>> \o t)
  <2> HIDE DEF t, k
  <2> QED
    BY <1>2, <1>3, <1>4, CurrentConcat
<1> QED
  BY <1>5 DEF WindowCompact

\* Every message of the context was pushed since the last reset.
ContextCurrent == Current(base) /\ Current(fresh)

LEMMA CurrentStep ==
    ASSUME Compactor = "window"
    PROVE  TypeOK /\ ContextCurrent /\ [Next]_vars => ContextCurrent'
<1> SUFFICES ASSUME TypeOK, ContextCurrent, [Next]_vars PROVE ContextCurrent'
  OBVIOUS
<1> USE DEF queueVars, convVars, turnVars
<1>0. /\ base \in Seq(Message) /\ fresh \in Seq(Message) /\ WithContent \in Seq(Message)
      /\ resp.calls \in Seq(Call) /\ resets \in Nat
      /\ \A role \in Roles : Plain(role) \in Message /\ Plain(role).epoch = resets
      /\ Current(base) /\ Current(fresh)
  BY MessageTypes, AnswerTypes DEF TypeOK, Plain, Response, ContextCurrent
<1>1. ASSUME UNCHANGED <<base, fresh, resets>> PROVE ContextCurrent'
  BY <1>0, <1>1 DEF ContextCurrent, Current
<1>2. ASSUME NEW s \in Seq(Message), Current(s), base' = base, resets' = resets, fresh' = s
      PROVE  ContextCurrent'
  BY <1>0, <1>2 DEF ContextCurrent, Current
<1>3. ASSUME NEW role \in Roles PROVE Current(Append(fresh, Plain(role)))
  BY <1>0, CurrentAppend
<1>4. ASSUME Dispatch PROVE ContextCurrent'
  <2>1. ASSUME Reset PROVE ContextCurrent'
    BY <2>1 DEF Reset, ContextCurrent, Current
  <2>2. ASSUME BeginMessage PROVE ContextCurrent'
    <3>1. Append(fresh, Plain("user")) \in Seq(Message) /\ Current(Append(fresh, Plain("user")))
      BY <1>0, <1>3, AppendProperties DEF Roles
    <3> QED
      BY <1>1, <1>2, <2>2, <3>1 DEF BeginMessage
  <2> QED
    BY <1>1, <1>4, <2>1, <2>2 DEF Dispatch, ResolveFails, AllowTool, BeginBareEvent
<1>5. ASSUME Prepare PROVE ContextCurrent'
  <2>1. ASSUME NEW given \in BOOLEAN, Briefing(given) PROVE ContextCurrent'
    <3>1. Append(fresh, Plain("user")) \in Seq(Message) /\ Current(Append(fresh, Plain("user")))
      BY <1>0, <1>3, AppendProperties DEF Roles
    <3> QED
      BY <1>2, <2>1, <3>1 DEF Briefing
  <2>2. ASSUME WindowCompacts PROVE ContextCurrent'
    <3>1. turns \in Seq(Message) /\ Current(turns)
      BY <1>0, ConcatProperties, CurrentConcat DEF turns
    <3>2. Current(WindowCompact(turns))
      BY <1>0, <3>1, WindowCurrent
    <3>3. base' = WindowCompact(turns) /\ fresh' = <<>> /\ resets' = resets
      BY <2>2 DEF WindowCompacts
    <3> QED
      BY <3>2, <3>3 DEF ContextCurrent, Current
  <2>3. ASSUME FetchPermissions \/ PermissionsFail PROVE ContextCurrent'
    BY <1>1, <2>3 DEF FetchPermissions, PermissionsFail
  <2> QED
    BY <1>5, <2>1, <2>2, <2>3 DEF Prepare, LcmCompacts, LcmFails
<1>6. ASSUME Receive \/ StashInterrupt \/ \E k \in Kinds : Send(k) PROVE ContextCurrent'
  BY <1>1, <1>6 DEF Receive, ReceiveText, ReceiveThinking, ReceiveToolCall, Received,
                    StashInterrupt, Send
<1>7. ASSUME StreamEnds PROVE ContextCurrent'
  <2>1. Current(WithContent)
    BY <1>0, <1>3 DEF WithContent, Roles
  <2>2. \A role \in Roles : /\ Append(WithContent, Plain(role)) \in Seq(Message)
                            /\ Current(Append(WithContent, Plain(role)))
    BY <1>0, <2>1, AppendProperties, CurrentAppend
  <2>3. Answer \in Seq(Message) /\ Current(Answer)
    BY <1>0, <2>1, <2>2 DEF Answer, Roles
  <2>4. ASSUME StreamFails PROVE ContextCurrent'
    <3>1. /\ Append(fresh, Plain("assistant")) \in Seq(Message)
          /\ Current(Append(fresh, Plain("assistant")))
      BY <1>0, <1>3, AppendProperties DEF Roles
    <3> QED
      BY <1>2, <2>4, <3>1 DEF StreamFails
  <2>5. ASSUME StreamEndsWithCalls PROVE ContextCurrent'
    <3>1. /\ AssistantCalls(resp.calls) \in Message
          /\ AssistantCalls(resp.calls).epoch = resets
      BY <1>0, MessageTypes DEF AssistantCalls
    <3>2. /\ Append(fresh, AssistantCalls(resp.calls)) \in Seq(Message)
          /\ Current(Append(fresh, AssistantCalls(resp.calls)))
      BY <1>0, <3>1, AppendProperties, CurrentAppend
    <3> QED
      BY <1>2, <2>5, <3>2 DEF StreamEndsWithCalls
  <2>6. ASSUME StreamEndsWithNudge PROVE ContextCurrent'
    BY <1>2, <2>2, <2>6 DEF StreamEndsWithNudge, Roles
  <2>7. ASSUME StreamEndsTurn PROVE ContextCurrent'
    BY <1>2, <2>3, <2>7 DEF StreamEndsTurn
  <2> QED
    BY <1>7, <2>4, <2>5, <2>6, <2>7 DEF StreamEnds
<1>8. ASSUME RunTool PROVE ContextCurrent'
  <2> DEFINE m == ToolResult(resp.calls[nextCall].id)
  <2>1. m \in Message /\ m.epoch = resets
    <3>1. resp.calls[nextCall] \in Call
      BY <1>0, <1>8, ElementOfSeq, LenProperties DEF RunTool, TypeOK
    <3> QED
      BY <1>0, <3>1, MessageTypes DEF ToolResult, Call
  <2>2. fresh' = Append(fresh, m) /\ base' = base /\ resets' = resets
    BY <1>8 DEF RunTool
  <2> HIDE DEF m
  <2>3. Append(fresh, m) \in Seq(Message) /\ Current(Append(fresh, m))
    BY <1>0, <2>1, AppendProperties, CurrentAppend
  <2> QED
    BY <1>2, <2>2, <2>3
<1>9. CASE UNCHANGED vars
  BY <1>1, <1>9 DEF vars
<1> QED
  BY <1>4, <1>5, <1>6, <1>7, <1>8, <1>9 DEF Next

\* With the window compactor no message from before a reset reaches the
\* provider after it.
THEOREM ResetForgetsWithWindow ==
    ASSUME Compactor = "window"
    PROVE  Spec => []ResetForgets
<1>1. Init => ContextCurrent
  BY DEF Init, ContextCurrent, Current
<1>2. TypeOK /\ ContextCurrent => ResetForgets
  BY CurrentConcat DEF TypeOK, ContextCurrent, Current, ResetForgets, turns
<1>3. TypeOK /\ ContextCurrent /\ [Next]_vars => ContextCurrent'
  BY CurrentStep
<1> QED
  BY <1>1, <1>2, <1>3, TypeCorrect, PTL DEF Spec

=============================================================================
