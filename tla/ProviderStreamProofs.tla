------------------------ MODULE ProviderStreamProofs ------------------------
(***************************************************************************)
(* Proofs about ProviderStream, for both protocols, any number of calls,    *)
(* tokens and events, any cut of the bytes, and any capacity of the         *)
(* channel: the types, NothingLost, ArgumentsAreOwn, and that the two       *)
(* providers implement Completion.                                         *)
(*                                                                         *)
(* All of them follow from one invariant.  It says of some number t that    *)
(* the provider has taken exactly the first t events of the server: that    *)
(* what is on its way are the others, and that what the provider holds, has *)
(* sent or has handed over is what the first t events said.                 *)
(***************************************************************************)
EXTENDS ProviderStream, FiniteSetTheorems, SequenceTheorems, TLAPS

\* The numbers that the first k events of a kind in s have, and how many of
\* them have number n.
Among(s, kind, k) == {s[i].n : i \in {j \in 1 .. k : s[j].kind = kind}}

Times(s, kind, n, k) == Cardinality({i \in 1 .. k : s[i].kind = kind /\ s[i].n = n})

-----------------------------------------------------------------------------
(* The inductive invariant, in parts.                                      *)

\* What the server says about calls and tokens, in which order.
InTurn(s, i) ==
    LET n == s[i].n
    IN  /\ s[i].kind = "text" => Among(s, "text", i - 1) = 1 .. (n - 1) /\ n # 0
        /\ s[i].kind = "open" => Among(s, "open", i - 1) = 1 .. (n - 1) /\ n \in 1 .. MaxCalls
        /\ s[i].kind \in {"arg", "done"} =>
              n \in Among(s, "open", i - 1) /\ n \notin Among(s, "done", i - 1)
        /\ s[i].kind = "done" => protocol = "responses" /\ Times(s, "arg", n, i - 1) = ArgPieces
        /\ s[i].kind = "end" => n = 0 /\ i = Len(s)
        /\ s[i].wide => s[i].kind \in {"text", "arg"} /\ protocol = "chat"

Orderly ==
    /\ \A i \in 1 .. Len(sent) : InTurn(sent, i)
    /\ \E c \in Nat : Among(sent, "text", Len(sent)) = 1 .. c
    /\ \E c \in Nat : Among(sent, "open", Len(sent)) = 1 .. c
    /\ closed = "no" => whole = Len(sent)

\* Bytes read and bytes on the way, in one.
stream == buffer \o wire

\* They are of the events after the first t, in order, with a blank line for each
\* that came whole.
Flowing(t) ==
    /\ t <= whole
    /\ \A i \in 1 .. Len(stream) :
          /\ stream[i].event \in (t + 1) .. Len(sent)
          /\ stream[i].part = "blank" => stream[i].event <= whole
          /\ stream[i].part \in {"lead", "rest"} => sent[stream[i].event].wide
          /\ stream[i].garbled => stream[i].part \in {"lead", "rest"}
          /\ protocol = "responses" => stream[i].part = "blank"
    /\ \A i, j \in 1 .. Len(stream) :
          i < j => /\ stream[i].event <= stream[j].event
                   /\ stream[i].part = "blank" => stream[i].event # stream[j].event
    /\ \A v \in (t + 1) .. whole :
          \E i \in 1 .. Len(stream) : stream[i].event = v /\ stream[i].part = "blank"
    /\ protocol = "responses" => buffer = <<>>

\* Where the task and the agent are.
Phased(t) ==
    /\ task = "flushing" => outbox = <<>>
    /\ task \in {"flushing", "ok"} =>
          t = whole /\ (closed # "no" \/ Among(sent, "end", Len(sent)) # {})
    /\ task # "reading" => sent # <<>> \/ closed # "no"
    /\ result # "none" => result = task /\ task \in {"ok", "error"} /\ outbox = <<>> /\ channel = <<>>

\* A piece of the arguments of call c has a character that could be cut.
Touched(s, c, t) == \E j \in 1 .. t : s[j].kind = "arg" /\ s[j].wide /\ s[j].n = c

\* The calls that are not done yet are accumulated, each under its key, with the
\* pieces that were its own, and garbled only if one of these could be cut.
Key(c) == IF protocol = "chat" THEN c - 1 ELSE c

Arguments(c, m) == [p \in 1 .. m |-> <<c, p>>]

Unfinished(t) == Among(sent, "open", t) \ Among(sent, "done", t)

Accumulated(t) ==
    /\ DOMAIN accumulators = {Key(c) : c \in Unfinished(t)}
    /\ \A c \in Unfinished(t) :
          LET acc == accumulators[Key(c)]
          IN  /\ acc.call = c
              /\ acc.arguments = Arguments(c, Times(sent, "arg", c, t))
              /\ acc.garbled => Touched(sent, c, t)

\* What the task has sent, or is sending, and the agent has not received.
flight == channel \o outbox

TokensIn(f) == {f[i].n : i \in {j \in 1 .. Len(f) : f[j].kind = "token"}}

Rising(f) ==
    \A i, j \in 1 .. Len(f) :
        i < j /\ f[i].kind = "token" /\ f[j].kind = "token" => f[i].n < f[j].n

\* A garbled token is of a text with a character that could be cut.
Excused(s, tok, t) ==
    tok.garbled => \E j \in 1 .. t : s[j].kind = "text" /\ s[j].wide /\ s[j].n = tok.n

\* The response has the first tokens, what comes has the others.
Heard(t) ==
    /\ \A i \in 1 .. Len(response) :
          response[i].n = i /\ i \in Among(sent, "text", t) /\ Excused(sent, response[i], t)
    /\ TokensIn(flight) = Among(sent, "text", t) \ (1 .. Len(response))
    /\ Rising(flight)
    /\ \A i \in 1 .. Len(flight) : flight[i].kind = "token" => Excused(sent, flight[i], t)

CallsIn(f) ==
    UNION {{f[i].calls[j].call : j \in 1 .. Len(f[i].calls)} :
             i \in {k \in 1 .. Len(f) : f[k].kind = "calls"}}

\* No two calls in f are the same.
Distinct(f) ==
    \A i, k \in 1 .. Len(f) :
        f[i].kind = "calls" /\ f[k].kind = "calls" =>
            \A j \in 1 .. Len(f[i].calls), l \in 1 .. Len(f[k].calls) :
                f[i].calls[j].call = f[k].calls[l].call => i = k /\ j = l

\* A call has its arguments if they all came, and none otherwise; they are
\* garbled only if one of them could be cut.
Own(s, call, t) ==
    /\ call.input = IF Times(s, "arg", call.call, t) = ArgPieces THEN Pieces(call.call) ELSE <<>>
    /\ call.garbled => Touched(s, call.call, t)

Held == {toolCalls[i].call : i \in 1 .. Len(toolCalls)}

\* The agent has, or will receive, the calls that are done, and in the end all,
\* none of them twice and each with its own arguments.
Handed(t) ==
    /\ Held \cup CallsIn(flight) = IF task = "ok" THEN Among(sent, "open", t) ELSE Among(sent, "done", t)
    /\ Held \cap CallsIn(flight) = {}
    /\ Distinct(flight)
    /\ \A i \in 1 .. Len(toolCalls) : Own(sent, toolCalls[i], t)
    /\ \A i \in 1 .. Len(flight) :
          flight[i].kind = "calls" => \A j \in 1 .. Len(flight[i].calls) : Own(sent, flight[i].calls[j], t)

Taken(t) == Flowing(t) /\ Phased(t) /\ Accumulated(t) /\ Heard(t) /\ Handed(t)

Inv == TypeOK /\ Orderly /\ \E t \in Nat : Taken(t)

-----------------------------------------------------------------------------
(* The events of the server.                                               *)

LEMMA AmongMember ==
    ASSUME NEW s, NEW kind, NEW k, NEW n
    PROVE  n \in Among(s, kind, k) <=> \E i \in 1 .. k : s[i].kind = kind /\ s[i].n = n
BY DEF Among

LEMMA AmongFacts ==
    ASSUME NEW s, NEW kind, NEW k \in Nat
    PROVE  /\ s[k + 1].kind = kind => Among(s, kind, k + 1) = Among(s, kind, k) \cup {s[k + 1].n}
           /\ s[k + 1].kind # kind => Among(s, kind, k + 1) = Among(s, kind, k)
           /\ \A j \in 0 .. k : Among(s, kind, j) \subseteq Among(s, kind, k)
<1>1. \A i : i \in 1 .. (k + 1) <=> i \in 1 .. k \/ i = k + 1
  OBVIOUS
<1>2. \A n : n \in Among(s, kind, k + 1) <=>
                n \in Among(s, kind, k) \/ (s[k + 1].kind = kind /\ s[k + 1].n = n)
  <2> SUFFICES ASSUME NEW n
               PROVE  n \in Among(s, kind, k + 1) <=>
                        n \in Among(s, kind, k) \/ (s[k + 1].kind = kind /\ s[k + 1].n = n)
    OBVIOUS
  <2>1. n \in Among(s, kind, k + 1) <=> \E i \in 1 .. (k + 1) : s[i].kind = kind /\ s[i].n = n
    BY AmongMember
  <2>2. n \in Among(s, kind, k) <=> \E i \in 1 .. k : s[i].kind = kind /\ s[i].n = n
    BY AmongMember
  <2> DEFINE P(i) == s[i].kind = kind /\ s[i].n = n
  <2>3. (\E i \in 1 .. (k + 1) : P(i)) <=> (\E i \in 1 .. k : P(i)) \/ P(k + 1)
    <3> HIDE DEF P
    <3> QED
      BY ONLY <1>1, Zenon
  <2> QED
    BY ONLY <2>1, <2>2, <2>3, Zenon DEF P
<1>3. ASSUME s[k + 1].kind = kind
      PROVE  Among(s, kind, k + 1) = Among(s, kind, k) \cup {s[k + 1].n}
  <2>1. \A n : n \in Among(s, kind, k + 1) <=> n \in Among(s, kind, k) \/ n = s[k + 1].n
    BY ONLY <1>2, <1>3, Zenon
  <2> QED
    BY ONLY <2>1
<1>4. ASSUME s[k + 1].kind # kind
      PROVE  Among(s, kind, k + 1) = Among(s, kind, k)
  <2>1. \A n : n \in Among(s, kind, k + 1) <=> n \in Among(s, kind, k)
    BY ONLY <1>2, <1>4, Zenon
  <2> QED
    BY ONLY <2>1
<1>5. \A j \in 0 .. k : Among(s, kind, j) \subseteq Among(s, kind, k)
  <2> SUFFICES ASSUME NEW j \in 0 .. k, NEW n \in Among(s, kind, j)
               PROVE  n \in Among(s, kind, k)
    OBVIOUS
  <2>1. PICK i \in 1 .. j : s[i].kind = kind /\ s[i].n = n
    BY AmongMember
  <2>2. i \in 1 .. k
    OBVIOUS
  <2> QED
    BY <2>1, <2>2, AmongMember
<1> QED
  BY <1>3, <1>4, <1>5

LEMMA TimesFacts ==
    ASSUME NEW s, NEW kind, NEW n, NEW k \in Nat
    PROVE  /\ Times(s, kind, n, k) \in Nat
           /\ Times(s, kind, n, k) = 0 <=> n \notin Among(s, kind, k)
           /\ Times(s, kind, n, k + 1) =
                 Times(s, kind, n, k) + (IF s[k + 1].kind = kind /\ s[k + 1].n = n THEN 1 ELSE 0)
<1> DEFINE T(m) == {i \in 1 .. m : s[i].kind = kind /\ s[i].n = n}
<1>1. \A m \in Nat : IsFiniteSet(T(m))
  <2> SUFFICES ASSUME NEW m \in Nat
               PROVE  IsFiniteSet(T(m))
    OBVIOUS
  <2>1. IsFiniteSet(1 .. m) /\ T(m) \in SUBSET (1 .. m)
    BY FS_Interval
  <2> QED
    BY <2>1, FS_Subset
<1>2. T(k + 1) = T(k) \cup (IF s[k + 1].kind = kind /\ s[k + 1].n = n THEN {k + 1} ELSE {})
  <2>1. \A i : i \in 1 .. (k + 1) <=> i \in 1 .. k \/ i = k + 1
    OBVIOUS
  <2> QED
    BY <2>1
<1>3. k + 1 \notin T(k)
  OBVIOUS
<1>4. T(k) = {} <=> n \notin Among(s, kind, k)
  BY AmongMember
<1>5. IsFiniteSet(T(k))
  BY <1>1
<1> HIDE DEF T
<1>6. Cardinality(T(k)) \in Nat /\ (Cardinality(T(k)) = 0 <=> T(k) = {})
  BY <1>5, FS_CardinalityType, FS_EmptySet
<1>7. Cardinality(T(k + 1)) =
        Cardinality(T(k)) + (IF s[k + 1].kind = kind /\ s[k + 1].n = n THEN 1 ELSE 0)
  <2>1. CASE s[k + 1].kind = kind /\ s[k + 1].n = n
    <3>1. T(k + 1) = T(k) \cup {k + 1}
      BY <1>2, <2>1
    <3> QED
      BY <1>3, <1>5, <2>1, <3>1, FS_AddElement
  <2>2. CASE ~(s[k + 1].kind = kind /\ s[k + 1].n = n)
    <3>1. T(k + 1) = T(k)
      BY <1>2, <2>2
    <3> QED
      BY <1>6, <2>2, <3>1
  <2> QED
    BY <2>1, <2>2
<1> QED
  BY <1>4, <1>6, <1>7 DEF Times, T

\* Both look at the first k events only.
LEMMA PrefixFacts ==
    ASSUME NEW s, NEW r, NEW k \in Nat, \A i \in 1 .. k : s[i] = r[i], NEW kind
    PROVE  /\ Among(s, kind, k) = Among(r, kind, k)
           /\ \A n : Times(s, kind, n, k) = Times(r, kind, n, k)
<1>1. {j \in 1 .. k : s[j].kind = kind} = {j \in 1 .. k : r[j].kind = kind}
  OBVIOUS
<1>2. ASSUME NEW n
      PROVE  {i \in 1 .. k : s[i].kind = kind /\ s[i].n = n} = {i \in 1 .. k : r[i].kind = kind /\ r[i].n = n}
  OBVIOUS
<1>3. Among(s, kind, k) = Among(r, kind, k)
  <2>1. \A n : n \in Among(s, kind, k) <=> n \in Among(r, kind, k)
    BY AmongMember
  <2> QED
    BY <2>1
<1> QED
  BY <1>2, <1>3 DEF Times

\* What an orderly server said up to event k, which may be any of its own.
LEMMA OrderlyFacts ==
    ASSUME Orderly, sent \in Seq(Event), NEW k \in 0 .. Len(sent), NEW c
    PROVE  /\ c \in Among(sent, "done", k) => c \in Among(sent, "open", k)
           /\ c \in Among(sent, "done", k) =>
                 protocol = "responses" /\ Times(sent, "arg", c, k) = ArgPieces
           /\ c \in Among(sent, "open", k) => c \in 1 .. MaxCalls
           /\ c \notin Among(sent, "open", k) => Times(sent, "arg", c, k) = 0
<1> USE AmongMember
<1>1. k \in Nat /\ Len(sent) \in Nat
  OBVIOUS
<1>2. ASSUME NEW i \in 1 .. k
      PROVE  InTurn(sent, i) /\ i - 1 \in 0 .. k /\ i - 1 \in Nat /\ i \in Nat
  BY <1>1 DEF Orderly
<1>3. ASSUME c \in Among(sent, "done", k)
      PROVE  /\ c \in Among(sent, "open", k) /\ protocol = "responses"
             /\ Times(sent, "arg", c, k) = ArgPieces
  <2>1. PICK i \in 1 .. k : sent[i].kind = "done" /\ sent[i].n = c
    BY <1>1, <1>3
  <2>2. /\ c \in Among(sent, "open", i - 1)
        /\ protocol = "responses" /\ Times(sent, "arg", c, i - 1) = ArgPieces
    BY <1>2, <2>1 DEF InTurn
  <2>3. c \in Among(sent, "open", k)
    BY <1>1, <1>2, <2>2, AmongFacts
  <2>4. ASSUME NEW j \in 1 .. k, sent[j].kind = "arg", sent[j].n = c
        PROVE  j \in 1 .. (i - 1)
    <3>1. c \notin Among(sent, "done", j - 1)
      BY <1>2, <2>4 DEF InTurn
    <3>2. ~(i <= j - 1)
      BY <1>2, <2>1, <3>1
    <3>3. i # j
      BY <2>1, <2>4
    <3> QED
      BY <1>1, <3>2, <3>3
  <2>5. {j \in 1 .. k : sent[j].kind = "arg" /\ sent[j].n = c}
          = {j \in 1 .. (i - 1) : sent[j].kind = "arg" /\ sent[j].n = c}
    <3>1. \A j \in 1 .. (i - 1) : j \in 1 .. k
      BY <1>1
    <3> QED
      BY <2>4, <3>1
  <2> QED
    BY <2>2, <2>3, <2>5 DEF Times
<1>4. ASSUME c \in Among(sent, "open", k)
      PROVE  c \in 1 .. MaxCalls
  <2>1. PICK i \in 1 .. k : sent[i].kind = "open" /\ sent[i].n = c
    BY <1>1, <1>4
  <2> QED
    BY <1>2, <2>1 DEF InTurn
<1>5. ASSUME c \notin Among(sent, "open", k)
      PROVE  Times(sent, "arg", c, k) = 0
  <2>1. ASSUME c \in Among(sent, "arg", k)
        PROVE  FALSE
    <3>1. PICK i \in 1 .. k : sent[i].kind = "arg" /\ sent[i].n = c
      BY <1>1, <2>1
    <3>2. c \in Among(sent, "open", i - 1)
      BY <1>2, <3>1 DEF InTurn
    <3> QED
      BY <1>1, <1>2, <1>5, <3>2, AmongFacts
  <2> QED
    BY <1>1, <2>1, TimesFacts
<1> QED
  BY <1>3, <1>4, <1>5

-----------------------------------------------------------------------------
(* What is in flight: an event is sent at its end and received at its head. *)

TokenOf(x) == IF x.kind = "token" THEN {x.n} ELSE {}

CallsOf(x) == IF x.kind = "calls" THEN {x.calls[j].call : j \in 1 .. Len(x.calls)} ELSE {}

Several(x) ==
    x.kind = "calls" =>
        \A j, l \in 1 .. Len(x.calls) : x.calls[j].call = x.calls[l].call => j = l

LEMMA FlightMember ==
    ASSUME NEW f, NEW n
    PROVE  /\ n \in TokensIn(f) <=> \E i \in 1 .. Len(f) : n \in TokenOf(f[i])
           /\ n \in CallsIn(f) <=> \E i \in 1 .. Len(f) : n \in CallsOf(f[i])
<1>1. n \in TokensIn(f) <=> \E i \in 1 .. Len(f) : n \in TokenOf(f[i])
  BY DEF TokensIn, TokenOf
<1>2. n \in CallsIn(f) <=> \E i \in 1 .. Len(f) : n \in CallsOf(f[i])
  BY DEF CallsIn, CallsOf
<1> QED
  BY <1>1, <1>2

\* Distinct and Rising, said with what each event has.
LEMMA FlightApart ==
    ASSUME NEW f
    PROVE  /\ Distinct(f) <=>
                 /\ \A i \in 1 .. Len(f) : Several(f[i])
                 /\ \A i, k \in 1 .. Len(f) : i # k => CallsOf(f[i]) \cap CallsOf(f[k]) = {}
           /\ Rising(f) <=>
                 \A i, k \in 1 .. Len(f) :
                     i < k => \A m \in TokenOf(f[i]), n \in TokenOf(f[k]) : m < n
<1>1. Rising(f) <=>
        \A i, k \in 1 .. Len(f) :
            i < k => \A m \in TokenOf(f[i]), n \in TokenOf(f[k]) : m < n
  BY DEF Rising, TokenOf
<1>2. Distinct(f) =>
        /\ \A i \in 1 .. Len(f) : Several(f[i])
        /\ \A i, k \in 1 .. Len(f) : i # k => CallsOf(f[i]) \cap CallsOf(f[k]) = {}
  <2> SUFFICES ASSUME Distinct(f)
               PROVE  /\ \A i \in 1 .. Len(f) : Several(f[i])
                      /\ \A i, k \in 1 .. Len(f) : i # k => CallsOf(f[i]) \cap CallsOf(f[k]) = {}
    OBVIOUS
  <2>1. \A i \in 1 .. Len(f) : Several(f[i])
    BY DEF Distinct, Several
  <2>2. ASSUME NEW i \in 1 .. Len(f), NEW k \in 1 .. Len(f), i # k,
               NEW c, c \in CallsOf(f[i]), c \in CallsOf(f[k])
        PROVE  FALSE
    <3>1. f[i].kind = "calls" /\ f[k].kind = "calls"
      BY <2>2 DEF CallsOf
    <3>2. PICK j \in 1 .. Len(f[i].calls) : f[i].calls[j].call = c
      BY <2>2 DEF CallsOf
    <3>3. PICK l \in 1 .. Len(f[k].calls) : f[k].calls[l].call = c
      BY <2>2 DEF CallsOf
    <3> QED
      BY <2>2, <3>1, <3>2, <3>3 DEF Distinct
  <2> QED
    BY <2>1, <2>2
<1>3. ASSUME \A i \in 1 .. Len(f) : Several(f[i]),
             \A i, k \in 1 .. Len(f) : i # k => CallsOf(f[i]) \cap CallsOf(f[k]) = {}
      PROVE  Distinct(f)
  <2> SUFFICES ASSUME NEW i \in 1 .. Len(f), NEW k \in 1 .. Len(f),
                      f[i].kind = "calls", f[k].kind = "calls",
                      NEW j \in 1 .. Len(f[i].calls), NEW l \in 1 .. Len(f[k].calls),
                      f[i].calls[j].call = f[k].calls[l].call
               PROVE  i = k /\ j = l
    BY DEF Distinct
  <2>1. f[i].calls[j].call \in CallsOf(f[i]) /\ f[k].calls[l].call \in CallsOf(f[k])
    BY DEF CallsOf
  <2>2. i = k
    BY <1>3, <2>1
  <2> QED
    BY <1>3, <2>2 DEF Several
<1> QED
  BY <1>1, <1>2, <1>3

LEMMA SentFacts ==
    ASSUME NEW f \in Seq(ProviderEvent), NEW x \in ProviderEvent
    PROVE  /\ f \o <<x>> \in Seq(ProviderEvent)
           /\ TokensIn(f \o <<x>>) = TokensIn(f) \cup TokenOf(x)
           /\ CallsIn(f \o <<x>>) = CallsIn(f) \cup CallsOf(x)
           /\ Rising(f) /\ (\A m \in TokensIn(f), n \in TokenOf(x) : m < n) => Rising(f \o <<x>>)
           /\ Distinct(f) /\ Several(x) /\ CallsIn(f) \cap CallsOf(x) = {} => Distinct(f \o <<x>>)
           /\ \A i \in 1 .. Len(f \o <<x>>) : (i \in 1 .. Len(f) /\ (f \o <<x>>)[i] = f[i]) \/ (f \o <<x>>)[i] = x
<1> DEFINE g == f \o <<x>>
           l == Len(f)
<1>1. /\ g \in Seq(ProviderEvent) /\ Len(g) = l + 1 /\ l \in Nat
      /\ \A i \in 1 .. l : i \in 1 .. Len(g) /\ g[i] = f[i]
      /\ l + 1 \in 1 .. Len(g) /\ g[l + 1] = x
      /\ \A i \in 1 .. Len(g) : i \in 1 .. l \/ i = l + 1
  OBVIOUS
<1> HIDE DEF g
<1>2. TokensIn(g) = TokensIn(f) \cup TokenOf(x)
  <2>1. \A n : n \in TokensIn(g) <=> (n \in TokensIn(f) \/ n \in TokenOf(x))
    BY <1>1, FlightMember
  <2> QED
    BY ONLY <2>1
<1>3. CallsIn(g) = CallsIn(f) \cup CallsOf(x)
  <2>1. \A n : n \in CallsIn(g) <=> (n \in CallsIn(f) \/ n \in CallsOf(x))
    BY <1>1, FlightMember
  <2> QED
    BY ONLY <2>1
<1>4. ASSUME Rising(f), \A m \in TokensIn(f), n \in TokenOf(x) : m < n
      PROVE  Rising(g)
  <2> SUFFICES ASSUME NEW i \in 1 .. Len(g), NEW k \in 1 .. Len(g), i < k,
                      NEW m \in TokenOf(g[i]), NEW n \in TokenOf(g[k])
               PROVE  m < n
    BY FlightApart
  <2>1. i \in 1 .. l /\ g[i] = f[i]
    BY <1>1
  <2>2. CASE k \in 1 .. l
    BY <1>1, <1>4, <2>1, <2>2, FlightApart
  <2>3. CASE k = l + 1
    BY <1>1, <1>4, <2>1, <2>3, FlightMember
  <2> QED
    BY <1>1, <2>2, <2>3
<1>5. ASSUME Distinct(f), Several(x), CallsIn(f) \cap CallsOf(x) = {}
      PROVE  Distinct(g)
  <2>1. \A i \in 1 .. Len(g) : Several(g[i])
    BY <1>1, <1>5, FlightApart
  <2>2. ASSUME NEW i \in 1 .. l
        PROVE  CallsOf(f[i]) \cap CallsOf(x) = {}
    BY <1>5, FlightMember
  <2>3. ASSUME NEW i \in 1 .. Len(g), NEW k \in 1 .. Len(g), i # k
        PROVE  CallsOf(g[i]) \cap CallsOf(g[k]) = {}
    <3>1. CASE i \in 1 .. l /\ k \in 1 .. l
      BY <1>1, <1>5, <2>3, <3>1, FlightApart
    <3>2. CASE i = l + 1 \/ k = l + 1
      BY <1>1, <2>2, <2>3, <3>2
    <3> QED
      BY <1>1, <3>1, <3>2
  <2> QED
    BY <2>1, <2>3, FlightApart
<1> QED
  BY <1>1, <1>2, <1>3, <1>4, <1>5 DEF g

LEMMA ReceivedFacts ==
    ASSUME NEW f \in Seq(ProviderEvent), f # <<>>
    PROVE  /\ Head(f) \in ProviderEvent /\ Head(f) = f[1] /\ 1 \in 1 .. Len(f)
           /\ Tail(f) \in Seq(ProviderEvent)
           /\ TokensIn(f) = TokenOf(Head(f)) \cup TokensIn(Tail(f))
           /\ CallsIn(f) = CallsOf(Head(f)) \cup CallsIn(Tail(f))
           /\ Rising(f) => /\ Rising(Tail(f))
                           /\ \A m \in TokenOf(Head(f)), n \in TokensIn(Tail(f)) : m < n
           /\ Distinct(f) => /\ Distinct(Tail(f)) /\ Several(Head(f))
                             /\ CallsIn(Tail(f)) \cap CallsOf(Head(f)) = {}
           /\ \A i \in 1 .. Len(Tail(f)) : i + 1 \in 1 .. Len(f) /\ Tail(f)[i] = f[i + 1]
<1> DEFINE h == Head(f)
           r == Tail(f)
<1>1. /\ h \in ProviderEvent /\ r \in Seq(ProviderEvent) /\ h = f[1] /\ 1 \in 1 .. Len(f)
      /\ \A i \in 1 .. Len(r) : i + 1 \in 1 .. Len(f) /\ r[i] = f[i + 1] /\ i + 1 # 1
      /\ \A i \in 1 .. Len(f) : i = 1 \/ (i - 1 \in 1 .. Len(r) /\ f[i] = r[i - 1])
  OBVIOUS
<1> HIDE DEF h, r
<1>2. TokensIn(f) = TokenOf(h) \cup TokensIn(r)
  <2>1. \A n : n \in TokensIn(f) <=> (n \in TokenOf(h) \/ n \in TokensIn(r))
    BY <1>1, FlightMember
  <2> QED
    BY ONLY <2>1
<1>3. CallsIn(f) = CallsOf(h) \cup CallsIn(r)
  <2>1. \A n : n \in CallsIn(f) <=> (n \in CallsOf(h) \/ n \in CallsIn(r))
    BY <1>1, FlightMember
  <2> QED
    BY ONLY <2>1
<1>4. ASSUME Rising(f)
      PROVE  Rising(r) /\ \A m \in TokenOf(h), n \in TokensIn(r) : m < n
  <2>1. \A i, k \in 1 .. Len(f) : i < k => \A m \in TokenOf(f[i]), n \in TokenOf(f[k]) : m < n
    BY <1>4, FlightApart
  <2>2. ASSUME NEW i \in 1 .. Len(r), NEW k \in 1 .. Len(r), i < k
        PROVE  \A m \in TokenOf(r[i]), n \in TokenOf(r[k]) : m < n
    <3>1. i + 1 < k + 1
      BY <2>2
    <3> QED
      BY <1>1, <2>1, <3>1
  <2>3. ASSUME NEW m \in TokenOf(h), NEW n \in TokensIn(r)
        PROVE  m < n
    <3>1. PICK i \in 1 .. Len(r) : n \in TokenOf(r[i])
      BY FlightMember
    <3>2. 1 < i + 1
      OBVIOUS
    <3> QED
      BY <1>1, <2>1, <3>1, <3>2
  <2> QED
    BY <2>2, <2>3, FlightApart
<1>5. ASSUME Distinct(f)
      PROVE  Distinct(r) /\ Several(h) /\ CallsIn(r) \cap CallsOf(h) = {}
  <2>1. /\ \A i \in 1 .. Len(f) : Several(f[i])
        /\ \A i, k \in 1 .. Len(f) : i # k => CallsOf(f[i]) \cap CallsOf(f[k]) = {}
    BY <1>5, FlightApart
  <2>2. \A i \in 1 .. Len(r) : Several(r[i])
    BY <1>1, <2>1
  <2>3. ASSUME NEW i \in 1 .. Len(r), NEW k \in 1 .. Len(r), i # k
        PROVE  CallsOf(r[i]) \cap CallsOf(r[k]) = {}
    <3>1. i + 1 # k + 1
      BY <2>3
    <3> QED
      BY <1>1, <2>1, <3>1
  <2>4. ASSUME NEW n \in CallsIn(r), n \in CallsOf(h)
        PROVE  FALSE
    <3>1. PICK i \in 1 .. Len(r) : n \in CallsOf(r[i])
      BY FlightMember
    <3> QED
      BY <1>1, <2>1, <2>4, <3>1
  <2> QED
    BY <1>1, <2>1, <2>2, <2>3, <2>4, FlightApart
<1> QED
  BY <1>1, <1>2, <1>3, <1>4, <1>5 DEF h, r

-----------------------------------------------------------------------------
(* The server and the network.                                             *)

\* What the provider has taken in stays what it is as long as the events it has
\* taken do, whatever else happens.
LEMMA StillTaken ==
    ASSUME NEW t \in Nat, Accumulated(t), Heard(t), Handed(t),
           \A i \in 1 .. t : sent'[i] = sent[i],
           flight' = flight, task' = "ok" <=> task = "ok",
           UNCHANGED <<protocol, accumulators, response, toolCalls>>
    PROVE  Accumulated(t)' /\ Heard(t)' /\ Handed(t)'
<1>1. \A kind : Among(sent', kind, t) = Among(sent, kind, t)
  BY PrefixFacts
<1>2. \A kind, n : Times(sent', kind, n, t) = Times(sent, kind, n, t)
  BY PrefixFacts
<1>3. Unfinished(t)' = Unfinished(t) /\ \A c : Key(c)' = Key(c)
  BY <1>1 DEF Unfinished, Key
<1>10. \A c : Touched(sent, c, t) => Touched(sent', c, t)
  BY DEF Touched
<1>4. Accumulated(t)'
  BY <1>2, <1>3, <1>10 DEF Accumulated
<1>5. \A tok : Excused(sent, tok, t) => Excused(sent', tok, t)
  BY DEF Excused
<1>6. Heard(t)'
  BY <1>1, <1>5 DEF Heard
<1>7. \A call : Own(sent, call, t) => Own(sent', call, t)
  BY <1>2, <1>10 DEF Own
<1>8. Held' = Held
  BY DEF Held
<1>9. Handed(t)'
  BY <1>1, <1>7, <1>8 DEF Handed
<1> QED
  BY <1>4, <1>6, <1>9

\* The event that follows is in turn.
LEMMA FollowsFacts ==
    ASSUME TypeOK, Orderly, NEW e \in Event, Follows(e)
    PROVE  LET L == Len(sent)
           IN  /\ closed = "no" /\ whole = L
               /\ Among(sent, "end", L) = {}
               /\ e.kind = "text" => Among(sent, "text", L) = 1 .. (e.n - 1) /\ e.n # 0
               /\ e.kind = "open" => Among(sent, "open", L) = 1 .. (e.n - 1) /\ e.n \in 1 .. MaxCalls
               /\ e.kind \in {"arg", "done"} =>
                     e.n \in Among(sent, "open", L) /\ e.n \notin Among(sent, "done", L)
               /\ e.kind = "done" => protocol = "responses" /\ Times(sent, "arg", e.n, L) = ArgPieces
               /\ e.kind = "end" => e.n = 0
               /\ e.wide => e.kind \in {"text", "arg"} /\ protocol = "chat"
<1> DEFINE L == Len(sent)
<1>1. L \in Nat /\ MaxCalls \in Nat /\ e.n \in Nat
  BY StreamAssumption DEF TypeOK, StreamAssumption, Event
<1>2. closed = "no" /\ whole = L
  BY DEF Follows, Orderly
<1>3. Among(sent, "end", L) = {}
  <2>1. Times(sent, "end", 0, L) = 0
    BY DEF Follows, Count, Times
  <2>2. 0 \notin Among(sent, "end", L)
    BY <1>1, <2>1, TimesFacts
  <2>3. ASSUME NEW n \in Among(sent, "end", L)
        PROVE  FALSE
    <3>1. PICK i \in 1 .. L : sent[i].kind = "end" /\ sent[i].n = n
      BY AmongMember
    <3>2. n = 0
      BY <3>1 DEF Orderly, InTurn
    <3> QED
      BY <2>2, <2>3, <3>2
  <2> QED
    BY <2>3
<1>4. Texts(L) = Among(sent, "text", L) /\ Opened(L) = Among(sent, "open", L)
  BY DEF Texts, Opened, NumbersOf, Among
<1>5. \A c \in Nat : Cardinality(1 .. c) = c
  <2> SUFFICES ASSUME NEW c \in Nat
               PROVE  Cardinality(1 .. c) = c
    OBVIOUS
  <2> QED
    BY FS_Interval
<1>6. ASSUME e.kind = "text"
      PROVE  Among(sent, "text", L) = 1 .. (e.n - 1) /\ e.n # 0
  <2>1. PICK c \in Nat : Among(sent, "text", L) = 1 .. c
    BY DEF Orderly
  <2>2. e.n = c + 1
    BY <1>4, <1>5, <1>6, <2>1 DEF Follows
  <2> QED
    BY <2>1, <2>2
<1>7. ASSUME e.kind = "open"
      PROVE  Among(sent, "open", L) = 1 .. (e.n - 1) /\ e.n \in 1 .. MaxCalls
  <2>1. PICK c \in Nat : Among(sent, "open", L) = 1 .. c
    BY DEF Orderly
  <2>2. e.n = c + 1 /\ e.n <= MaxCalls
    BY <1>4, <1>5, <1>7, <2>1 DEF Follows
  <2> QED
    BY <1>1, <2>1, <2>2
<1>8. ASSUME e.kind \in {"arg", "done"}
      PROVE  e.n \in Among(sent, "open", L) /\ e.n \notin Among(sent, "done", L)
  <2>1. e.n \in Opened(L) /\ Times(sent, "done", e.n, L) = 0
    BY <1>8 DEF Follows, Count, Times
  <2> QED
    BY <1>1, <1>4, <2>1, TimesFacts
<1>9. ASSUME e.kind = "done"
      PROVE  protocol = "responses" /\ Times(sent, "arg", e.n, L) = ArgPieces
  BY <1>9 DEF Follows, Count, Times
<1>10. (e.kind = "end" => e.n = 0) /\ (e.wide => e.kind \in {"text", "arg"} /\ protocol = "chat")
  BY DEF Follows
<1> QED
  BY <1>2, <1>3, <1>6, <1>7, <1>8, <1>9, <1>10

\* The bytes of an event: the blank line is the last.
LEMMA UnitsFacts ==
    ASSUME NEW e \in Event, NEW k \in Nat, e.wide => protocol = "chat"
    PROVE  LET U == UnitsOf(e, k)
           IN  /\ U \in Seq(Unit) /\ Len(U) \in Nat \ {0}
               /\ \A i \in 1 .. Len(U) :
                     /\ U[i].event = k /\ ~U[i].garbled
                     /\ U[i].part = "blank" <=> i = Len(U)
                     /\ U[i].part \in {"lead", "rest"} => e.wide
                     /\ protocol = "responses" => U[i].part = "blank"
<1> DEFINE unit(p) == [event |-> k, part |-> p, garbled |-> FALSE]
<1>1. \A p \in {"text", "lead", "rest", "blank"} : unit(p) \in Unit
  BY DEF Unit
<1>2. \/ protocol = "responses" /\ UnitsOf(e, k) = <<unit("blank")>>
      \/ protocol # "responses" /\ e.wide /\ UnitsOf(e, k) = <<unit("lead"), unit("rest"), unit("blank")>>
      \/ protocol # "responses" /\ UnitsOf(e, k) = <<unit("text"), unit("blank")>>
  BY DEF UnitsOf
<1>3. \A p : unit(p).event = k /\ unit(p).part = p /\ ~unit(p).garbled
  OBVIOUS
<1> HIDE DEF unit
<1>4. CASE protocol = "responses" /\ UnitsOf(e, k) = <<unit("blank")>>
  BY <1>1, <1>3, <1>4
<1>5. CASE protocol # "responses" /\ e.wide /\ UnitsOf(e, k) = <<unit("lead"), unit("rest"), unit("blank")>>
  BY <1>1, <1>3, <1>5
<1>6. CASE protocol # "responses" /\ UnitsOf(e, k) = <<unit("text"), unit("blank")>>
  BY <1>1, <1>3, <1>6
<1> QED
  BY <1>2, <1>4, <1>5, <1>6

LEMMA Upwards ==
    ASSUME NEW n \in Nat, n # 0
    PROVE  1 .. n = (1 .. (n - 1)) \cup {n}
OBVIOUS

LEMMA UpTo ==
    ASSUME NEW n \in Nat
    PROVE  Cardinality(1 .. n) = n
BY FS_Interval

LEMMA OrderlyGoesOn ==
    ASSUME TypeOK, Orderly, NEW e \in Event, ServerSends(e)
    PROVE  Orderly'
<1>1. PICK L \in Nat : L = Len(sent)
  BY DEF TypeOK
<1>2. /\ e.n \in Nat
      /\ sent' \in Seq(Event) /\ Len(sent') = L + 1 /\ sent'[L + 1] = e
      /\ \A i \in 1 .. L : sent'[i] = sent[i]
      /\ whole' = Len(sent') /\ protocol' = protocol /\ closed' = closed
  BY <1>1 DEF TypeOK, ServerSends, Event
<1>3. ASSUME NEW k \in 0 .. L, NEW kind
      PROVE  /\ Among(sent', kind, k) = Among(sent, kind, k)
             /\ \A n : Times(sent', kind, n, k) = Times(sent, kind, n, k)
  <2>1. k \in Nat /\ \A i \in 1 .. k : sent'[i] = sent[i]
    BY <1>2
  <2> QED
    BY ONLY <2>1, PrefixFacts
<1>4. Follows(e)
  BY DEF ServerSends
<1>5. ASSUME NEW i \in 1 .. L
      PROVE  InTurn(sent, i)'
  <2>1. InTurn(sent, i) /\ i - 1 \in 0 .. L /\ sent'[i] = sent[i]
    BY <1>1, <1>2 DEF Orderly
  <2>2. sent[i].kind # "end"
    <3>1. Among(sent, "end", L) = {}
      BY <1>1, <1>4, FollowsFacts
    <3>2. sent[i].kind = "end" => sent[i].n \in Among(sent, "end", L)
      BY ONLY i \in 1 .. L, AmongMember
    <3> QED
      BY ONLY <3>1, <3>2
  <2>3. \A kind : Among(sent', kind, i - 1) = Among(sent, kind, i - 1)
    BY <1>3, <2>1
  <2>4. \A kind, n : Times(sent', kind, n, i - 1) = Times(sent, kind, n, i - 1)
    BY <1>3, <2>1
  <2> QED
    BY <1>2, <2>1, <2>2, <2>3, <2>4 DEF InTurn
<1>6. InTurn(sent, L + 1)'
  <2>1. L \in 0 .. L /\ (L + 1) - 1 = L
    OBVIOUS
  <2>2. \A kind : Among(sent', kind, L) = Among(sent, kind, L)
    BY <1>3, <2>1
  <2>3. \A kind, n : Times(sent', kind, n, L) = Times(sent, kind, n, L)
    BY <1>3, <2>1
  <2>4. /\ e.kind = "text" => Among(sent, "text", L) = 1 .. (e.n - 1) /\ e.n # 0
        /\ e.kind = "open" => Among(sent, "open", L) = 1 .. (e.n - 1) /\ e.n \in 1 .. MaxCalls
        /\ e.kind \in {"arg", "done"} =>
              e.n \in Among(sent, "open", L) /\ e.n \notin Among(sent, "done", L)
        /\ e.kind = "done" => protocol = "responses" /\ Times(sent, "arg", e.n, L) = ArgPieces
        /\ e.kind = "end" => e.n = 0
        /\ e.wide => e.kind \in {"text", "arg"} /\ protocol = "chat"
    BY <1>1, <1>4, FollowsFacts
  <2> QED
    BY <1>2, <2>1, <2>2, <2>3, <2>4 DEF InTurn
<1>7. \A i \in 1 .. Len(sent') : InTurn(sent, i)'
  <2>1. \A i \in 1 .. (L + 1) : i \in 1 .. L \/ i = L + 1
    OBVIOUS
  <2> QED
    BY <1>2, <1>5, <1>6, <2>1
<1>8. \E c \in Nat : Among(sent', "text", Len(sent')) = 1 .. c
  <2>1. CASE e.kind = "text"
    <3>1. Among(sent', "text", L + 1) = Among(sent', "text", L) \cup {e.n}
      BY <1>2, <2>1, AmongFacts
    <3>2. Among(sent', "text", L) = 1 .. (e.n - 1) /\ e.n # 0
      BY <1>1, <1>2, <1>3, <1>4, <2>1, FollowsFacts
    <3>3. 1 .. e.n = (1 .. (e.n - 1)) \cup {e.n}
      BY <1>2, <3>2, Upwards
    <3> QED
      BY <1>2, <3>1, <3>2, <3>3
  <2>2. CASE e.kind # "text"
    <3>1. Among(sent', "text", L + 1) = Among(sent', "text", L)
      BY <1>2, <2>2, AmongFacts
    <3>2. Among(sent', "text", L) = Among(sent, "text", L)
      BY <1>3
    <3> QED
      BY <1>1, <1>2, <3>1, <3>2 DEF Orderly
  <2> QED
    BY <2>1, <2>2
<1>9. \E c \in Nat : Among(sent', "open", Len(sent')) = 1 .. c
  <2>1. CASE e.kind = "open"
    <3>1. Among(sent', "open", L + 1) = Among(sent', "open", L) \cup {e.n}
      BY <1>2, <2>1, AmongFacts
    <3>2. Among(sent', "open", L) = 1 .. (e.n - 1) /\ e.n # 0
      BY <1>1, <1>2, <1>3, <1>4, <2>1, FollowsFacts
    <3>3. 1 .. e.n = (1 .. (e.n - 1)) \cup {e.n}
      BY <1>2, <3>2, Upwards
    <3> QED
      BY <1>2, <3>1, <3>2, <3>3
  <2>2. CASE e.kind # "open"
    <3>1. Among(sent', "open", L + 1) = Among(sent', "open", L)
      BY <1>2, <2>2, AmongFacts
    <3>2. Among(sent', "open", L) = Among(sent, "open", L)
      BY <1>3
    <3> QED
      BY <1>1, <1>2, <3>1, <3>2 DEF Orderly
  <2> QED
    BY <2>1, <2>2
<1> QED
  BY <1>2, <1>7, <1>8, <1>9 DEF Orderly

LEMMA ServerSendsKeeps ==
    ASSUME TypeOK, Orderly, NEW t \in Nat, Taken(t), NEW e \in Event, ServerSends(e)
    PROVE  TypeOK' /\ Orderly' /\ Taken(t)'
<1>1. PICK L \in Nat : L = Len(sent)
  BY DEF TypeOK
<1>2. /\ sent' \in Seq(Event) /\ Len(sent') = L + 1 /\ sent'[L + 1] = e
      /\ \A i \in 1 .. L : sent'[i] = sent[i]
      /\ whole' = L + 1 /\ closed = "no" /\ whole = L /\ Among(sent, "end", L) = {}
      /\ e.wide => protocol = "chat"
      /\ UNCHANGED <<protocol, closed, provider, channel, agent>>
  <2>1. Follows(e)
    BY DEF ServerSends
  <2> QED
    BY <1>1, <2>1, FollowsFacts DEF TypeOK, ServerSends
<1> DEFINE U == UnitsOf(e, L + 1)
<1>3. /\ U \in Seq(Unit) /\ Len(U) \in Nat \ {0}
      /\ \A i \in 1 .. Len(U) :
            /\ U[i].event = L + 1 /\ ~U[i].garbled
            /\ U[i].part = "blank" <=> i = Len(U)
            /\ U[i].part \in {"lead", "rest"} => e.wide
            /\ protocol = "responses" => U[i].part = "blank"
  BY <1>2, UnitsFacts
<1>4. wire' = wire \o U
  BY <1>1, <1>2 DEF ServerSends
<1> HIDE DEF U
<1>5. wire' \in Seq(Unit)
  BY <1>3, <1>4 DEF TypeOK
<1>6. TypeOK'
  BY <1>1, <1>2, <1>5 DEF TypeOK, provider, agent
<1>7. Orderly'
  BY OrderlyGoesOn
<1>8. t <= L
  BY <1>2 DEF Taken, Flowing
<1>9. /\ stream \in Seq(Unit) /\ Len(stream) \in Nat
      /\ Len(stream') = Len(stream) + Len(U)
      /\ \A i \in 1 .. Len(stream) : stream'[i] = stream[i] /\ i \in 1 .. Len(stream')
      /\ \A i \in 1 .. Len(stream') :
            i \in 1 .. Len(stream) \/ (i - Len(stream) \in 1 .. Len(U) /\ stream'[i] = U[i - Len(stream)])
      /\ Len(stream') \in 1 .. Len(stream') /\ stream'[Len(stream')] = U[Len(U)]
  <2>1. stream = buffer \o wire /\ stream' = buffer \o (wire \o U)
    BY <1>2, <1>4 DEF stream, provider
  <2>2. buffer \in Seq(Unit) /\ wire \in Seq(Unit)
    BY DEF TypeOK
  <2>3. /\ stream \in Seq(Unit) /\ Len(stream) \in Nat
        /\ Len(stream') = Len(stream) + Len(U)
    BY <1>3, <2>1, <2>2
  <2>4. stream' = stream \o U
    <3>1. (buffer \o wire) \o U = buffer \o (wire \o U)
      BY ONLY <1>3, <2>2, ConcatAssociative
    <3> HIDE DEF stream
    <3> QED
      BY ONLY <2>1, <3>1
  <2> HIDE DEF stream
  <2>5. \A i \in 1 .. Len(stream') :
           stream'[i] = IF i <= Len(stream) THEN stream[i] ELSE U[i - Len(stream)]
    BY <1>3, <2>3, <2>4
  <2>6. \A i \in 1 .. Len(stream) : stream'[i] = stream[i] /\ i \in 1 .. Len(stream')
    BY <1>3, <2>3, <2>5
  <2>7. ASSUME NEW i \in 1 .. Len(stream'), i \notin 1 .. Len(stream)
        PROVE  i - Len(stream) \in 1 .. Len(U) /\ stream'[i] = U[i - Len(stream)]
    BY <1>3, <2>3, <2>5, <2>7
  <2>8. Len(stream') \in 1 .. Len(stream') /\ stream'[Len(stream')] = U[Len(U)]
    <3>1. Len(stream') \in 1 .. Len(stream') /\ Len(stream') \notin 1 .. Len(stream)
      BY <1>3, <2>3
    <3>2. Len(stream') - Len(stream) = Len(U)
      BY <1>3, <2>3
    <3> QED
      BY <2>7, <3>1, <3>2
  <2> QED
    BY <2>3, <2>6, <2>7, <2>8
<1> HIDE DEF stream
<1>10. Flowing(t)'
  <2>1. t <= whole'
    BY <1>2, <1>8
  <2>2. ASSUME NEW i \in 1 .. Len(stream')
        PROVE  /\ stream'[i].event \in (t + 1) .. Len(sent')
               /\ stream'[i].part = "blank" => stream'[i].event <= whole'
               /\ stream'[i].part \in {"lead", "rest"} => sent'[stream'[i].event].wide
               /\ stream'[i].garbled => stream'[i].part \in {"lead", "rest"}
               /\ protocol' = "responses" => stream'[i].part = "blank"
    <3>1. CASE i \in 1 .. Len(stream)
      <4>1. /\ stream[i].event \in (t + 1) .. L
            /\ stream[i].part \in {"lead", "rest"} => sent[stream[i].event].wide
            /\ stream[i].garbled => stream[i].part \in {"lead", "rest"}
            /\ protocol = "responses" => stream[i].part = "blank"
        BY <1>1, <3>1 DEF Taken, Flowing
      <4>2. stream[i].event \in 1 .. L
        BY <4>1
      <4> QED
        BY <1>2, <1>9, <3>1, <4>1, <4>2
    <3>2. CASE i - Len(stream) \in 1 .. Len(U) /\ stream'[i] = U[i - Len(stream)]
      BY <1>2, <1>3, <1>8, <3>2
    <3> QED
      BY <1>9, <3>1, <3>2
  <2>3. ASSUME NEW i \in 1 .. Len(stream'), NEW j \in 1 .. Len(stream'), i < j
        PROVE  /\ stream'[i].event <= stream'[j].event
               /\ stream'[i].part = "blank" => stream'[i].event # stream'[j].event
    <3>1. CASE j \in 1 .. Len(stream)
      <4>1. i \in 1 .. Len(stream)
        BY <1>9, <2>3, <3>1
      <4> QED
        BY <1>9, <2>3, <3>1, <4>1 DEF Taken, Flowing
    <3>2. CASE j - Len(stream) \in 1 .. Len(U) /\ stream'[j] = U[j - Len(stream)]
      <4>1. stream'[j].event = L + 1
        BY <1>3, <3>2
      <4>2. CASE i \in 1 .. Len(stream)
        <5>1. stream'[i].event \in (t + 1) .. L
          BY <1>1, <1>9, <4>2 DEF Taken, Flowing
        <5> QED
          BY <4>1, <5>1
      <4>3. CASE i - Len(stream) \in 1 .. Len(U) /\ stream'[i] = U[i - Len(stream)]
        <5>1. i - Len(stream) # Len(U)
          BY <1>3, <1>9, <2>3, <3>2, <4>3
        <5>2. /\ U[i - Len(stream)].event = L + 1
              /\ U[i - Len(stream)].part = "blank" <=> i - Len(stream) = Len(U)
          BY <1>3, <4>3
        <5> QED
          BY ONLY <4>1, <4>3, <5>1, <5>2, L \in Nat
      <4> QED
        BY <1>9, <4>2, <4>3
    <3> QED
      BY <1>9, <3>1, <3>2
  <2>4. ASSUME NEW v \in (t + 1) .. whole'
        PROVE  \E i \in 1 .. Len(stream') : stream'[i].event = v /\ stream'[i].part = "blank"
    <3>1. CASE v = L + 1
      BY <1>3, <1>9, <3>1
    <3>2. CASE v # L + 1
      <4>1. v \in (t + 1) .. whole
        BY <1>2, <1>8, <3>2
      <4> QED
        BY <1>9, <4>1 DEF Taken, Flowing
    <3> QED
      BY <3>1, <3>2
  <2>5. protocol' = "responses" => buffer' = <<>>
    BY <1>2 DEF Taken, Flowing, provider
  <2> QED
    BY <2>1, <2>2, <2>3, <2>4, <2>5 DEF Flowing
<1>11. task \notin {"flushing", "ok"}
  BY <1>1, <1>2 DEF Taken, Phased
<1>12. Phased(t)'
  <2>1. sent' # <<>>
    BY <1>2
  <2> QED
    BY <1>2, <1>11, <2>1 DEF Taken, Phased, provider, agent
<1>13. Accumulated(t)' /\ Heard(t)' /\ Handed(t)'
  <2>1. flight' = flight
    BY <1>2 DEF flight, provider
  <2> QED
    BY <1>2, <1>8, <2>1, StillTaken DEF Taken, provider, agent
<1> QED
  BY <1>6, <1>7, <1>10, <1>12, <1>13 DEF Taken

LEMMA CloseKeeps ==
    ASSUME TypeOK, Orderly, NEW t \in Nat, Taken(t),
           NEW how \in {"end", "lost"}, NEW k \in 1 .. (Len(wire) + 1), Close(how, k)
    PROVE  TypeOK' /\ Orderly' /\ Taken(t)'
<1>1. /\ closed = "no" /\ closed' = how /\ whole = Len(sent) /\ whole \in Nat
      /\ UNCHANGED <<protocol, sent, provider, channel, agent>>
      /\ wire' = SubSeq(wire, 1, k - 1)
  BY DEF Close, Orderly, TypeOK
<1>2. k - 1 \in 0 .. Len(wire) /\ Len(wire) \in Nat /\ Len(buffer) \in Nat
  BY DEF TypeOK
<1>3. /\ wire' \in Seq(Unit) /\ Len(wire') = k - 1
      /\ \A i \in 1 .. (k - 1) : wire'[i] = wire[i]
  BY <1>1, <1>2 DEF TypeOK
<1>4. /\ buffer \in Seq(Unit) /\ wire \in Seq(Unit)
      /\ stream' = buffer \o wire' /\ stream = buffer \o wire
  BY <1>1 DEF TypeOK, stream, provider
<1>5. PICK K \in Nat : K = Len(buffer) + (k - 1)
  <2>1. Len(buffer) + (k - 1) \in Nat
    BY <1>2
  <2> QED
    BY <2>1
<1>6. /\ Len(stream) \in Nat /\ Len(stream') = K
      /\ \A i \in 1 .. K : i \in 1 .. Len(stream) /\ stream'[i] = stream[i]
      /\ k \in 1 .. Len(wire) => K + 1 \in 1 .. Len(stream) /\ stream[K + 1] = wire[k]
      /\ k \notin 1 .. Len(wire) => K = Len(stream)
  <2>1. /\ Len(stream) = Len(buffer) + Len(wire) /\ Len(stream') = Len(buffer) + (k - 1)
        /\ \A i \in 1 .. Len(stream) : stream[i] = IF i <= Len(buffer) THEN buffer[i] ELSE wire[i - Len(buffer)]
        /\ \A i \in 1 .. Len(stream') : stream'[i] = IF i <= Len(buffer) THEN buffer[i] ELSE wire'[i - Len(buffer)]
    BY <1>3, <1>4, ConcatProperties
  <2> HIDE DEF stream
  <2>2. K + 1 - Len(buffer) = k
    BY <1>2, <1>5
  <2>3. k \in 1 .. Len(wire) => K + 1 \in 1 .. Len(stream) /\ K + 1 > Len(buffer)
    BY <1>2, <1>5, <2>1
  <2>4. \A i \in 1 .. K : i \in 1 .. Len(stream) /\ (i <= Len(buffer) \/ i - Len(buffer) \in 1 .. (k - 1))
    BY <1>2, <1>5, <2>1
  <2>5. \A i \in 1 .. K : stream'[i] = stream[i]
    BY <1>3, <1>5, <2>1, <2>4
  <2>6. k \in 1 .. Len(wire) => stream[K + 1] = wire[k]
    BY <1>2, <1>5, <2>1, <2>2, <2>3
  <2> QED
    BY <1>2, <1>5, <2>1, <2>3, <2>4, <2>5, <2>6
<1>7. Flowing(t) /\ Phased(t)
  BY DEF Taken
<1>8. whole' \in t .. whole /\ (k \in 1 .. Len(wire) => whole' = stream[K + 1].event - 1)
  <2>1. CASE k \in 1 .. Len(wire)
    <3>1. whole' = stream[K + 1].event - 1
      BY <1>4, <1>6, <2>1 DEF Close
    <3>2. stream[K + 1].event \in (t + 1) .. whole
      BY <1>1, <1>6, <1>7, <2>1 DEF Flowing
    <3> QED
      BY <1>1, <3>1, <3>2
  <2>2. CASE k \notin 1 .. Len(wire)
    <3>1. whole' = whole
      BY <1>4, <2>2 DEF Close
    <3> QED
      BY <1>1, <1>7, <2>2, <3>1 DEF Flowing
  <2> QED
    BY <2>1, <2>2
<1> HIDE DEF stream
<1>9. TypeOK'
  BY <1>1, <1>3, <1>8 DEF TypeOK, provider, agent
<1>10. Orderly'
  BY <1>1 DEF Orderly, InTurn
<1>11. Flowing(t)'
  <2>1. ASSUME NEW i \in 1 .. K
        PROVE  /\ stream'[i].event \in (t + 1) .. Len(sent')
               /\ stream'[i].part = "blank" => stream'[i].event <= whole'
               /\ stream'[i].part \in {"lead", "rest"} => sent'[stream'[i].event].wide
               /\ stream'[i].garbled => stream'[i].part \in {"lead", "rest"}
               /\ protocol' = "responses" => stream'[i].part = "blank"
    <3>1. stream'[i] = stream[i] /\ i \in 1 .. Len(stream)
      BY <1>6
    <3>2. ASSUME stream[i].part = "blank"
          PROVE  stream[i].event <= whole'
      <4>1. CASE k \in 1 .. Len(wire)
        <5>1. stream[i].event \in (t + 1) .. Len(sent) /\ stream[K + 1].event \in (t + 1) .. Len(sent)
          BY <1>6, <1>7, <3>1, <4>1 DEF Flowing
        <5>2. stream[i].event <= stream[K + 1].event /\ stream[i].event # stream[K + 1].event
          <6>1. i < K + 1
            BY <1>5
          <6> QED
            BY <1>6, <1>7, <3>1, <3>2, <4>1, <6>1 DEF Flowing
        <5>3. whole' = stream[K + 1].event - 1
          BY <1>8, <4>1
        <5>4. stream[i].event \in Int /\ stream[K + 1].event \in Int
          BY <5>1
        <5> QED
          BY ONLY <5>2, <5>3, <5>4
      <4>2. CASE k \notin 1 .. Len(wire)
        <5>1. whole' = whole
          BY <1>4, <4>2 DEF Close
        <5> QED
          BY <1>7, <3>1, <3>2, <5>1 DEF Flowing
      <4> QED
        BY <4>1, <4>2
    <3> QED
      BY <1>1, <1>7, <3>1, <3>2 DEF Flowing
  <2>2. ASSUME NEW i \in 1 .. K, NEW j \in 1 .. K, i < j
        PROVE  /\ stream'[i].event <= stream'[j].event
               /\ stream'[i].part = "blank" => stream'[i].event # stream'[j].event
    <3>1. i \in 1 .. Len(stream) /\ j \in 1 .. Len(stream) /\ stream'[i] = stream[i] /\ stream'[j] = stream[j]
      BY <1>6
    <3> QED
      BY <1>7, <2>2, <3>1 DEF Flowing
  <2>3. ASSUME NEW v \in (t + 1) .. whole'
        PROVE  \E i \in 1 .. K : stream'[i].event = v /\ stream'[i].part = "blank"
    <3>1. v \in (t + 1) .. whole
      BY <1>1, <1>8
    <3>2. PICK i \in 1 .. Len(stream) : stream[i].event = v /\ stream[i].part = "blank"
      BY <1>7, <3>1 DEF Flowing
    <3>3. i \in 1 .. K
      <4>1. CASE k \in 1 .. Len(wire)
        <5>1. v < stream[K + 1].event
          <6>1. stream[K + 1].event \in (t + 1) .. Len(sent)
            BY <1>6, <1>7, <4>1 DEF Flowing
          <6> QED
            BY <1>8, <4>1, <6>1
        <5>2. stream[K + 1].event \in Int
          BY <1>6, <1>7, <4>1 DEF Flowing
        <5>3. i # K + 1
          BY <3>2, <5>1, <5>2
        <5>4. ~(K + 1 < i)
          BY <1>6, <1>7, <3>2, <4>1, <5>1, <5>2 DEF Flowing
        <5> QED
          BY <1>6, <5>3, <5>4
      <4>2. CASE k \notin 1 .. Len(wire)
        BY <1>6, <4>2
      <4> QED
        BY <4>1, <4>2
    <3> QED
      BY <1>6, <3>2, <3>3
  <2>4. t <= whole' /\ (protocol' = "responses" => buffer' = <<>>)
    BY <1>1, <1>7, <1>8 DEF Flowing, provider
  <2> QED
    BY <1>6, <2>1, <2>2, <2>3, <2>4 DEF Flowing
<1>12. Phased(t)'
  <2>1. task \in {"flushing", "ok"} => t = whole'
    BY <1>1, <1>7, <1>8 DEF Phased
  <2> QED
    BY <1>1, <1>7, <2>1 DEF Phased, provider, agent
<1>13. Accumulated(t)' /\ Heard(t)' /\ Handed(t)'
  <2>1. flight' = flight
    BY <1>1 DEF flight, provider
  <2> QED
    BY <1>1, <2>1, StillTaken DEF Taken, provider, agent
<1> QED
  BY <1>9, <1>10, <1>11, <1>12, <1>13 DEF Taken

LEMMA RequestFailsKeeps ==
    ASSUME TypeOK, Orderly, NEW t \in Nat, Taken(t), RequestFails
    PROVE  TypeOK' /\ Orderly' /\ Taken(t)'
<1>1. /\ sent = <<>> /\ closed = "no" /\ closed' = "lost" /\ task' = "error"
      /\ UNCHANGED <<protocol, sent, whole, wire, buffer, accumulators, started, outbox, channel, agent>>
  BY DEF RequestFails
<1>2. TypeOK'
  BY <1>1 DEF TypeOK, agent
<1>3. Orderly'
  BY <1>1 DEF Orderly, InTurn
<1>4. stream' = stream /\ flight' = flight
  BY <1>1 DEF stream, flight
<1>5. Flowing(t)'
  BY <1>1, <1>4 DEF Taken, Flowing
<1>6. task = "reading" /\ result = "none"
  BY <1>1 DEF TypeOK, Taken, Phased
<1>7. Phased(t)'
  BY <1>1, <1>6 DEF Phased, agent
<1>8. Accumulated(t)' /\ Heard(t)' /\ Handed(t)'
  BY <1>1, <1>4, <1>6, StillTaken DEF Taken, agent
<1> QED
  BY <1>2, <1>3, <1>5, <1>7, <1>8 DEF Taken

-----------------------------------------------------------------------------
(* The provider task.                                                      *)

LEMMA SendNextKeeps ==
    ASSUME TypeOK, Orderly, NEW t \in Nat, Taken(t), SendNext
    PROVE  TypeOK' /\ Orderly' /\ Taken(t)'
<1>1. /\ outbox # <<>> /\ Len(channel) < BufferSize
      /\ channel' = Append(channel, Head(outbox)) /\ outbox' = Tail(outbox)
      /\ UNCHANGED <<protocol, server, wire, buffer, accumulators, started, task, agent>>
  BY DEF SendNext
<1>2. /\ channel' \in Seq(ProviderEvent) /\ outbox' \in Seq(ProviderEvent)
      /\ Len(channel') = Len(channel) + 1 /\ Len(channel) \in Nat
      /\ channel' \o outbox' = channel \o outbox
  <2>1. /\ outbox \in Seq(ProviderEvent) /\ channel \in Seq(ProviderEvent) /\ Head(outbox) \in ProviderEvent
    BY <1>1 DEF TypeOK
  <2> HIDE DEF ProviderEvent
  <2>2. /\ channel' \in Seq(ProviderEvent) /\ outbox' \in Seq(ProviderEvent)
        /\ Len(channel') = Len(channel) + 1 /\ Len(channel) \in Nat
    BY <1>1, <2>1
  <2>3. /\ channel' \o outbox' \in Seq(ProviderEvent) /\ channel \o outbox \in Seq(ProviderEvent)
        /\ Len(channel' \o outbox') = Len(channel \o outbox)
    BY <1>1, <2>1, <2>2
  <2>4. \A i \in 1 .. Len(channel \o outbox) : (channel' \o outbox')[i] = (channel \o outbox)[i]
    BY <1>1, <2>1, <2>2
  <2> QED
    BY <2>2, <2>3, <2>4, SeqEqual
<1>3. TypeOK'
  BY <1>1, <1>2, StreamAssumption DEF TypeOK, StreamAssumption, server, agent
<1>4. Orderly'
  BY <1>1 DEF Orderly, InTurn, server
<1>5. stream' = stream /\ flight' = flight
  BY <1>1, <1>2 DEF stream, flight
<1>6. Flowing(t)'
  BY <1>1, <1>5 DEF Taken, Flowing, server
<1>7. Phased(t)'
  BY <1>1 DEF Taken, Phased, server, agent
<1>8. Accumulated(t)' /\ Heard(t)' /\ Handed(t)'
  BY <1>1, <1>5, StillTaken DEF Taken, server, agent
<1> QED
  BY <1>3, <1>4, <1>6, <1>7, <1>8 DEF Taken

LEMMA ReadFragmentKeeps ==
    ASSUME TypeOK, Orderly, NEW t \in Nat, Taken(t), NEW n \in 1 .. Len(wire), ReadFragment(n)
    PROVE  TypeOK' /\ Orderly' /\ Taken(t)'
<1> DEFINE r == SubSeq(wire, 1, n)
           d == Decoded(r)
<1>1. /\ protocol = "chat"
      /\ buffer' = buffer \o d /\ wire' = SubSeq(wire, n + 1, Len(wire))
      /\ UNCHANGED <<protocol, server, accumulators, started, outbox, task, channel, agent>>
  BY DEF ReadFragment
<1>2. buffer \in Seq(Unit) /\ wire \in Seq(Unit) /\ Len(wire) \in Nat /\ Len(buffer) \in Nat
  BY DEF TypeOK
<1>3. r \in Seq(Unit) /\ Len(r) = n /\ \A i \in 1 .. n : r[i] = wire[i] /\ wire[i] \in Unit
  BY <1>2
<1>4. /\ d \in Seq(Unit) /\ Len(d) = n
      /\ \A i \in 1 .. n : /\ d[i].event = wire[i].event /\ d[i].part = wire[i].part
                           /\ d[i].garbled => d[i].part \in {"lead", "rest"}
  <2> HIDE DEF r
  <2> DEFINE cut(i) == \/ r[i].part = "lead" /\ i = Len(r)
                       \/ r[i].part = "rest" /\ i = 1
  <2>1. d = [i \in 1 .. n |-> [r[i] EXCEPT !.garbled = cut(i)]]
    BY <1>3 DEF Decoded
  <2>2. \A i : cut(i) \in BOOLEAN /\ (cut(i) => r[i].part \in {"lead", "rest"})
    OBVIOUS
  <2> HIDE DEF cut
  <2>3. ASSUME NEW i \in 1 .. n
        PROVE  /\ d[i] \in Unit
               /\ d[i].event = wire[i].event /\ d[i].part = wire[i].part
               /\ d[i].garbled => d[i].part \in {"lead", "rest"}
    <3>1. r[i] \in Unit /\ r[i] = wire[i] /\ d[i] = [r[i] EXCEPT !.garbled = cut(i)]
      BY <1>3, <2>1
    <3>2. d[i] \in Unit /\ d[i].event = r[i].event /\ d[i].part = r[i].part
      BY <2>2, <3>1 DEF Unit
    <3>3. d[i].garbled = cut(i)
      BY <3>1 DEF Unit
    <3> QED
      BY <2>2, <3>1, <3>2, <3>3
  <2>4. n \in Nat /\ d \in [1 .. n -> Unit]
    <3> DEFINE u(i) == [r[i] EXCEPT !.garbled = cut(i)]
    <3>1. d = [i \in 1 .. n |-> u(i)]
      BY <2>1
    <3> HIDE DEF u
    <3>2. \A i \in 1 .. n : u(i) \in Unit
      BY <2>3, <3>1
    <3> QED
      BY ONLY <3>1, <3>2, n \in 1 .. Len(wire)
  <2>5. d \in Seq(Unit) /\ Len(d) = n
    BY ONLY <2>4
  <2> QED
    BY <2>3, <2>5
<1> HIDE DEF r, d
<1>5. /\ wire' \in Seq(Unit) /\ Len(wire') = Len(wire) - n
      /\ \A i \in 1 .. (Len(wire) - n) : wire'[i] = wire[n + i]
  BY <1>1, <1>2
<1>6. buffer' \in Seq(Unit)
  BY <1>1, <1>2, <1>4
<1>7. TypeOK'
  BY <1>1, <1>5, <1>6 DEF TypeOK, server, agent
<1>8. Orderly'
  BY <1>1 DEF Orderly, InTurn, server
<1>9. flight' = flight
  BY <1>1 DEF flight
<1>10. /\ Len(stream') = Len(stream)
       /\ \A i \in 1 .. Len(stream) :
             /\ stream'[i].event = stream[i].event /\ stream'[i].part = stream[i].part
             /\ stream'[i] = stream[i] \/ (stream'[i].garbled => stream'[i].part \in {"lead", "rest"})
  <2>1. stream = buffer \o wire /\ stream' = (buffer \o d) \o wire'
    BY <1>1 DEF stream
  <2>2. Len(stream') = Len(stream)
    <3>1. n \in Nat /\ buffer \o d \in Seq(Unit) /\ Len(buffer \o d) = Len(buffer) + n
      BY <1>2, <1>4
    <3>2. Len(stream') = Len(buffer \o d) + Len(wire')
      BY <1>5, <2>1, <3>1, ConcatProperties
    <3>3. Len(stream) = Len(buffer) + Len(wire)
      BY <1>2, <2>1, ConcatProperties
    <3> QED
      BY <1>2, <1>5, <3>1, <3>2, <3>3
  <2>3. ASSUME NEW i \in 1 .. Len(stream)
        PROVE  /\ stream'[i].event = stream[i].event /\ stream'[i].part = stream[i].part
               /\ stream'[i] = stream[i] \/ (stream'[i].garbled => stream'[i].part \in {"lead", "rest"})
    <3>1. CASE i <= Len(buffer)
      <4>1. stream'[i] = stream[i]
        BY <1>2, <1>4, <1>5, <2>1, <3>1
      <4> QED
        BY <4>1
    <3>2. CASE Len(buffer) < i /\ i <= Len(buffer) + n
      <4>1. /\ i - Len(buffer) \in 1 .. n
            /\ stream[i] = wire[i - Len(buffer)] /\ stream'[i] = d[i - Len(buffer)]
        BY <1>2, <1>4, <1>5, <2>1, <3>2
      <4> QED
        BY <1>4, <4>1
    <3>3. CASE Len(buffer) + n < i
      <4>1. /\ i - Len(buffer) - n \in 1 .. (Len(wire) - n)
            /\ stream[i] = wire[i - Len(buffer)] /\ stream'[i] = wire'[i - Len(buffer) - n]
        BY <1>2, <1>4, <1>5, <2>1, <3>3
      <4>2. n + (i - Len(buffer) - n) = i - Len(buffer)
        BY <1>2
      <4> QED
        BY <1>5, <4>1, <4>2
    <3> QED
      BY <1>2, <3>1, <3>2, <3>3
  <2> QED
    BY <2>2, <2>3
<1> HIDE DEF stream
<1>11. Flowing(t)'
  <2>1. Flowing(t) /\ UNCHANGED <<protocol, sent, whole>>
    BY <1>1 DEF Taken, server
  <2>2. ASSUME NEW i \in 1 .. Len(stream')
        PROVE  /\ stream'[i].event \in (t + 1) .. Len(sent')
               /\ stream'[i].part = "blank" => stream'[i].event <= whole'
               /\ stream'[i].part \in {"lead", "rest"} => sent'[stream'[i].event].wide
               /\ stream'[i].garbled => stream'[i].part \in {"lead", "rest"}
               /\ protocol' = "responses" => stream'[i].part = "blank"
    <3>1. i \in 1 .. Len(stream)
      BY <1>10
    <3>2. /\ stream[i].event \in (t + 1) .. Len(sent)
          /\ stream[i].part = "blank" => stream[i].event <= whole
          /\ stream[i].part \in {"lead", "rest"} => sent[stream[i].event].wide
          /\ stream[i].garbled => stream[i].part \in {"lead", "rest"}
      BY <2>1, <3>1 DEF Flowing
    <3>3. stream'[i].garbled => stream'[i].part \in {"lead", "rest"}
      BY <1>10, <3>1, <3>2
    <3> QED
      BY <1>1, <1>10, <2>1, <3>1, <3>2, <3>3
  <2>3. ASSUME NEW i \in 1 .. Len(stream'), NEW j \in 1 .. Len(stream'), i < j
        PROVE  /\ stream'[i].event <= stream'[j].event
               /\ stream'[i].part = "blank" => stream'[i].event # stream'[j].event
    BY <1>10, <2>1, <2>3 DEF Flowing
  <2>4. ASSUME NEW v \in (t + 1) .. whole'
        PROVE  \E i \in 1 .. Len(stream') : stream'[i].event = v /\ stream'[i].part = "blank"
    BY <1>10, <2>1 DEF Flowing
  <2>5. t <= whole' /\ (protocol' = "responses" => buffer' = <<>>)
    BY <1>1, <2>1 DEF Flowing
  <2> QED
    BY <2>2, <2>3, <2>4, <2>5 DEF Flowing
<1>12. Phased(t)'
  BY <1>1 DEF Taken, Phased, server, agent
<1>13. Accumulated(t)' /\ Heard(t)' /\ Handed(t)'
  BY <1>1, <1>9, StillTaken DEF Taken, server, agent
<1> QED
  BY <1>7, <1>8, <1>11, <1>12, <1>13 DEF Taken

\* The first event that is on its way is the one after those taken, and it is
\* all before the others.
LEMMA NextEvent ==
    ASSUME TypeOK, NEW t \in Nat, Flowing(t),
           NEW b \in 1 .. Len(stream), stream[b].part = "blank",
           \A i \in 1 .. (b - 1) : stream[i].part # "blank"
    PROVE  /\ t + 1 \in 1 .. whole /\ whole \in 1 .. Len(sent)
           /\ \A i \in 1 .. b : i \in 1 .. Len(stream) /\ stream[i].event = t + 1
           /\ \A i \in 1 .. Len(stream) : i > b => stream[i].event >= t + 2
<1>1. Len(sent) \in Nat /\ whole \in 0 .. Len(sent) /\ b \in Nat
  BY DEF TypeOK
<1>2. \A i \in 1 .. Len(stream) : stream[i].event \in (t + 1) .. Len(sent)
  BY DEF Flowing
<1>3. \A i, j \in 1 .. Len(stream) :
         i < j => /\ stream[i].event <= stream[j].event
                  /\ stream[i].part = "blank" => stream[i].event # stream[j].event
  BY DEF Flowing
<1>4. stream[b].event \in (t + 1) .. whole
  BY <1>1, <1>2 DEF Flowing
<1>5. t + 1 \in (t + 1) .. whole
  BY <1>1, <1>4
<1>6. PICK i \in 1 .. Len(stream) : stream[i].event = t + 1 /\ stream[i].part = "blank"
  BY <1>5 DEF Flowing
<1>7. i = b
  <2>1. i \notin 1 .. (b - 1)
    BY <1>6
  <2>2. ~(b < i)
    BY <1>3, <1>4, <1>6
  <2> QED
    BY <1>1, <2>1, <2>2
<1>8. \A j \in 1 .. b : j \in 1 .. Len(stream) /\ stream[j].event = t + 1
  <2> SUFFICES ASSUME NEW j \in 1 .. b
               PROVE  j \in 1 .. Len(stream) /\ stream[j].event = t + 1
    OBVIOUS
  <2>1. j \in 1 .. Len(stream)
    OBVIOUS
  <2>2. j < b => stream[j].event <= t + 1
    BY <1>3, <1>6, <1>7, <2>1
  <2>3. stream[j].event \in (t + 1) .. Len(sent)
    BY <1>2, <2>1
  <2> QED
    BY <1>1, <1>6, <1>7, <2>1, <2>2, <2>3
<1>9. \A j \in 1 .. Len(stream) : j > b => stream[j].event >= t + 2
  <2> SUFFICES ASSUME NEW j \in 1 .. Len(stream), j > b
               PROVE  stream[j].event >= t + 2
    OBVIOUS
  <2>1. t + 1 <= stream[j].event /\ t + 1 # stream[j].event
    BY <1>3, <1>6, <1>7
  <2>2. stream[j].event \in (t + 1) .. Len(sent)
    BY <1>2
  <2> QED
    BY <1>1, <2>1, <2>2
<1> QED
  BY <1>1, <1>4, <1>8, <1>9

\* Without that event, the others are on their way.
LEMMA FlowsOn ==
    ASSUME TypeOK, NEW t \in Nat, Flowing(t),
           NEW b \in 1 .. Len(stream), stream[b].part = "blank",
           \A i \in 1 .. (b - 1) : stream[i].part # "blank",
           Len(stream') = Len(stream) - b,
           \A i \in 1 .. (Len(stream) - b) : stream'[i] = stream[b + i],
           Len(stream) \in Nat,
           UNCHANGED <<protocol, sent, whole>>, protocol = "responses" => buffer' = <<>>
    PROVE  Flowing(t + 1)'
<1>1. /\ t + 1 \in 1 .. whole /\ whole \in 1 .. Len(sent)
      /\ \A i \in 1 .. b : stream[i].event = t + 1
      /\ \A i \in 1 .. Len(stream) : i > b => stream[i].event >= t + 2
  BY NextEvent
<1>2. ASSUME NEW i \in 1 .. Len(stream')
      PROVE  /\ b + i \in 1 .. Len(stream) /\ b + i > b /\ stream'[i] = stream[b + i]
             /\ i \in Nat
  OBVIOUS
<1>3. ASSUME NEW i \in 1 .. Len(stream')
      PROVE  /\ stream'[i].event \in (t + 1 + 1) .. Len(sent')
             /\ stream'[i].part = "blank" => stream'[i].event <= whole'
             /\ stream'[i].part \in {"lead", "rest"} => sent'[stream'[i].event].wide
             /\ stream'[i].garbled => stream'[i].part \in {"lead", "rest"}
             /\ protocol' = "responses" => stream'[i].part = "blank"
  <2>1. b + i \in 1 .. Len(stream) /\ b + i > b /\ stream'[i] = stream[b + i]
    BY <1>2
  <2>2. /\ stream[b + i].event \in (t + 1) .. Len(sent)
        /\ stream[b + i].part = "blank" => stream[b + i].event <= whole
        /\ stream[b + i].part \in {"lead", "rest"} => sent[stream[b + i].event].wide
        /\ stream[b + i].garbled => stream[b + i].part \in {"lead", "rest"}
        /\ protocol = "responses" => stream[b + i].part = "blank"
    BY <2>1 DEF Flowing
  <2>3. stream[b + i].event >= t + 2
    BY <1>1, <2>1
  <2>4. stream[b + i].event \in (t + 1 + 1) .. Len(sent)
    BY <1>1, <2>2, <2>3
  <2> QED
    BY <2>1, <2>2, <2>4
<1>4. ASSUME NEW i \in 1 .. Len(stream'), NEW j \in 1 .. Len(stream'), i < j
      PROVE  /\ stream'[i].event <= stream'[j].event
             /\ stream'[i].part = "blank" => stream'[i].event # stream'[j].event
  <2>1. b + i < b + j
    BY <1>4
  <2>2. /\ b + i \in 1 .. Len(stream) /\ stream'[i] = stream[b + i]
        /\ b + j \in 1 .. Len(stream) /\ stream'[j] = stream[b + j]
    BY <1>2
  <2> QED
    BY <2>1, <2>2 DEF Flowing
<1>5. ASSUME NEW v \in (t + 1 + 1) .. whole'
      PROVE  \E i \in 1 .. Len(stream') : stream'[i].event = v /\ stream'[i].part = "blank"
  <2>1. v \in (t + 1) .. whole /\ v # t + 1
    BY <1>1
  <2>2. PICK i \in 1 .. Len(stream) : stream[i].event = v /\ stream[i].part = "blank"
    BY <2>1 DEF Flowing
  <2>3. i \notin 1 .. b
    BY <1>1, <2>1, <2>2
  <2>4. i - b \in 1 .. (Len(stream) - b) /\ b + (i - b) = i
    BY <2>3
  <2>5. stream'[i - b] = stream[i]
    BY <2>4
  <2> QED
    BY <2>2, <2>4, <2>5
<1>6. t + 1 <= whole'
  BY <1>1
<1> QED
  BY <1>3, <1>4, <1>5, <1>6 DEF Flowing

\* The buffer of the chat protocol: its first blank line ends event t + 1.
LEMMA BufferFacts ==
    ASSUME TypeOK, NEW t \in Nat, Flowing(t), HasEvent
    PROVE  /\ FirstBlank \in 1 .. Len(buffer) /\ FirstBlank \in 1 .. Len(stream)
           /\ stream[FirstBlank].part = "blank"
           /\ \A i \in 1 .. (FirstBlank - 1) : stream[i].part # "blank"
           /\ \A i \in 1 .. Len(buffer) : buffer[i] = stream[i] /\ i \in 1 .. Len(stream)
<1>1. /\ buffer \in Seq(Unit) /\ wire \in Seq(Unit)
      /\ Len(stream) \in Nat /\ DOMAIN buffer = 1 .. Len(buffer) /\ Len(buffer) \in Nat
      /\ \A i \in 1 .. Len(buffer) : buffer[i] = stream[i] /\ i \in 1 .. Len(stream)
      /\ Len(sent) \in Nat /\ whole \in 0 .. Len(sent)
  BY DEF TypeOK, stream
<1> HIDE DEF stream
<1>2. PICK a \in 1 .. Len(buffer) : buffer[a].part = "blank"
  BY <1>1 DEF HasEvent
<1>3. /\ a \in 1 .. Len(stream) /\ stream[a].part = "blank"
      /\ stream[a].event \in (t + 1) .. whole
  <2>1. a \in 1 .. Len(stream) /\ stream[a].part = "blank"
    BY <1>1, <1>2
  <2>2. stream[a].event \in (t + 1) .. Len(sent) /\ stream[a].event <= whole
    BY <2>1 DEF Flowing
  <2> QED
    BY <1>1, <2>1, <2>2
<1>4. t + 1 \in (t + 1) .. whole
  BY <1>1, <1>3
<1>5. PICK b \in 1 .. Len(stream) : stream[b].event = t + 1 /\ stream[b].part = "blank"
  BY <1>4 DEF Flowing
<1>6. \A i, j \in 1 .. Len(stream) :
         i < j => /\ stream[i].event <= stream[j].event
                  /\ stream[i].part = "blank" => stream[i].event # stream[j].event
  BY DEF Flowing
<1>7. ~(a < b)
  BY <1>3, <1>5, <1>6
<1>8. b \in 1 .. Len(buffer)
  BY <1>1, <1>2, <1>7
<1>9. ASSUME NEW j \in 1 .. (b - 1)
      PROVE  buffer[j].part # "blank"
  <2>1. j \in 1 .. Len(stream) /\ j < b /\ buffer[j] = stream[j]
    BY <1>1, <1>8
  <2>2. stream[j].event \in (t + 1) .. Len(sent)
    BY <2>1 DEF Flowing
  <2> QED
    BY <1>5, <1>6, <2>1, <2>2
<1>10. /\ FirstBlank \in DOMAIN buffer
       /\ buffer[FirstBlank].part = "blank" /\ \A j \in 1 .. (FirstBlank - 1) : buffer[j].part # "blank"
  <2>1. b \in DOMAIN buffer /\ buffer[b].part = "blank" /\ \A j \in 1 .. (b - 1) : buffer[j].part # "blank"
    BY <1>1, <1>5, <1>8, <1>9
  <2> QED
    BY ONLY <2>1 DEF FirstBlank
<1> HIDE DEF FirstBlank
<1>11. \A i \in 1 .. (FirstBlank - 1) : i \in 1 .. Len(buffer)
  BY <1>1, <1>10
<1> QED
  BY <1>1, <1>10, <1>11

\* Both protocols take event t + 1, which came whole; what it says is garbled only
\* if it has a character that can be cut.
LEMMA TakesNext ==
    ASSUME TypeOK, Orderly, NEW t \in Nat, Taken(t), TakeEvent \/ TakeStreamed
    PROVE  /\ Flowing(t + 1)' /\ t + 1 \in 1 .. whole /\ t + 1 \in 1 .. Len(sent)
           /\ buffer' \in Seq(Unit) /\ wire' \in Seq(Unit)
           /\ task = "reading" /\ outbox = <<>>
           /\ UNCHANGED <<protocol, server, channel, agent>>
           /\ \E garbled \in BOOLEAN :
                 /\ garbled => sent[t + 1].wide
                 /\ \/ TakePlain(sent[t + 1], garbled)
                    \/ protocol = "chat" /\ TakeDelta(sent[t + 1], garbled)
                    \/ protocol = "responses" /\ TakeItem(sent[t + 1])
<1>1. Flowing(t) /\ buffer \in Seq(Unit) /\ wire \in Seq(Unit) /\ Len(stream) \in Nat
  BY DEF Taken, TypeOK, stream
<1>2. ASSUME NEW b \in 1 .. Len(stream), stream[b].part = "blank",
             \A i \in 1 .. (b - 1) : stream[i].part # "blank"
      PROVE  /\ t + 1 \in 1 .. whole /\ t + 1 \in 1 .. Len(sent)
             /\ \A i \in 1 .. b : stream[i].event = t + 1
  BY <1>1, <1>2, NextEvent DEF TypeOK
<1>3. CASE TakeEvent
  <2> DEFINE b == FirstBlank
  <2>1. /\ protocol = "chat" /\ task = "reading" /\ outbox = <<>> /\ HasEvent
        /\ buffer' = SubSeq(buffer, b + 1, Len(buffer))
        /\ UNCHANGED <<protocol, server, wire, channel, agent>>
    BY <1>3 DEF TakeEvent, Reading
  <2>2. /\ b \in 1 .. Len(buffer) /\ b \in 1 .. Len(stream) /\ stream[b].part = "blank"
        /\ \A i \in 1 .. (b - 1) : stream[i].part # "blank"
        /\ \A i \in 1 .. Len(buffer) : buffer[i] = stream[i] /\ i \in 1 .. Len(stream)
    BY <1>1, <2>1, BufferFacts
  <2>3. \/ TakePlain(sent[buffer[1].event], \E i \in 1 .. b : buffer[i].garbled)
        \/ TakeDelta(sent[buffer[1].event], \E i \in 1 .. b : buffer[i].garbled)
    BY <1>3 DEF TakeEvent
  <2> HIDE DEF b
  <2>4. /\ t + 1 \in 1 .. whole /\ t + 1 \in 1 .. Len(sent)
        /\ \A i \in 1 .. b : stream[i].event = t + 1
    BY <1>2, <2>2
  <2>5. /\ buffer' \in Seq(Unit) /\ Len(buffer') = Len(buffer) - b
        /\ \A i \in 1 .. (Len(buffer) - b) : buffer'[i] = buffer[b + i]
        /\ wire' = wire /\ b \in Nat /\ Len(buffer) \in Nat
    BY <1>1, <2>1, <2>2
  <2>6. /\ Len(stream') = Len(stream) - b
        /\ \A i \in 1 .. (Len(stream) - b) : stream'[i] = stream[b + i]
    <3>1. stream = buffer \o wire /\ stream' = buffer' \o wire
      BY <2>5 DEF stream
    <3>2. /\ Len(stream) = Len(buffer) + Len(wire) /\ Len(stream') = Len(buffer') + Len(wire) /\ Len(wire) \in Nat
          /\ \A i \in 1 .. (Len(buffer) + Len(wire)) :
                stream[i] = IF i <= Len(buffer) THEN buffer[i] ELSE wire[i - Len(buffer)]
          /\ \A i \in 1 .. (Len(buffer') + Len(wire)) :
                stream'[i] = IF i <= Len(buffer') THEN buffer'[i] ELSE wire[i - Len(buffer')]
      <4>1. /\ Len(stream) = Len(buffer) + Len(wire) /\ Len(wire) \in Nat
            /\ \A i \in 1 .. (Len(buffer) + Len(wire)) :
                  stream[i] = IF i <= Len(buffer) THEN buffer[i] ELSE wire[i - Len(buffer)]
        BY <1>1, <3>1, ConcatProperties
      <4>2. /\ Len(stream') = Len(buffer') + Len(wire)
            /\ \A i \in 1 .. (Len(buffer') + Len(wire)) :
                  stream'[i] = IF i <= Len(buffer') THEN buffer'[i] ELSE wire[i - Len(buffer')]
        BY <1>1, <2>5, <3>1, ConcatProperties
      <4> QED
        BY <4>1, <4>2
    <3> HIDE DEF stream
    <3>3. ASSUME NEW i \in 1 .. (Len(stream) - b)
          PROVE  stream'[i] = stream[b + i]
      <4>1. b + i \in 1 .. (Len(buffer) + Len(wire)) /\ i \in 1 .. (Len(buffer') + Len(wire))
        BY <2>5, <3>2
      <4>2. CASE i <= Len(buffer')
        <5>1. i \in 1 .. (Len(buffer) - b) /\ b + i <= Len(buffer)
          BY <2>5, <4>2
        <5> QED
          BY <2>5, <3>2, <4>1, <4>2, <5>1
      <4>3. CASE ~(i <= Len(buffer'))
        <5>1. ~(b + i <= Len(buffer)) /\ (b + i) - Len(buffer) = i - Len(buffer')
          BY <2>5, <4>3
        <5>2. stream'[i] = wire[i - Len(buffer')]
          BY <3>2, <4>1, <4>3
        <5>3. stream[b + i] = wire[(b + i) - Len(buffer)]
          BY <3>2, <4>1, <5>1
        <5> QED
          BY <5>1, <5>2, <5>3
      <4> QED
        BY <4>2, <4>3
    <3> QED
      BY <2>5, <3>2, <3>3
  <2>7. Flowing(t + 1)'
    BY <1>1, <2>1, <2>2, <2>6, FlowsOn DEF server
  <2>8. 1 \in 1 .. b /\ 1 \in 1 .. Len(buffer)
    BY <2>2, <2>5
  <2>9. buffer[1].event = t + 1
    BY <2>2, <2>4, <2>8
  <2>10. ASSUME NEW i \in 1 .. b, buffer[i].garbled
         PROVE  sent[t + 1].wide
    <3>1. i \in 1 .. Len(stream) /\ stream[i].garbled /\ stream[i].event = t + 1
      BY <2>2, <2>4, <2>5, <2>10
    <3> QED
      BY <1>1, <3>1 DEF Flowing
  <2>11. \E garbled \in BOOLEAN :
            /\ garbled => sent[t + 1].wide
            /\ TakePlain(sent[t + 1], garbled) \/ TakeDelta(sent[t + 1], garbled)
    <3> DEFINE g == \E i \in 1 .. b : buffer[i].garbled
    <3>1. g \in BOOLEAN /\ (g => sent[t + 1].wide)
      BY <2>10
    <3>2. TakePlain(sent[t + 1], g) \/ TakeDelta(sent[t + 1], g)
      BY <2>3, <2>9
    <3> HIDE DEF g
    <3> QED
      BY <3>1, <3>2
  <2> QED
    BY <1>1, <2>1, <2>4, <2>5, <2>7, <2>11
<1>4. CASE TakeStreamed
  <2>1. /\ protocol = "responses" /\ task = "reading" /\ outbox = <<>> /\ wire # <<>>
        /\ wire' = Tail(wire) /\ UNCHANGED <<protocol, server, buffer, channel, agent>>
        /\ TakePlain(sent[Head(wire).event], FALSE) \/ TakeItem(sent[Head(wire).event])
    BY <1>4 DEF TakeStreamed, Reading
  <2>2. buffer = <<>> /\ \A i \in 1 .. Len(stream) : stream[i].part = "blank"
    BY <1>1, <2>1 DEF Flowing
  <2>3. stream = wire /\ stream' = wire'
    BY <1>1, <2>1, <2>2 DEF stream
  <2>4. /\ 1 \in 1 .. Len(stream) /\ stream[1].part = "blank"
        /\ \A i \in 1 .. (1 - 1) : stream[i].part # "blank"
        /\ Head(wire) = stream[1]
    BY <1>1, <2>1, <2>2, <2>3
  <2>5. /\ t + 1 \in 1 .. whole /\ t + 1 \in 1 .. Len(sent) /\ stream[1].event = t + 1
    BY <1>2, <2>4
  <2>6. /\ wire' \in Seq(Unit) /\ Len(stream') = Len(stream) - 1
        /\ \A i \in 1 .. (Len(stream) - 1) : stream'[i] = stream[1 + i]
    BY <1>1, <2>1, <2>3
  <2>7. Flowing(t + 1)'
    BY <1>1, <2>1, <2>2, <2>4, <2>6, FlowsOn DEF server
  <2>8. TakePlain(sent[t + 1], FALSE) \/ TakeItem(sent[t + 1])
    BY <2>1, <2>4, <2>5
  <2> QED
    BY <1>1, <2>1, <2>5, <2>6, <2>7, <2>8
<1> QED
  BY <1>3, <1>4

-----------------------------------------------------------------------------
(* What becomes of an event.                                               *)

\* Tokens: the text that was taken is the next token sent.
LEMMA HeardNext ==
    ASSUME TypeOK, Orderly, NEW t \in Nat, Heard(t), t + 1 \in 1 .. Len(sent),
           flight' \in Seq(ProviderEvent), NEW x \in ProviderEvent,
           flight' = flight \/ flight' = flight \o <<x>>,
           IF sent[t + 1].kind = "text"
           THEN /\ flight' = flight \o <<x>> /\ x.kind = "token" /\ x.n = sent[t + 1].n
                /\ x.garbled => sent[t + 1].wide
           ELSE x.kind # "token",
           UNCHANGED <<sent, response>>
    PROVE  Heard(t + 1)'
<1> DEFINE e == sent[t + 1]
           R == Len(response)
           A == Among(sent, "text", t)
           A1 == Among(sent, "text", t + 1)
<1>1. /\ flight \in Seq(ProviderEvent) /\ R \in Nat /\ e.n \in Nat
  <2>1. flight \in Seq(ProviderEvent) /\ R \in Nat
    BY DEF TypeOK, flight
  <2>2. e \in Event
    BY DEF TypeOK
  <2>3. e.n \in Nat
    BY <2>2 DEF Event
  <2> QED
    BY <2>1, <2>3
<1>2. \A tok : Excused(sent, tok, t) => Excused(sent', tok, t + 1)
  <2>1. \A j \in 1 .. t : j \in 1 .. (t + 1)
    OBVIOUS
  <2> QED
    BY <2>1 DEF Excused
<1>3. A \subseteq A1 /\ (e.kind # "text" => A1 = A) /\ (e.kind = "text" => A1 = A \cup {e.n})
  <2>1. t \in 0 .. (t + 1) /\ t + 1 \in Nat
    OBVIOUS
  <2> QED
    BY <2>1, AmongFacts
<1>4. e.kind = "text" => A = 1 .. (e.n - 1) /\ e.n # 0
  <2>1. InTurn(sent, t + 1) /\ (t + 1) - 1 = t
    BY DEF Orderly
  <2> QED
    BY <2>1 DEF InTurn
<1>5. \A i \in 1 .. R : response[i].n = i /\ i \in A /\ Excused(sent, response[i], t)
  BY DEF Heard
<1>6. /\ TokensIn(flight) = A \ (1 .. R) /\ Rising(flight)
      /\ \A i \in 1 .. Len(flight) : flight[i].kind = "token" => Excused(sent, flight[i], t)
  BY DEF Heard
<1> HIDE DEF e, A, A1, R, flight
<1>7. \A i \in 1 .. R : response[i].n = i /\ i \in A1 /\ Excused(sent', response[i], t + 1)
  BY <1>2, <1>3, <1>5
<1>8. CASE e.kind = "text"
  <2>1. /\ flight' = flight \o <<x>> /\ x.kind = "token" /\ x.n = e.n
        /\ x.garbled => e.wide
    BY <1>8 DEF e
  <2>2. TokenOf(x) = {e.n}
    BY <2>1 DEF TokenOf
  <2>3. e.n \notin 1 .. R
    BY <1>1, <1>4, <1>5, <1>8
  <2>4. TokensIn(flight') = A1 \ (1 .. R)
    BY <1>3, <1>6, <1>8, <2>1, <2>2, <2>3, SentFacts, <1>1
  <2>5. \A m \in TokensIn(flight), n \in TokenOf(x) : m < n
    BY <1>1, <1>4, <1>6, <1>8, <2>2
  <2>6. Rising(flight')
    BY <1>1, <1>6, <2>1, <2>5, SentFacts
  <2>7. Excused(sent', x, t + 1)
    <3>1. t + 1 \in 1 .. (t + 1)
      OBVIOUS
    <3> QED
      BY <1>8, <2>1, <3>1 DEF Excused, e
  <2>8. \A i \in 1 .. Len(flight') : flight'[i].kind = "token" => Excused(sent', flight'[i], t + 1)
    <3> SUFFICES ASSUME NEW i \in 1 .. Len(flight'), flight'[i].kind = "token"
                 PROVE  Excused(sent', flight'[i], t + 1)
      OBVIOUS
    <3>1. (i \in 1 .. Len(flight) /\ flight'[i] = flight[i]) \/ flight'[i] = x
      BY <1>1, <2>1, SentFacts
    <3> QED
      BY <1>2, <1>6, <2>7, <3>1
  <2> QED
    BY <1>7, <2>4, <2>6, <2>8 DEF Heard, A1, R
<1>9. CASE e.kind # "text"
  <2>1. x.kind # "token"
    BY <1>9 DEF e
  <2>2. TokenOf(x) = {}
    BY <2>1 DEF TokenOf
  <2>3. CASE flight' = flight
    BY <1>2, <1>3, <1>6, <1>7, <1>9, <2>3 DEF Heard, A1, R
  <2>4. CASE flight' = flight \o <<x>>
    <3>1. TokensIn(flight') = A1 \ (1 .. R)
      BY <1>1, <1>3, <1>6, <1>9, <2>2, <2>4, SentFacts
    <3>2. Rising(flight')
      BY <1>1, <1>6, <2>2, <2>4, SentFacts
    <3>3. \A i \in 1 .. Len(flight') : flight'[i].kind = "token" => Excused(sent', flight'[i], t + 1)
      <4> SUFFICES ASSUME NEW i \in 1 .. Len(flight'), flight'[i].kind = "token"
                   PROVE  Excused(sent', flight'[i], t + 1)
        OBVIOUS
      <4>1. (i \in 1 .. Len(flight) /\ flight'[i] = flight[i]) \/ flight'[i] = x
        BY <1>1, <2>4, SentFacts
      <4> QED
        BY <1>2, <1>6, <2>1, <4>1
    <3> QED
      BY <1>7, <3>1, <3>2, <3>3 DEF Heard, A1, R
  <2> QED
    BY <2>3, <2>4
<1> QED
  BY <1>8, <1>9

\* The arguments of a call parse when all their pieces are there.
LEMMA ParsedFacts ==
    ASSUME NEW c \in 1 .. MaxCalls, NEW m \in Nat
    PROVE  Parsed(Arguments(c, m)) = IF m = ArgPieces THEN Pieces(c) ELSE <<>>
<1>1. ArgPieces \in Nat
  BY StreamAssumption DEF StreamAssumption
<1>2. m = ArgPieces => Arguments(c, m) = Pieces(c)
  BY DEF Arguments, Pieces
<1>3. ASSUME m # ArgPieces, NEW d \in 1 .. MaxCalls
      PROVE  Arguments(c, m) # Pieces(d)
  <2>1. DOMAIN Arguments(c, m) = 1 .. m /\ DOMAIN Pieces(d) = 1 .. ArgPieces
    BY DEF Arguments, Pieces
  <2>2. 1 .. m # 1 .. ArgPieces
    BY <1>1, <1>3
  <2> QED
    BY <2>1, <2>2
<1> QED
  BY <1>2, <1>3 DEF Parsed

\* A piece that could be cut is so for good.
LEMMA TouchedNext ==
    ASSUME NEW t \in Nat, NEW c
    PROVE  /\ Touched(sent, c, t) => Touched(sent, c, t + 1)
           /\ sent[t + 1].kind = "arg" /\ sent[t + 1].wide => Touched(sent, sent[t + 1].n, t + 1)
BY DEF Touched

\* A call that is done had all its pieces, and gets no others.
LEMMA OwnNext ==
    ASSUME TypeOK, Orderly, NEW t \in Nat, t + 1 \in 1 .. Len(sent), sent' = sent,
           NEW call, call.call \in Among(sent, "done", t), Own(sent, call, t)
    PROVE  Own(sent', call, t + 1)
<1>1. t \in 0 .. Len(sent) /\ t + 1 \in 0 .. Len(sent) /\ t \in 0 .. (t + 1)
  BY DEF TypeOK
<1>2. call.call \in Among(sent, "done", t + 1)
  <2>1. Among(sent, "done", t) \subseteq Among(sent, "done", t + 1)
    BY <1>1, t + 1 \in Nat, AmongFacts
  <2> QED
    BY <2>1
<1>3. Times(sent, "arg", call.call, t) = ArgPieces /\ Times(sent, "arg", call.call, t + 1) = ArgPieces
  BY <1>1, <1>2, OrderlyFacts DEF TypeOK
<1>4. call.garbled => Touched(sent, call.call, t + 1)
  BY TouchedNext DEF Own
<1> QED
  BY <1>3, <1>4 DEF Own

\* Calls: what is done is handed over, and nothing else.
LEMMA HandedNext ==
    ASSUME TypeOK, Orderly, NEW t \in Nat, Handed(t), t + 1 \in 1 .. Len(sent),
           flight' \in Seq(ProviderEvent), NEW x \in ProviderEvent,
           flight' = flight \/ flight' = flight \o <<x>>,
           NEW call,
           IF sent[t + 1].kind = "done"
           THEN /\ flight' = flight \o <<x>> /\ x.kind = "calls" /\ x.calls = <<call>>
                /\ call.call = sent[t + 1].n /\ call.input = Pieces(call.call)
                /\ call.garbled => Touched(sent, call.call, t)
           ELSE x.kind # "calls",
           task = "reading", task' # "ok", UNCHANGED <<sent, toolCalls>>
    PROVE  Handed(t + 1)'
<1> DEFINE e == sent[t + 1]
           D == Among(sent, "done", t)
           D1 == Among(sent, "done", t + 1)
<1>1. flight \in Seq(ProviderEvent)
  BY DEF TypeOK, flight
<1>2. /\ Held \cup CallsIn(flight) = D /\ Held \cap CallsIn(flight) = {} /\ Distinct(flight)
      /\ \A i \in 1 .. Len(toolCalls) : Own(sent, toolCalls[i], t)
      /\ \A i \in 1 .. Len(flight) :
            flight[i].kind = "calls" => \A j \in 1 .. Len(flight[i].calls) : Own(sent, flight[i].calls[j], t)
  BY DEF Handed
<1>3. (e.kind # "done" => D1 = D) /\ (e.kind = "done" => D1 = D \cup {e.n})
  BY AmongFacts
<1>4. \A y : y.call \in D /\ Own(sent, y, t) => Own(sent', y, t + 1)
  BY OwnNext
<1>5. \A i \in 1 .. Len(toolCalls') : Own(sent', toolCalls'[i], t + 1)
  <2>1. \A i \in 1 .. Len(toolCalls) : toolCalls[i].call \in D
    BY <1>2 DEF Held
  <2> QED
    BY <1>2, <1>4, <2>1
<1>6. ASSUME NEW i \in 1 .. Len(flight), flight[i].kind = "calls", NEW j \in 1 .. Len(flight[i].calls)
      PROVE  Own(sent', flight[i].calls[j], t + 1)
  <2>1. flight[i].calls[j].call \in CallsIn(flight)
    BY <1>6, FlightMember DEF CallsOf
  <2>2. flight[i].calls[j].call \in D /\ Own(sent, flight[i].calls[j], t)
    BY <1>2, <1>6, <2>1
  <2> QED
    BY <1>4, <2>2
<1>7. Held' = Held
  BY DEF Held
<1> HIDE DEF e, D, D1, flight, Held
<1>8. CASE e.kind = "done"
  <2>1. /\ flight' = flight \o <<x>> /\ x.kind = "calls" /\ x.calls = <<call>>
        /\ call.call = e.n /\ call.input = Pieces(call.call)
        /\ call.garbled => Touched(sent, call.call, t)
    BY <1>8 DEF e
  <2>2. CallsOf(x) = {e.n} /\ Several(x)
    BY <2>1 DEF CallsOf, Several
  <2>3. e.n \notin D
    <3>1. InTurn(sent, t + 1) /\ (t + 1) - 1 = t
      BY DEF Orderly
    <3> QED
      BY <1>8, <3>1 DEF InTurn, D, e
  <2>4. CallsIn(flight') = CallsIn(flight) \cup {e.n} /\ Distinct(flight')
    BY <1>1, <1>2, <2>1, <2>2, <2>3, SentFacts
  <2>5. Held' \cup CallsIn(flight') = D1 /\ Held' \cap CallsIn(flight') = {}
    BY <1>2, <1>3, <1>7, <1>8, <2>3, <2>4
  <2>6. Own(sent', call, t + 1)
    <3>1. t + 1 \in 0 .. Len(sent) /\ e.n \in D1
      BY <1>3, <1>8 DEF TypeOK
    <3>2. Times(sent, "arg", e.n, t + 1) = ArgPieces
      BY <3>1, OrderlyFacts DEF TypeOK, D1
    <3>3. call.garbled => Touched(sent, call.call, t + 1)
      BY <2>1, TouchedNext
    <3> QED
      BY <2>1, <3>2, <3>3 DEF Own
  <2>7. ASSUME NEW i \in 1 .. Len(flight'), flight'[i].kind = "calls", NEW j \in 1 .. Len(flight'[i].calls)
        PROVE  Own(sent', flight'[i].calls[j], t + 1)
    <3>1. (i \in 1 .. Len(flight) /\ flight'[i] = flight[i]) \/ flight'[i] = x
      BY <1>1, <2>1, SentFacts
    <3>2. CASE flight'[i] = x
      <4>1. flight'[i].calls[j] = call
        BY <2>1, <2>7, <3>2
      <4> QED
        BY <2>6, <4>1
    <3> QED
      BY <1>6, <2>7, <3>1, <3>2
  <2> QED
    BY <1>5, <2>4, <2>5, <2>7 DEF Handed, D1
<1>9. CASE e.kind # "done"
  <2>1. x.kind # "calls" /\ D1 = D
    BY <1>3, <1>9 DEF e
  <2>2. CallsOf(x) = {} /\ Several(x)
    BY <2>1 DEF CallsOf, Several
  <2>3. /\ CallsIn(flight') = CallsIn(flight) /\ Distinct(flight')
        /\ \A i \in 1 .. Len(flight') : (i \in 1 .. Len(flight) /\ flight'[i] = flight[i]) \/ flight'[i] = x
    <3>1. CASE flight' = flight
      BY <1>2, <3>1
    <3>2. CASE flight' = flight \o <<x>>
      <4>1. CallsIn(flight') = CallsIn(flight)
        <5>1. CallsIn(flight') = CallsIn(flight) \cup CallsOf(x)
          BY <1>1, <3>2, SentFacts
        <5> QED
          BY ONLY <2>2, <5>1
      <4>2. Distinct(flight')
        BY <1>1, <1>2, <2>2, <3>2, SentFacts
      <4>3. \A i \in 1 .. Len(flight') : (i \in 1 .. Len(flight) /\ flight'[i] = flight[i]) \/ flight'[i] = x
        BY <1>1, <3>2, SentFacts
      <4> QED
        BY <4>1, <4>2, <4>3
    <3> QED
      BY <3>1, <3>2
  <2>4. ASSUME NEW i \in 1 .. Len(flight'), flight'[i].kind = "calls", NEW j \in 1 .. Len(flight'[i].calls)
        PROVE  Own(sent', flight'[i].calls[j], t + 1)
    <3>1. i \in 1 .. Len(flight) /\ flight'[i] = flight[i]
      BY <2>1, <2>3, <2>4
    <3> QED
      BY <1>6, <2>4, <3>1
  <2> QED
    BY <1>2, <1>5, <1>7, <2>1, <2>3, <2>4 DEF Handed, D1
<1> QED
  BY <1>8, <1>9

\* An accumulator is what its fields are.
LEMMA FieldsOf ==
    ASSUME NEW n, NEW A, NEW g, NEW acc, acc \in [call : {n}, arguments : {A}, garbled : {g}]
    PROVE  acc = [call |-> n, arguments |-> A, garbled |-> g]
OBVIOUS

\* The pieces of a call, added one by one.
LEMMA ArgumentsFacts ==
    ASSUME NEW c \in Nat, NEW m \in Nat
    PROVE  /\ \A g \in BOOLEAN : [call |-> c, arguments |-> Arguments(c, m), garbled |-> g] \in Accumulator
           /\ Append(Arguments(c, m), <<c, m + 1>>) = Arguments(c, m + 1)
           /\ Len(Arguments(c, m)) = m
           /\ Cardinality({i \in DOMAIN Arguments(c, m) : Arguments(c, m)[i][1] = c}) = m
           /\ Arguments(c, 0) = <<>>
<1> DEFINE A == Arguments(c, m)
<1>1. A \in Seq(Nat \X Nat) /\ Len(A) = m /\ DOMAIN A = 1 .. m /\ \A p \in 1 .. m : A[p] = <<c, p>>
  <2>1. \A p \in 1 .. m : <<c, p>> \in Nat \X Nat
    OBVIOUS
  <2>2. A \in [1 .. m -> Nat \X Nat]
    BY <2>1 DEF Arguments
  <2> QED
    BY <2>2 DEF Arguments
<1>2. \A g \in BOOLEAN : [call |-> c, arguments |-> A, garbled |-> g] \in Accumulator
  BY <1>1 DEF Accumulator
<1>3. Append(A, <<c, m + 1>>) = Arguments(c, m + 1)
  <2> DEFINE B == Append(A, <<c, m + 1>>)
  <2>1. DOMAIN B = 1 .. (m + 1) /\ \A p \in 1 .. (m + 1) : B[p] = IF p = m + 1 THEN <<c, m + 1>> ELSE A[p]
    BY <1>1
  <2>2. B = [p \in 1 .. (m + 1) |-> B[p]]
    BY <1>1
  <2>3. \A p \in 1 .. (m + 1) : B[p] = <<c, p>>
    BY <1>1, <2>1
  <2> HIDE DEF B
  <2> QED
    BY <2>2, <2>3 DEF Arguments, B
<1>4. Cardinality({i \in DOMAIN A : A[i][1] = c}) = m
  <2>1. {i \in DOMAIN A : A[i][1] = c} = 1 .. m
    BY <1>1
  <2>2. Cardinality(1 .. m) = m
    BY FS_Interval
  <2> QED
    BY <2>1, <2>2
<1>5. Arguments(c, 0) = <<>>
  BY DEF Arguments
<1> QED
  BY <1>1, <1>2, <1>3, <1>4, <1>5

\* Accumulators: an open call and its pieces are added, a call that is done is
\* taken out.
LEMMA AccumulatedNext ==
    ASSUME TypeOK, Orderly, NEW t \in Nat, Accumulated(t), t + 1 \in 1 .. Len(sent),
           NEW garbled \in BOOLEAN, garbled => sent[t + 1].wide,
           \/ TakePlain(sent[t + 1], garbled)
           \/ protocol = "chat" /\ TakeDelta(sent[t + 1], garbled)
           \/ protocol = "responses" /\ TakeItem(sent[t + 1]),
           UNCHANGED <<protocol, sent>>
    PROVE  Accumulated(t + 1)' /\ \A k \in DOMAIN accumulators' : accumulators'[k] \in Accumulator
<1> DEFINE e == sent[t + 1]
           n == e.n
           O(k) == Among(sent, "open", k)
           D(k) == Among(sent, "done", k)
           M(c, k) == Times(sent, "arg", c, k)
           T(c, k) == Touched(sent, c, k)
           G(c) == accumulators[Key(c)].garbled
           Acc(c, k, g) == [call |-> c, arguments |-> Arguments(c, M(c, k)), garbled |-> g]
           U == Unfinished(t)
           V == Unfinished(t + 1)
<1>1. /\ e \in Event /\ n \in Nat /\ e.kind \in Kinds
      /\ t \in 0 .. Len(sent) /\ t + 1 \in 0 .. Len(sent) /\ sent \in Seq(Event) /\ MaxCalls \in Nat
  <2>1. e \in Event /\ t \in 0 .. Len(sent) /\ t + 1 \in 0 .. Len(sent) /\ sent \in Seq(Event)
    BY DEF TypeOK
  <2>2. MaxCalls \in Nat
    BY StreamAssumption DEF StreamAssumption
  <2>3. n \in Nat /\ e.kind \in Kinds
    BY <2>1 DEF Event
  <2> QED
    BY <2>1, <2>2, <2>3
<1>2. /\ DOMAIN accumulators = {Key(c) : c \in U}
      /\ \A c \in U : accumulators[Key(c)] = Acc(c, t, G(c))
      /\ \A c \in U : G(c) \in BOOLEAN /\ (G(c) => T(c, t))
  <2>1. DOMAIN accumulators = {Key(c) : c \in U}
    BY DEF Accumulated
  <2>2. ASSUME NEW c \in U
        PROVE  accumulators[Key(c)] = Acc(c, t, G(c)) /\ G(c) \in BOOLEAN /\ (G(c) => T(c, t))
    <3> DEFINE acc == accumulators[Key(c)]
    <3>1. acc \in Accumulator
      BY <2>1 DEF TypeOK
    <3>2. acc.call = c /\ acc.arguments = Arguments(c, M(c, t)) /\ (acc.garbled => T(c, t))
      BY DEF Accumulated
    <3> HIDE DEF acc
    <3>3. acc = [call |-> acc.call, arguments |-> acc.arguments, garbled |-> acc.garbled]
          /\ acc.garbled \in BOOLEAN
      BY ONLY <3>1 DEF Accumulator
    <3>4. acc = Acc(c, t, acc.garbled)
      BY ONLY <3>2, <3>3 DEF Acc
    <3> QED
      BY <3>2, <3>3, <3>4 DEF acc
  <2> QED
    BY <2>1, <2>2
<1>3. /\ \A c \in U \cup V : c \in 1 .. MaxCalls /\ c \in Nat
      /\ D(t) \subseteq O(t)
  BY <1>1, OrderlyFacts DEF Unfinished
<1>4. \A c, d \in Nat : Key(c) = Key(d) => c = d
  BY DEF Key
<1>5. /\ e.kind = "open" => O(t + 1) = O(t) \cup {n}
      /\ e.kind # "open" => O(t + 1) = O(t)
      /\ e.kind = "done" => D(t + 1) = D(t) \cup {n}
      /\ e.kind # "done" => D(t + 1) = D(t)
  BY AmongFacts
<1>6. /\ \A c : M(c, t) \in Nat /\ M(c, t + 1) \in Nat
      /\ \A c : e.kind # "arg" \/ c # n => M(c, t + 1) = M(c, t)
      /\ e.kind = "arg" => M(n, t + 1) = M(n, t) + 1
      /\ n \notin O(t) => M(n, t) = 0
  <2>1. \A c : M(c, t) \in Nat /\ M(c, t + 1) \in Nat
    BY TimesFacts
  <2>2. ASSUME NEW c
        PROVE  M(c, t + 1) = M(c, t) + (IF e.kind = "arg" /\ e.n = c THEN 1 ELSE 0)
    BY ONLY t \in Nat, TimesFacts
  <2>3. n \notin O(t) => M(n, t) = 0
    BY <1>1, OrderlyFacts
  <2> HIDE DEF M
  <2> QED
    BY <2>1, <2>2, <2>3
<1>7. /\ e.kind = "open" => n \notin O(t)
      /\ e.kind \in {"arg", "done"} => n \in O(t) /\ n \notin D(t)
      /\ e.kind = "done" => protocol = "responses"
  <2>1. InTurn(sent, t + 1) /\ (t + 1) - 1 = t
    BY DEF Orderly
  <2>2. e.kind = "open" => O(t) = 1 .. (n - 1)
    BY <2>1 DEF InTurn
  <2>3. n \notin 1 .. (n - 1)
    BY <1>1
  <2>4. /\ e.kind \in {"arg", "done"} => n \in O(t) /\ n \notin D(t)
        /\ e.kind = "done" => protocol = "responses"
    BY <2>1 DEF InTurn
  <2> QED
    BY <2>2, <2>3, <2>4
<1>8. V = IF e.kind = "open" THEN U \cup {n} ELSE IF e.kind = "done" THEN U \ {n} ELSE U
  <2> USE DEF Unfinished
  <2>1. CASE e.kind = "open"
    BY <1>3, <1>5, <1>7, <2>1
  <2>2. CASE e.kind = "done"
    BY <1>5, <2>2
  <2>3. CASE e.kind \notin {"open", "done"}
    BY <1>5, <2>3
  <2> QED
    BY <2>1, <2>2, <2>3
<1>9. SUFFICES /\ DOMAIN accumulators' = {Key(c) : c \in V}
               /\ \A c \in V : \E g \in BOOLEAN :
                     accumulators'[Key(c)] = Acc(c, t + 1, g) /\ (g => T(c, t + 1))
  <2>1. Unfinished(t + 1)' = V /\ \A c : Key(c)' = Key(c)
    BY DEF Unfinished, Key
  <2>2. ASSUME NEW c \in V
        PROVE  LET acc == accumulators'[Key(c)]
               IN  acc.call = c /\ acc.arguments = Arguments(c, M(c, t + 1)) /\ (acc.garbled => T(c, t + 1))
    <3>1. PICK g \in BOOLEAN : accumulators'[Key(c)] = Acc(c, t + 1, g) /\ (g => T(c, t + 1))
      BY <1>9
    <3>2. /\ Acc(c, t + 1, g).call = c
          /\ Acc(c, t + 1, g).arguments = Arguments(c, M(c, t + 1))
          /\ Acc(c, t + 1, g).garbled = g
      OBVIOUS
    <3> HIDE DEF Acc
    <3> QED
      BY <3>1, <3>2
  <2>5. Accumulated(t + 1)'
    BY <1>9, <2>1, <2>2 DEF Accumulated
  <2>3. \A c \in V, g \in BOOLEAN : Acc(c, t + 1, g) \in Accumulator
    BY <1>3, <1>6, ArgumentsFacts
  <2> HIDE DEF Acc
  <2>4. \A k \in DOMAIN accumulators' : accumulators'[k] \in Accumulator
    BY <1>9, <2>3
  <2> QED
    BY <2>4, <2>5
<1>13. /\ \A c : T(c, t) => T(c, t + 1)
       /\ e.kind = "arg" /\ garbled => T(n, t + 1)
  BY TouchedNext
<1> HIDE DEF e, n, O, D, M, T, G, Acc, U, V
<1>10. CASE e.kind \in {"text", "skip", "bad", "end"}
  <2>1. accumulators' = accumulators
    BY <1>10 DEF TakePlain, TakeDelta, TakeItem, e
  <2>2. V = U /\ \A c, g : Acc(c, t + 1, g) = Acc(c, t, g)
    BY <1>6, <1>8, <1>10 DEF Acc
  <2> QED
    BY <1>2, <1>13, <2>1, <2>2
<1>11. CASE e.kind \in {"open", "arg"}
  <2>1. V = U \cup {n} /\ n \in V /\ (e.kind = "arg" => n \in U)
    BY <1>7, <1>8, <1>11 DEF U, O, D, Unfinished
  <2>2. e.kind = "open" => Key(n) \notin DOMAIN accumulators
    BY <1>1, <1>2, <1>3, <1>4, <1>7 DEF U, O, Unfinished
  <2>3. Entry(Key(n)) = IF e.kind = "open" THEN Fresh ELSE Acc(n, t, G(n))
    BY <1>2, <1>11, <2>1, <2>2 DEF Entry
  <2>4. \E g \in BOOLEAN : accumulators' = WithEntry(Key(n), Acc(n, t + 1, g)) /\ (g => T(n, t + 1))
    <3>1. CASE e.kind = "open"
      <4>1. [Fresh EXCEPT !.call = n] = Acc(n, t + 1, FALSE)
        <5>1. Arguments(n, M(n, t + 1)) = <<>>
          BY <1>1, <1>6, <1>7, <3>1, ArgumentsFacts
        <5>2. [Fresh EXCEPT !.call = n] = [call |-> n, arguments |-> <<>>, garbled |-> FALSE]
          <6>1. [Fresh EXCEPT !.call = n] \in [call : {n}, arguments : {<<>>}, garbled : {FALSE}]
            BY DEF Fresh
          <6> QED
            BY ONLY <6>1, FieldsOf
        <5> QED
          BY <5>1, <5>2 DEF Acc
      <4>2. CASE protocol = "chat" /\ TakeDelta(e, garbled)
        <5>1. accumulators' = WithEntry(Key(n), [Entry(Key(n)) EXCEPT !.call = n])
          BY <3>1, <4>2 DEF TakeDelta, Index, Key, n
        <5> QED
          BY <2>3, <3>1, <4>1, <5>1
      <4>3. CASE protocol = "responses" /\ TakeItem(e)
        <5>1. accumulators' = WithEntry(Key(n), [Entry(Key(n)) EXCEPT !.call = n])
          BY <3>1, <4>3 DEF TakeItem, Key, n
        <5> QED
          BY <2>3, <3>1, <4>1, <5>1
      <4> QED
        BY <3>1, <4>2, <4>3 DEF TakePlain, e
    <3>2. CASE e.kind = "arg"
      <4> DEFINE g0 == G(n)
                 A == Arguments(n, M(n, t))
                 x == <<n, M(n, t) + 1>>
      <4>1. /\ Entry(Key(n)) = Acc(n, t, g0) /\ Key(n) \in DOMAIN accumulators
            /\ g0 \in BOOLEAN /\ (g0 => T(n, t))
        BY <1>2, <2>1, <2>3, <3>2
      <4>2. /\ Append(A, x) = Arguments(n, M(n, t + 1))
            /\ Len(A) = M(n, t)
            /\ Cardinality({i \in DOMAIN A : A[i][1] = n}) = M(n, t)
        <5>1. /\ Append(A, x) = Arguments(n, M(n, t) + 1)
              /\ Len(A) = M(n, t)
              /\ Cardinality({i \in DOMAIN A : A[i][1] = n}) = M(n, t)
          BY <1>1, <1>6, ArgumentsFacts
        <5>2. M(n, t + 1) = M(n, t) + 1
          BY <1>6, <3>2
        <5> HIDE DEF A
        <5> QED
          BY <5>1, <5>2
      <4>3. /\ \A g : Acc(n, t, g) = [call |-> n, arguments |-> A, garbled |-> g]
            /\ \A g : Acc(n, t + 1, g) = [call |-> n, arguments |-> Append(A, x), garbled |-> g]
        BY <4>2 DEF Acc
      <4> HIDE DEF g0, A, x
      <4>4. /\ Acc(n, t, g0).arguments = A
            /\ [Acc(n, t, g0) EXCEPT !.arguments = Append(@, x)] = Acc(n, t + 1, g0)
            /\ [Acc(n, t, g0) EXCEPT !.arguments = Append(@, x), !.garbled = @ \/ garbled]
                 = Acc(n, t + 1, g0 \/ garbled)
        <5> DEFINE acc == Acc(n, t, g0)
                   B == Append(acc.arguments, x)
                   h == acc.garbled \/ garbled
        <5>1. acc = [call |-> n, arguments |-> A, garbled |-> g0]
          BY ONLY <4>3, Zenon
        <5> HIDE DEF acc
        <5>2. acc.arguments = A /\ acc.garbled = g0
          BY ONLY <5>1
        <5> HIDE DEF B, h
        <5>3. /\ [acc EXCEPT !.arguments = B] = [call |-> n, arguments |-> B, garbled |-> g0]
              /\ [acc EXCEPT !.arguments = B, !.garbled = h] = [call |-> n, arguments |-> B, garbled |-> h]
          <6>1. acc \in [call : {n}, arguments : {A}, garbled : {g0}]
            BY ONLY <5>1
          <6>2. /\ [acc EXCEPT !.arguments = B] \in [call : {n}, arguments : {B}, garbled : {g0}]
                /\ [acc EXCEPT !.arguments = B, !.garbled = h] \in [call : {n}, arguments : {B}, garbled : {h}]
            BY ONLY <6>1
          <6> QED
            BY ONLY <6>2, FieldsOf
        <5>4. B = Append(A, x) /\ h = (g0 \/ garbled)
          BY ONLY <5>2, Zenon DEF B, h
        <5>5. /\ [acc EXCEPT !.arguments = B] = Acc(n, t + 1, g0)
              /\ [acc EXCEPT !.arguments = B, !.garbled = h] = Acc(n, t + 1, g0 \/ garbled)
          BY ONLY <4>3, <5>3, <5>4, Zenon
        <5> QED
          BY ONLY <5>2, <5>5, Zenon DEF acc, B, h
      <4>5. CASE protocol = "chat" /\ TakeDelta(e, garbled)
        <5> DEFINE acc == Entry(Key(n))
                   piece == Cardinality({i \in DOMAIN acc.arguments : acc.arguments[i][1] = n}) + 1
        <5>1. accumulators' = WithEntry(Key(n), [acc EXCEPT !.arguments = Append(@, <<n, piece>>),
                                                            !.garbled = @ \/ garbled])
          BY <3>2, <4>5 DEF TakeDelta, Index, Key, n
        <5>2. <<n, piece>> = x
          BY <4>1, <4>2, <4>4 DEF x
        <5>3. accumulators' = WithEntry(Key(n), Acc(n, t + 1, g0 \/ garbled))
          BY <4>1, <4>4, <5>1, <5>2
        <5>4. (g0 \/ garbled) \in BOOLEAN /\ (g0 \/ garbled => T(n, t + 1))
          BY <1>13, <3>2, <4>1
        <5> QED
          BY <5>3, <5>4
      <4>6. CASE protocol = "responses" /\ TakeItem(e)
        <5> DEFINE acc == Entry(Key(n))
        <5>1. accumulators' = WithEntry(Key(n), [acc EXCEPT !.arguments = Append(@, <<n, Len(acc.arguments) + 1>>)])
          BY <3>2, <4>1, <4>6 DEF TakeItem, Key, n
        <5>2. <<n, Len(acc.arguments) + 1>> = x
          BY <4>1, <4>2, <4>4 DEF x
        <5>3. accumulators' = WithEntry(Key(n), Acc(n, t + 1, g0))
          BY <4>1, <4>4, <5>1, <5>2
        <5> QED
          BY <1>13, <4>1, <5>3
      <4> QED
        BY <3>2, <4>5, <4>6 DEF TakePlain, e
    <3> QED
      BY <1>11, <3>1, <3>2
  <2>8. PICK g \in BOOLEAN : accumulators' = WithEntry(Key(n), Acc(n, t + 1, g)) /\ (g => T(n, t + 1))
    BY <2>4
  <2> DEFINE new == Acc(n, t + 1, g)
             key == Key(n)
  <2> HIDE DEF new, key
  <2>5. /\ DOMAIN accumulators' = DOMAIN accumulators \cup {key}
        /\ accumulators'[key] = new
        /\ \A k \in DOMAIN accumulators : k # key => accumulators'[k] = accumulators[k]
    <3>1. accumulators' = WithEntry(key, new)
      BY <2>8 DEF key, new
    <3> QED
      BY ONLY <3>1 DEF WithEntry
  <2>6. DOMAIN accumulators' = {Key(c) : c \in V}
    BY <1>2, <2>1, <2>5 DEF key
  <2>7. ASSUME NEW c \in V
        PROVE  \E h \in BOOLEAN : accumulators'[Key(c)] = Acc(c, t + 1, h) /\ (h => T(c, t + 1))
    <3>1. CASE c = n
      BY <2>5, <2>8, <3>1 DEF key, new
    <3>2. CASE c # n
      <4>1. c \in U /\ c \in Nat /\ Key(c) \in DOMAIN accumulators /\ Key(c) # Key(n)
        BY <1>1, <1>2, <1>3, <1>4, <2>1, <3>2
      <4>2. accumulators'[Key(c)] = accumulators[Key(c)]
        BY <2>5, <4>1 DEF key
      <4>3. Acc(c, t + 1, G(c)) = Acc(c, t, G(c))
        BY <1>6, <3>2 DEF Acc
      <4> QED
        BY <1>2, <1>13, <4>1, <4>2, <4>3
    <3> QED
      BY <3>1, <3>2
  <2> QED
    BY <2>6, <2>7
<1>12. CASE e.kind = "done"
  <2>1. V = U \ {n} /\ n \in U
    BY <1>7, <1>8, <1>12 DEF U, O, D, Unfinished
  <2>2. accumulators' = [k \in DOMAIN accumulators \ {Key(n)} |-> accumulators[k]]
    BY <1>7, <1>12 DEF TakePlain, TakeDelta, TakeItem, Key, e, n
  <2>3. \A c \in U : Key(c) # Key(n) <=> c # n
    BY <1>1, <1>3, <1>4
  <2>4. \A c, g : Acc(c, t + 1, g) = Acc(c, t, g)
    BY <1>6, <1>12 DEF Acc
  <2>5. DOMAIN accumulators' = {Key(c) : c \in V}
    BY <1>2, <2>1, <2>2, <2>3
  <2>6. ASSUME NEW c \in V
        PROVE  accumulators'[Key(c)] = Acc(c, t + 1, G(c)) /\ G(c) \in BOOLEAN /\ (G(c) => T(c, t + 1))
    <3>1. c \in U /\ Key(c) \in DOMAIN accumulators \ {Key(n)}
      BY <1>2, <2>1, <2>3
    <3> QED
      BY <1>2, <1>13, <2>2, <2>4, <3>1
  <2> QED
    BY <2>5, <2>6
<1> QED
  BY <1>1, <1>10, <1>11, <1>12 DEF Kinds

\* What the provider sends for an event, if anything: a token for a text, the
\* call that is done, and what says nothing for all others.
LEMMA SendsNext ==
    ASSUME TypeOK, Orderly, NEW t \in Nat, Accumulated(t), t + 1 \in 1 .. Len(sent),
           NEW garbled \in BOOLEAN, garbled => sent[t + 1].wide, outbox = <<>>, task = "reading",
           \/ TakePlain(sent[t + 1], garbled)
           \/ protocol = "chat" /\ TakeDelta(sent[t + 1], garbled)
           \/ protocol = "responses" /\ TakeItem(sent[t + 1])
    PROVE  LET e == sent[t + 1]
           IN  /\ started' \in BOOLEAN
               /\ task' = CASE e.kind = "bad" -> "error"
                            [] e.kind = "end" -> "flushing"
                            [] OTHER -> "reading"
               /\ e.kind = "end" => outbox' = <<>>
               /\ \E x \in ProviderEvent, call \in Call :
                     /\ outbox' = <<>> \/ outbox' = <<x>>
                     /\ IF e.kind = "text"
                        THEN /\ outbox' = <<x>> /\ x.kind = "token" /\ x.n = e.n
                             /\ x.garbled => e.wide
                        ELSE x.kind # "token"
                     /\ IF e.kind = "done"
                        THEN /\ outbox' = <<x>> /\ x.kind = "calls" /\ x.calls = <<call>>
                             /\ call.call = e.n /\ call.input = Pieces(call.call)
                             /\ call.garbled => Touched(sent, call.call, t)
                        ELSE x.kind # "calls"
<1> DEFINE e == sent[t + 1]
           s == [kind |-> "started"]
           none == [call |-> 0, input |-> <<>>, garbled |-> FALSE]
<1>1. e \in Event /\ e.n \in Nat /\ e.kind \in Kinds /\ started \in BOOLEAN
  <2>1. e \in Event /\ started \in BOOLEAN
    BY DEF TypeOK
  <2> QED
    BY <2>1 DEF Event
<1>2. s \in ProviderEvent /\ s.kind = "started" /\ none \in Call
  BY DEF ProviderEvent, Call
<1>3. InTurn(sent, t + 1) /\ (t + 1) - 1 = t
  BY DEF Orderly
<1> HIDE DEF e, s, none
<1>4. CASE e.kind = "text"
  <2> DEFINE x == [kind |-> "token", n |-> e.n, garbled |-> garbled]
  <2>1. TakePlain(e, garbled)
    BY <1>4 DEF TakeDelta, TakeItem, e
  <2>2. outbox' = <<x>> /\ task' = "reading" /\ started' = started
    BY <1>4, <2>1 DEF TakePlain
  <2>3. x \in ProviderEvent
    BY <1>1 DEF ProviderEvent, Token
  <2>4. x.kind = "token" /\ x.n = e.n /\ (x.garbled => e.wide)
    BY DEF e
  <2> HIDE DEF x
  <2> QED
    BY <1>1, <1>2, <1>4, <2>2, <2>3, <2>4 DEF e
<1>5. CASE e.kind \in {"skip", "bad", "end"}
  <2>1. TakePlain(e, garbled)
    BY <1>5 DEF TakeDelta, TakeItem, e
  <2>2. /\ outbox' = <<>> /\ started' = started
        /\ task' = CASE e.kind = "bad" -> "error"
                     [] e.kind = "end" -> "flushing"
                     [] OTHER -> "reading"
    BY <1>5, <2>1 DEF TakePlain
  <2> QED
    BY <1>1, <1>2, <1>5, <2>2 DEF e
<1>6. CASE e.kind \in {"open", "arg"}
  <2>1. started' \in BOOLEAN /\ task' = "reading" /\ (outbox' = <<>> \/ outbox' = <<s>>)
    <3>1. ASSUME TakeDelta(e, garbled)
          PROVE  started' = TRUE /\ task' = task /\ outbox' = IF started THEN <<>> ELSE <<s>>
      BY <3>1 DEF TakeDelta, s
    <3>2. ASSUME TakeItem(e)
          PROVE  started' = started /\ task' = task /\ (outbox' = outbox \/ outbox' = <<s>>)
      BY <1>6, <3>2 DEF TakeItem, s
    <3>3. TakeDelta(e, garbled) \/ TakeItem(e)
      BY <1>6 DEF TakePlain, e
    <3> QED
      BY <1>1, <3>1, <3>2, <3>3
  <2> QED
    BY <1>2, <1>6, <2>1 DEF e
<1>7. CASE e.kind = "done"
  <2> DEFINE n == e.n
             acc == Entry(n)
             call == CallOf(acc)
             x == [kind |-> "calls", calls |-> <<call>>]
  <2>1. /\ protocol = "responses" /\ Times(sent, "arg", n, t) = ArgPieces
        /\ n \in Unfinished(t)
    BY <1>3, <1>7 DEF InTurn, Unfinished, e
  <2>2. n \in 1 .. MaxCalls /\ ArgPieces \in Nat
    <3>1. t \in 0 .. Len(sent) /\ sent \in Seq(Event)
      BY DEF TypeOK
    <3>2. n \in Among(sent, "open", t)
      BY <2>1 DEF Unfinished
    <3> QED
      BY <3>1, <3>2, OrderlyFacts, StreamAssumption DEF StreamAssumption
  <2>3. /\ n \in DOMAIN accumulators /\ acc = accumulators[n]
        /\ acc.call = n /\ acc.arguments = Arguments(n, ArgPieces)
        /\ acc.garbled => Touched(sent, n, t)
    BY <2>1 DEF Accumulated, Key, Entry
  <2> HIDE DEF n, acc
  <2>4. /\ call = [call |-> n, input |-> call.input, garbled |-> call.garbled]
        /\ call.input = Pieces(n)
        /\ call.garbled \in BOOLEAN /\ (call.garbled => Touched(sent, n, t))
    <3>1. Parsed(Arguments(n, ArgPieces)) = Pieces(n)
      BY <2>2, ParsedFacts
    <3>2. call = [call |-> n, input |-> Pieces(n), garbled |-> (Pieces(n) # <<>> /\ acc.garbled)]
      BY <2>3, <3>1 DEF CallOf
    <3>3. (Pieces(n) # <<>> /\ acc.garbled) \in BOOLEAN
      OBVIOUS
    <3> DEFINE g == Pieces(n) # <<>> /\ acc.garbled
    <3>4. g => Touched(sent, n, t)
      BY <2>3
    <3> HIDE DEF g, call
    <3>5. call = [call |-> n, input |-> Pieces(n), garbled |-> g]
      BY <3>2 DEF g
    <3>6. call.call = n /\ call.input = Pieces(n) /\ call.garbled = g
      BY ONLY <3>5
    <3> QED
      BY <3>3, <3>4, <3>5, <3>6 DEF g
  <2>5. call \in Call
    <3>1. [call |-> n, arguments |-> Arguments(n, ArgPieces), garbled |-> FALSE] \in Accumulator
      BY <1>1, <2>2, ArgumentsFacts DEF n
    <3>2. Pieces(n) = Arguments(n, ArgPieces)
      BY DEF Pieces, Arguments
    <3>3. Pieces(n) \in Seq(Nat \X Nat)
      BY <3>1, <3>2 DEF Accumulator
    <3> QED
      BY <1>1, <2>4, <3>3 DEF Call, n
  <2>6. outbox' = <<x>> /\ task' = "reading" /\ started' = started
    <3>1. TakeItem(e)
      BY <1>7 DEF TakePlain, TakeDelta, e
    <3> QED
      BY <1>7, <2>3, <3>1 DEF TakeItem, n, acc
  <2> HIDE DEF call
  <2>7. <<call>> \in Seq(Call)
    BY <2>5
  <2>8. x \in ProviderEvent /\ x.kind = "calls" /\ x.calls = <<call>>
    BY <2>7 DEF ProviderEvent
  <2>9. /\ call.call = e.n /\ call.input = Pieces(call.call)
        /\ call.garbled => Touched(sent, call.call, t)
    BY <2>4 DEF n
  <2> HIDE DEF x
  <2> QED
    BY <1>1, <1>7, <2>5, <2>6, <2>8, <2>9 DEF e
<1> QED
  BY <1>1, <1>4, <1>5, <1>6, <1>7 DEF Kinds

\* What is sent next is last in flight.
LEMMA FlightNext ==
    ASSUME TypeOK, outbox = <<>>, channel' = channel,
           NEW x \in ProviderEvent, outbox' = <<>> \/ outbox' = <<x>>
    PROVE  /\ outbox' \in Seq(ProviderEvent)
           /\ flight \in Seq(ProviderEvent) /\ flight' \in Seq(ProviderEvent)
           /\ outbox' = <<>> => flight' = flight
           /\ outbox' = <<x>> => flight' = flight \o <<x>>
<1>1. channel \in Seq(ProviderEvent)
  BY DEF TypeOK
<1> HIDE DEF ProviderEvent
<1>2. flight = channel /\ flight' = channel \o outbox'
  BY <1>1 DEF flight
<1>3. outbox' \in Seq(ProviderEvent)
  <2>1. <<>> \in Seq(ProviderEvent)
    OBVIOUS
  <2>2. <<x>> \in Seq(ProviderEvent)
    OBVIOUS
  <2> QED
    BY <2>1, <2>2
<1>4. outbox' = <<>> => channel \o outbox' = channel
  BY <1>1
<1>5. channel \o outbox' \in Seq(ProviderEvent)
  BY <1>1, <1>3
<1>6. outbox' = <<>> => flight' = flight
  BY <1>2, <1>4
<1>7. outbox' = <<x>> => flight' = flight \o <<x>>
  BY <1>2
<1> QED
  BY <1>1, <1>2, <1>3, <1>5, <1>6, <1>7

LEMMA TakeKeeps ==
    ASSUME TypeOK, Orderly, NEW t \in Nat, Taken(t), TakeEvent \/ TakeStreamed
    PROVE  TypeOK' /\ Orderly' /\ Taken(t + 1)'
<1> DEFINE e == sent[t + 1]
<1>1. /\ Flowing(t + 1)' /\ t + 1 \in 1 .. whole /\ t + 1 \in 1 .. Len(sent)
      /\ buffer' \in Seq(Unit) /\ wire' \in Seq(Unit)
      /\ task = "reading" /\ outbox = <<>>
      /\ UNCHANGED <<protocol, server, channel, agent>>
  BY TakesNext
<1>2. PICK garbled \in BOOLEAN :
         /\ garbled => e.wide
         /\ \/ TakePlain(e, garbled)
            \/ protocol = "chat" /\ TakeDelta(e, garbled)
            \/ protocol = "responses" /\ TakeItem(e)
  BY TakesNext
<1>3. UNCHANGED <<protocol, sent, whole, closed, channel, response, toolCalls, result>>
  BY <1>1 DEF server, agent
<1>4. Accumulated(t) /\ Phased(t) /\ Heard(t) /\ Handed(t)
  BY DEF Taken
<1>5. Accumulated(t + 1)' /\ \A k \in DOMAIN accumulators' : accumulators'[k] \in Accumulator
  BY <1>1, <1>2, <1>3, <1>4, AccumulatedNext
<1>6. /\ started' \in BOOLEAN
      /\ task' = CASE e.kind = "bad" -> "error"
                   [] e.kind = "end" -> "flushing"
                   [] OTHER -> "reading"
      /\ e.kind = "end" => outbox' = <<>>
  BY <1>1, <1>2, <1>4, SendsNext
<1>7. PICK x \in ProviderEvent, call \in Call :
         /\ outbox' = <<>> \/ outbox' = <<x>>
         /\ IF e.kind = "text"
            THEN /\ outbox' = <<x>> /\ x.kind = "token" /\ x.n = e.n
                 /\ x.garbled => e.wide
            ELSE x.kind # "token"
         /\ IF e.kind = "done"
            THEN /\ outbox' = <<x>> /\ x.kind = "calls" /\ x.calls = <<call>>
                 /\ call.call = e.n /\ call.input = Pieces(call.call)
                 /\ call.garbled => Touched(sent, call.call, t)
            ELSE x.kind # "calls"
  BY <1>1, <1>2, <1>4, SendsNext
<1> HIDE DEF e
<1>8. /\ outbox' \in Seq(ProviderEvent) /\ flight' \in Seq(ProviderEvent)
      /\ outbox' = <<>> => flight' = flight
      /\ outbox' = <<x>> => flight' = flight \o <<x>>
  <2>1. outbox' = <<>> \/ outbox' = <<x>>
    BY <1>7
  <2> QED
    BY <1>1, <2>1, FlightNext
<1>9. TypeOK'
  <2>1. task' \in {"reading", "flushing", "ok", "error"}
    BY <1>6
  <2> QED
    BY <1>1, <1>3, <1>5, <1>6, <1>8, <2>1 DEF TypeOK
<1>10. Orderly'
  BY <1>3 DEF Orderly, InTurn
<1>11. Phased(t + 1)'
  <2>1. result' = "none"
    BY <1>1, <1>3, <1>4 DEF Phased, TypeOK
  <2>2. sent' # <<>>
    BY <1>1, <1>3
  <2>3. CASE e.kind = "end"
    <3>1. t + 1 = Len(sent)
      BY <1>1, <2>3 DEF Orderly, InTurn, e
    <3>2. t + 1 = whole
      BY <1>1, <3>1 DEF TypeOK
    <3>3. e.n \in Among(sent, "end", Len(sent))
      BY <1>1, <2>3, AmongMember DEF e
    <3> QED
      BY <1>3, <1>6, <2>1, <2>2, <2>3, <3>2, <3>3 DEF Phased
  <2>4. CASE e.kind # "end"
    <3>1. task' \in {"reading", "error"}
      BY <1>6, <2>4
    <3> QED
      BY <2>1, <2>2, <3>1 DEF Phased
  <2> QED
    BY <2>3, <2>4
<1>12. Heard(t + 1)'
  BY <1>1, <1>3, <1>4, <1>7, <1>8, HeardNext DEF e
<1>13. Handed(t + 1)'
  <2>1. task' # "ok"
    BY <1>6
  <2> QED
    BY <1>1, <1>3, <1>4, <1>7, <1>8, <2>1, HandedNext DEF e
<1> QED
  BY <1>1, <1>5, <1>9, <1>10, <1>11, <1>12, <1>13 DEF Taken

LEMMA StreamClosesKeeps ==
    ASSUME TypeOK, Orderly, NEW t \in Nat, Taken(t), StreamCloses
    PROVE  TypeOK' /\ Orderly' /\ Taken(t)'
<1>1. /\ task = "reading" /\ outbox = <<>> /\ wire = <<>> /\ closed # "no" /\ ~HasEvent
      /\ task' \in {"error", "flushing"}
      /\ UNCHANGED <<protocol, server, wire, buffer, accumulators, started, outbox, channel, agent>>
  BY DEF StreamCloses, Reading
<1>2. UNCHANGED <<protocol, sent, whole, closed, response, toolCalls, result>>
  BY <1>1 DEF server, agent
<1>3. TypeOK'
  BY <1>1, <1>2 DEF TypeOK
<1>4. Orderly'
  BY <1>2 DEF Orderly, InTurn
<1>5. stream' = stream /\ flight' = flight
  BY <1>1 DEF stream, flight
<1>6. Flowing(t)'
  BY <1>1, <1>2, <1>5 DEF Taken, Flowing
<1>7. t = whole
  <2>1. t <= whole /\ whole \in Nat
    BY DEF Taken, Flowing, TypeOK
  <2>2. stream = buffer /\ DOMAIN buffer = 1 .. Len(buffer)
    BY <1>1 DEF stream, TypeOK
  <2>3. ASSUME t # whole
        PROVE  FALSE
    <3>1. t + 1 \in (t + 1) .. whole
      BY <2>1, <2>3
    <3>2. PICK i \in 1 .. Len(stream) : stream[i].event = t + 1 /\ stream[i].part = "blank"
      BY <3>1 DEF Taken, Flowing
    <3> QED
      BY <1>1, <2>2, <3>2 DEF HasEvent
  <2> QED
    BY <2>3
<1>8. Phased(t)'
  <2>1. result = "none"
    BY <1>1 DEF Taken, Phased
  <2> QED
    BY <1>1, <1>2, <1>7, <2>1 DEF Phased
<1>9. Accumulated(t)' /\ Heard(t)' /\ Handed(t)'
  BY <1>1, <1>2, <1>5, StillTaken DEF Taken
<1> QED
  BY <1>3, <1>4, <1>6, <1>8, <1>9 DEF Taken

\* A sequence of a finite set has each of its elements once.
LEMMA SeqsFacts ==
    ASSUME NEW S, IsFiniteSet(S), NEW order \in SetToSeqs(S)
    PROVE  /\ order \in Seq(S)
           /\ \A i, j \in 1 .. Len(order) : order[i] = order[j] => i = j
           /\ S = {order[i] : i \in 1 .. Len(order)}
           /\ DOMAIN order = 1 .. Len(order)
<1> DEFINE N == Cardinality(S)
<1>1. /\ N \in Nat /\ order \in [1 .. N -> S]
      /\ \A i, j \in 1 .. N : i # j => order[i] # order[j]
  BY FS_CardinalityType DEF SetToSeqs
<1>2. IsFiniteSet(1 .. N) /\ Cardinality(1 .. N) = N
  BY <1>1, FS_Interval
<1> HIDE DEF N
<1>3. order \in Injection(1 .. N, S)
  BY <1>1 DEF Injection, IsInjective
<1>4. order \in Surjection(1 .. N, S)
  BY <1>2, <1>3, FS_Injection DEF N
<1>5. S = {order[i] : i \in 1 .. N}
  BY <1>1, <1>4 DEF Surjection
<1>6. order \in Seq(S) /\ Len(order) = N /\ DOMAIN order = 1 .. N
  BY <1>1
<1> QED
  BY <1>1, <1>5, <1>6

\* The other way round.
LEMMA SeqsMember ==
    ASSUME NEW s, NEW T, s \in Seq(T), \A i, j \in 1 .. Len(s) : s[i] = s[j] => i = j
    PROVE  LET S == {s[i] : i \in 1 .. Len(s)}
           IN  s \in SetToSeqs(S)
<1> DEFINE S == {s[i] : i \in 1 .. Len(s)}
           N == Len(s)
<1>1. N \in Nat /\ s \in [1 .. N -> S]
  OBVIOUS
<1>2. IsFiniteSet(1 .. N) /\ Cardinality(1 .. N) = N
  <2> HIDE DEF N, S
  <2> QED
    BY ONLY <1>1, FS_Interval
<1>3. s \in Bijection(1 .. N, S)
  <2>1. s \in Injection(1 .. N, S)
    BY <1>1 DEF Injection, IsInjective
  <2>2. s \in Surjection(1 .. N, S)
    BY <1>1 DEF Surjection
  <2> QED
    BY <2>1, <2>2 DEF Bijection
<1>4. Cardinality(S) = N
  BY <1>2, <1>3, FS_Bijection DEF ExistsBijection
<1> QED
  BY <1>1, <1>4 DEF SetToSeqs

\* What is sent besides tokens is not heard.
LEMMA HeardStill ==
    ASSUME TypeOK, NEW t \in Nat, Heard(t), NEW x \in ProviderEvent, x.kind # "token",
           flight' = flight \o <<x>>, UNCHANGED <<sent, response>>
    PROVE  Heard(t)'
<1> DEFINE R == Len(response)
           A == Among(sent, "text", t)
<1>1. flight \in Seq(ProviderEvent)
  BY DEF TypeOK, flight
<1>2. TokenOf(x) = {}
  BY DEF TokenOf
<1>3. /\ TokensIn(flight) = A \ (1 .. R) /\ Rising(flight)
      /\ \A i \in 1 .. Len(flight) : flight[i].kind = "token" => Excused(sent, flight[i], t)
      /\ \A i \in 1 .. R : response[i].n = i /\ i \in A /\ Excused(sent, response[i], t)
  BY DEF Heard
<1> HIDE DEF flight, A, R
<1>4. TokensIn(flight') = TokensIn(flight)
  <2>1. TokensIn(flight') = TokensIn(flight) \cup TokenOf(x)
    BY <1>1, SentFacts
  <2> QED
    BY ONLY <1>2, <2>1
<1>5. Rising(flight')
  BY <1>1, <1>2, <1>3, SentFacts
<1>6. ASSUME NEW i \in 1 .. Len(flight'), flight'[i].kind = "token"
      PROVE  Excused(sent', flight'[i], t)
  <2>1. (i \in 1 .. Len(flight) /\ flight'[i] = flight[i]) \/ flight'[i] = x
    BY <1>1, SentFacts
  <2> QED
    BY <1>3, <1>6, <2>1
<1> QED
  BY <1>3, <1>4, <1>5, <1>6 DEF Heard, A, R

\* At the end of the stream every call that is accumulated is handed over, and
\* with the calls that were done these are all.
LEMMA FlushKeeps ==
    ASSUME TypeOK, Orderly, NEW t \in Nat, Taken(t), Flush
    PROVE  TypeOK' /\ Orderly' /\ Taken(t)'
<1> DEFINE named == {k \in DOMAIN accumulators : accumulators[k].call # 0}
           O == Among(sent, "open", t)
           D == Among(sent, "done", t)
           U == Unfinished(t)
           M(c) == Times(sent, "arg", c, t)
           T(c) == Touched(sent, c, t)
<1>1. /\ task = "flushing" /\ task' = "ok"
      /\ UNCHANGED <<protocol, server, wire, buffer, accumulators, started, channel, agent>>
  BY DEF Flush
<1>2. UNCHANGED <<protocol, sent, whole, closed, response, toolCalls, result>>
  BY <1>1 DEF server, agent
<1>3. /\ Flowing(t) /\ Phased(t) /\ Accumulated(t) /\ Heard(t) /\ Handed(t)
      /\ outbox = <<>> /\ t = whole /\ result = "none"
      /\ closed # "no" \/ Among(sent, "end", Len(sent)) # {}
      /\ sent # <<>> \/ closed # "no"
  BY <1>1 DEF Taken, Phased
<1>4. sent \in Seq(Event) /\ t \in 0 .. Len(sent) /\ MaxCalls \in Nat
  BY <1>3, StreamAssumption DEF TypeOK, StreamAssumption
<1>5. U = O \ D /\ D \subseteq O /\ (\A c \in O : c \in 1 .. MaxCalls) /\ \A c : M(c) \in Nat
  <2>1. D \subseteq O /\ \A c \in O : c \in 1 .. MaxCalls
    BY <1>4, OrderlyFacts
  <2>2. \A c : M(c) \in Nat
    BY TimesFacts
  <2> QED
    BY <2>1, <2>2 DEF Unfinished
<1>6. /\ DOMAIN accumulators = {Key(c) : c \in U}
      /\ \A c \in U : /\ accumulators[Key(c)].call = c
                      /\ accumulators[Key(c)].arguments = Arguments(c, M(c))
                      /\ accumulators[Key(c)].garbled => T(c)
  BY <1>3 DEF Accumulated
<1> HIDE DEF O, D, U, M, T
<1>7. named = DOMAIN accumulators
  <2>1. \A c \in U : c \in 1 .. MaxCalls
    BY <1>5
  <2>2. \A c \in U : c # 0
    BY <1>4, <2>1
  <2> QED
    BY <1>6, <2>2
<1>8. IsFiniteSet(named)
  <2>1. \A c \in U : Key(c) \in 0 .. MaxCalls
    BY <1>4, <1>5 DEF Key
  <2>2. named \in SUBSET (0 .. MaxCalls)
    BY <1>6, <1>7, <2>1
  <2>3. IsFiniteSet(0 .. MaxCalls)
    BY <1>4, FS_Interval
  <2> QED
    BY <2>2, <2>3, FS_Subset
<1>9. PICK order \in SetToSeqs(named) :
         outbox' = IF order = <<>>
                   THEN <<>>
                   ELSE <<[kind  |-> "calls",
                           calls |-> [i \in DOMAIN order |-> CallOf(accumulators[order[i]])]]>>
  BY DEF Flush
<1> DEFINE N == Len(order)
           calls == [i \in DOMAIN order |-> CallOf(accumulators[order[i]])]
           x == [kind |-> "calls", calls |-> calls]
<1>10. /\ order \in Seq(named) /\ DOMAIN order = 1 .. N /\ N \in Nat
       /\ \A i, j \in 1 .. N : order[i] = order[j] => i = j
       /\ named = {order[i] : i \in 1 .. N}
  <2> HIDE DEF named
  <2>1. order \in Seq(named) /\ DOMAIN order = 1 .. N
    BY <1>8, SeqsFacts
  <2>2. named = {order[i] : i \in 1 .. N}
    BY <1>8, SeqsFacts
  <2>3. \A i, j \in 1 .. N : order[i] = order[j] => i = j
    BY <1>8, SeqsFacts
  <2> QED
    BY <2>1, <2>2, <2>3
<1> HIDE DEF named, N
<1>11. ASSUME NEW c \in U
       PROVE  /\ CallOf(accumulators[Key(c)]).call = c
              /\ CallOf(accumulators[Key(c)]) \in Call
              /\ Own(sent, CallOf(accumulators[Key(c)]), t)
  <2> DEFINE p == Parsed(Arguments(c, M(c)))
  <2>1. c \in 1 .. MaxCalls /\ c \in Nat /\ M(c) \in Nat
    BY <1>5
  <2>2. p = IF M(c) = ArgPieces THEN Pieces(c) ELSE <<>>
    BY <2>1, ParsedFacts
  <2> DEFINE g == p # <<>> /\ accumulators[Key(c)].garbled
             call == [call |-> c, input |-> p, garbled |-> g]
  <2>3. CallOf(accumulators[Key(c)]) = call
    BY <1>6 DEF CallOf
  <2>4. p \in Seq(Nat \X Nat)
    <3>1. [call |-> c, arguments |-> Arguments(c, M(c)), garbled |-> FALSE] \in Accumulator
      BY <2>1, ArgumentsFacts
    <3>2. Arguments(c, M(c)) \in Seq(Nat \X Nat)
      BY <3>1 DEF Accumulator
    <3>3. p = Arguments(c, M(c)) \/ p = <<>>
      BY DEF Parsed
    <3>4. <<>> \in Seq(Nat \X Nat)
      OBVIOUS
    <3> HIDE DEF p
    <3> QED
      BY ONLY <3>2, <3>3, <3>4
  <2>5. g \in BOOLEAN /\ (g => T(c))
    BY <1>6
  <2> HIDE DEF p, g
  <2>6. call.call = c /\ call.input = p /\ call.garbled = g
    OBVIOUS
  <2>7. call \in Call
    BY <2>1, <2>4, <2>5 DEF Call
  <2> HIDE DEF call
  <2>8. Own(sent, call, t)
    BY <2>2, <2>5, <2>6 DEF Own, M, T
  <2> QED
    BY <2>3, <2>6, <2>7, <2>8
<1>12. ASSUME NEW i \in 1 .. N
       PROVE  \E c \in U : order[i] = Key(c) /\ calls[i] = CallOf(accumulators[Key(c)]) /\ calls[i].call = c
  <2>1. order[i] \in named
    BY <1>10
  <2>2. PICK c \in U : order[i] = Key(c)
    BY <1>6, <1>7, <2>1
  <2>3. calls[i] = CallOf(accumulators[Key(c)])
    BY <1>10, <2>2
  <2> QED
    BY <1>11, <2>2, <2>3
<1>13. DOMAIN calls = 1 .. N /\ calls = [i \in 1 .. N |-> calls[i]]
  BY <1>10
<1> HIDE DEF calls
<1>14. calls \in Seq(Call) /\ Len(calls) = N
  <2>1. \A i \in 1 .. N : calls[i] \in Call
    BY <1>11, <1>12
  <2>2. calls \in [1 .. N -> Call]
    BY <1>13, <2>1
  <2> QED
    BY <1>10, <2>2
<1>15. x \in ProviderEvent /\ x.kind = "calls" /\ x.calls = calls
  BY <1>14 DEF ProviderEvent
<1> HIDE DEF x
<1>16. CallsOf(x) = U
  <2>1. ASSUME NEW c \in U
        PROVE  c \in CallsOf(x)
    <3>1. Key(c) \in named
      BY <1>6, <1>7
    <3>2. PICK i \in 1 .. N : order[i] = Key(c)
      BY <1>10, <3>1
    <3>3. PICK d \in U : order[i] = Key(d) /\ calls[i].call = d
      BY <1>12
    <3>4. c = d
      BY <1>5, <3>2, <3>3 DEF Key
    <3> QED
      BY <1>14, <1>15, <3>3, <3>4 DEF CallsOf
  <2>2. ASSUME NEW c \in CallsOf(x)
        PROVE  c \in U
    <3>1. PICK i \in 1 .. N : calls[i].call = c
      BY <1>14, <1>15, <2>2 DEF CallsOf
    <3> QED
      BY <1>12, <3>1
  <2> QED
    BY <2>1, <2>2
<1>17. Several(x)
  <2>1. ASSUME NEW i \in 1 .. N, NEW j \in 1 .. N, calls[i].call = calls[j].call
        PROVE  i = j
    <3>1. PICK c \in U : order[i] = Key(c) /\ calls[i].call = c
      BY <1>12
    <3>2. PICK d \in U : order[j] = Key(d) /\ calls[j].call = d
      BY <1>12
    <3> QED
      BY <1>10, <2>1, <3>1, <3>2
  <2> QED
    BY <1>14, <1>15, <2>1 DEF Several
<1>18. order = <<>> \/ outbox' = <<x>>
  BY <1>9 DEF x, calls
<1>19. order = <<>> => outbox' = <<>> /\ U = {}
  <2>1. order = <<>> => N = 0
    BY DEF N
  <2> QED
    BY <1>6, <1>7, <1>9, <1>10, <2>1
<1>20. /\ outbox' \in Seq(ProviderEvent) /\ flight' \in Seq(ProviderEvent) /\ flight \in Seq(ProviderEvent)
       /\ outbox' = <<>> => flight' = flight
       /\ outbox' = <<x>> => flight' = flight \o <<x>>
  <2>1. outbox' = <<>> \/ outbox' = <<x>>
    BY <1>18, <1>19
  <2> QED
    BY <1>1, <1>3, <1>15, <2>1, FlightNext
<1>21. TypeOK'
  BY <1>1, <1>2, <1>20 DEF TypeOK
<1>22. Orderly'
  BY <1>2 DEF Orderly, InTurn
<1>23. Flowing(t)'
  <2>1. stream' = stream
    BY <1>1 DEF stream
  <2> QED
    BY <1>1, <1>2, <1>3, <2>1 DEF Flowing
<1>24. Phased(t)'
  BY <1>1, <1>2, <1>3 DEF Phased
<1>25. Accumulated(t)'
  BY <1>1, <1>2, <1>3 DEF Accumulated, Unfinished, Key
<1>26. Heard(t)'
  <2>1. CASE outbox' = <<>>
    BY <1>2, <1>3, <1>20, <2>1 DEF Heard
  <2>2. CASE outbox' = <<x>>
    BY <1>2, <1>3, <1>15, <1>20, <2>2, HeardStill
  <2> QED
    BY <1>18, <1>19, <2>1, <2>2
<1>27. Handed(t)'
  <2>1. /\ Held \cup CallsIn(flight) = D /\ Held \cap CallsIn(flight) = {} /\ Distinct(flight)
        /\ \A i \in 1 .. Len(toolCalls) : Own(sent, toolCalls[i], t)
        /\ \A i \in 1 .. Len(flight) :
              flight[i].kind = "calls" =>
                  \A j \in 1 .. Len(flight[i].calls) : Own(sent, flight[i].calls[j], t)
    BY <1>1, <1>3 DEF Handed, D
  <2>2. /\ CallsIn(flight') = CallsIn(flight) \cup U /\ Distinct(flight')
        /\ \A i \in 1 .. Len(flight') : (i \in 1 .. Len(flight) /\ flight'[i] = flight[i]) \/ flight'[i] = x
    <3>1. CASE outbox' = <<>> /\ U = {}
      BY <1>20, <2>1, <3>1
    <3>2. CASE outbox' = <<x>>
      <4>1. flight' = flight \o <<x>>
        BY <1>20, <3>2
      <4>2. CallsIn(flight) \cap CallsOf(x) = {}
        BY <1>5, <1>16, <2>1
      <4> HIDE DEF flight
      <4>3. CallsIn(flight') = CallsIn(flight) \cup CallsOf(x)
        BY <1>15, <1>20, <4>1, SentFacts
      <4>4. Distinct(flight')
        BY <1>15, <1>17, <1>20, <2>1, <4>1, <4>2, SentFacts
      <4>5. \A i \in 1 .. Len(flight') : (i \in 1 .. Len(flight) /\ flight'[i] = flight[i]) \/ flight'[i] = x
        BY <1>15, <1>20, <4>1, SentFacts
      <4> QED
        BY <1>16, <4>3, <4>4, <4>5
    <3> QED
      BY <1>18, <1>19, <3>1, <3>2
  <2>3. Held' = Held /\ sent' = sent /\ toolCalls' = toolCalls
    BY <1>2 DEF Held
  <2>4. Held' \cup CallsIn(flight') = O /\ Held' \cap CallsIn(flight') = {}
    BY <1>5, <2>1, <2>2, <2>3
  <2>5. ASSUME NEW i \in 1 .. Len(flight'), flight'[i].kind = "calls",
               NEW j \in 1 .. Len(flight'[i].calls)
        PROVE  Own(sent', flight'[i].calls[j], t)
    <3>1. CASE i \in 1 .. Len(flight) /\ flight'[i] = flight[i]
      BY <2>1, <2>3, <2>5, <3>1
    <3>2. CASE flight'[i] = x
      <4>1. j \in 1 .. N /\ flight'[i].calls[j] = calls[j]
        BY <1>14, <1>15, <2>5, <3>2
      <4>2. PICK c \in U : calls[j] = CallOf(accumulators[Key(c)])
        BY <1>12, <4>1
      <4> QED
        BY <1>11, <2>3, <4>1, <4>2
    <3> QED
      BY <2>2, <3>1, <3>2
  <2> QED
    BY <1>1, <2>1, <2>2, <2>3, <2>4, <2>5 DEF Handed, O
<1> QED
  BY <1>21, <1>22, <1>23, <1>24, <1>25, <1>26, <1>27 DEF Taken

-----------------------------------------------------------------------------
(* The agent.                                                              *)

\* The first token in flight is the next one of the response.
LEMMA NextToken ==
    ASSUME TypeOK, Orderly, NEW t \in 0 .. Len(sent), Heard(t),
           flight # <<>>, Head(flight).kind = "token"
    PROVE  Head(flight).n = Len(response) + 1 /\ Head(flight).n \in Among(sent, "text", t)
<1> DEFINE R == Len(response)
           A == Among(sent, "text", t)
           h == Head(flight)
<1>1. /\ flight \in Seq(ProviderEvent) /\ R \in Nat /\ t \in Nat /\ t <= Len(sent) /\ Len(sent) \in Nat
      /\ sent \in Seq(Event)
  BY DEF TypeOK, flight
<1>2. /\ TokensIn(flight) = TokenOf(h) \cup TokensIn(Tail(flight))
      /\ \A m \in TokenOf(h), n \in TokensIn(Tail(flight)) : m < n
  BY <1>1, ReceivedFacts DEF Heard
<1>3. TokensIn(flight) = A \ (1 .. R)
  BY DEF Heard
<1>4. TokenOf(h) = {h.n}
  BY DEF TokenOf
<1>5. h.n \in A /\ h.n \notin 1 .. R
  BY <1>2, <1>3, <1>4
<1>6. PICK i \in 1 .. t : sent[i].kind = "text" /\ sent[i].n = h.n
  BY <1>5, AmongMember
<1>7. /\ Among(sent, "text", i - 1) = 1 .. (h.n - 1) /\ h.n # 0
      /\ i - 1 \in 0 .. t /\ i \in 1 .. Len(sent)
  <2>1. i \in 1 .. Len(sent) /\ i - 1 \in 0 .. t
    BY <1>1
  <2>2. InTurn(sent, i)
    BY <2>1 DEF Orderly
  <2> QED
    BY <1>6, <2>1, <2>2 DEF InTurn
<1>8. 1 .. (h.n - 1) \subseteq A
  BY <1>1, <1>7, AmongFacts
<1>9. h.n \in Nat
  <2>1. sent[i] \in Event
    BY <1>1, <1>7
  <2> QED
    BY <1>6, <2>1 DEF Event
<1> HIDE DEF A, R, h
<1>10. ASSUME h.n # R + 1
       PROVE  FALSE
  <2>1. R + 1 \in 1 .. (h.n - 1) /\ R + 1 \notin 1 .. R
    BY <1>1, <1>5, <1>7, <1>9, <1>10
  <2>2. R + 1 \in TokensIn(Tail(flight))
    BY <1>2, <1>3, <1>4, <1>8, <1>10, <2>1
  <2> QED
    BY <1>2, <1>4, <1>9, <2>1, <2>2
<1> QED
  BY <1>5, <1>10 DEF h, A, R

LEMMA ReceiveKeeps ==
    ASSUME TypeOK, Orderly, NEW t \in Nat, Taken(t), Receive
    PROVE  TypeOK' /\ Orderly' /\ Taken(t)'
<1> DEFINE ev == Head(channel)
           R == Len(response)
           A == Among(sent, "text", t)
<1>1. /\ channel # <<>> /\ channel' = Tail(channel)
      /\ response' = IF ev.kind = "token" THEN Append(response, ev) ELSE response
      /\ toolCalls' = IF ev.kind = "calls" THEN toolCalls \o ev.calls ELSE toolCalls
      /\ UNCHANGED <<protocol, server, wire, provider, result>>
  BY DEF Receive
<1>2. UNCHANGED <<protocol, sent, whole, closed, wire, buffer, accumulators, started, outbox, task, result>>
  BY <1>1 DEF server, provider
<1>3. /\ Flowing(t) /\ Phased(t) /\ Accumulated(t) /\ Heard(t) /\ Handed(t)
      /\ t \in 0 .. Len(sent)
  BY DEF Taken, TypeOK, Flowing
<1>4. /\ channel \in Seq(ProviderEvent) /\ outbox \in Seq(ProviderEvent) /\ Len(channel) <= BufferSize
      /\ response \in Seq(Token) /\ toolCalls \in Seq(Call) /\ BufferSize \in Nat
  BY StreamAssumption DEF TypeOK, StreamAssumption
<1>5. /\ flight \in Seq(ProviderEvent) /\ flight # <<>>
      /\ Head(flight) = ev /\ flight' = Tail(flight)
      /\ channel' \in Seq(ProviderEvent) /\ Len(channel') <= BufferSize
      /\ ev \in ProviderEvent
  <2> HIDE DEF ProviderEvent
  <2>1. flight = channel \o outbox /\ flight' = Tail(channel) \o outbox
    BY <1>1, <1>2 DEF flight
  <2>2. /\ channel' \in Seq(ProviderEvent) /\ Len(channel') <= BufferSize
        /\ ev \in ProviderEvent
    BY <1>1, <1>4
  <2>3. /\ channel \o outbox \in Seq(ProviderEvent) /\ channel \o outbox # <<>>
        /\ Head(channel \o outbox) = Head(channel)
    BY <1>1, <1>4
  <2>4. Tail(channel \o outbox) = Tail(channel) \o outbox
    <3> DEFINE a == Tail(channel \o outbox)
               b == Tail(channel) \o outbox
    <3>1. a \in Seq(ProviderEvent) /\ b \in Seq(ProviderEvent) /\ Len(a) = Len(b)
      BY <1>1, <1>4
    <3>2. \A i \in 1 .. Len(a) : a[i] = b[i]
      BY <1>1, <1>4
    <3> HIDE DEF a, b
    <3>3. a = b
      BY <3>1, <3>2, SeqEqual
    <3> QED
      BY <3>3 DEF a, b
  <2> QED
    BY <2>1, <2>2, <2>3, <2>4
<1>6. /\ Tail(flight) \in Seq(ProviderEvent)
      /\ TokensIn(flight) = TokenOf(ev) \cup TokensIn(flight')
      /\ CallsIn(flight) = CallsOf(ev) \cup CallsIn(flight')
      /\ Rising(flight) => /\ Rising(flight')
                           /\ \A m \in TokenOf(ev), n \in TokensIn(flight') : m < n
      /\ Distinct(flight) => /\ Distinct(flight') /\ Several(ev)
                             /\ CallsIn(flight') \cap CallsOf(ev) = {}
      /\ \A i \in 1 .. Len(flight') : i + 1 \in 1 .. Len(flight) /\ flight'[i] = flight[i + 1]
      /\ 1 \in 1 .. Len(flight) /\ flight[1] = ev
  BY <1>5, ReceivedFacts
<1>7. /\ ev.kind = "token" => ev \in Token /\ ev.n = R + 1 /\ ev.n \in A
      /\ ev.kind = "calls" => ev.calls \in Seq(Call)
  <2>1. ev.kind = "token" => ev \in Token
    BY <1>5 DEF ProviderEvent, Call
  <2>2. ev.kind = "calls" => ev.calls \in Seq(Call)
    BY <1>5 DEF ProviderEvent, Token
  <2>3. ev.kind = "token" => ev.n = R + 1 /\ ev.n \in A
    BY <1>3, <1>5, NextToken
  <2> QED
    BY <2>1, <2>2, <2>3
<1> HIDE DEF ev, R, A
<1>8. /\ response' \in Seq(Token)
      /\ toolCalls' \in Seq(Call)
  <2>1. response' \in Seq(Token)
    BY <1>1, <1>4, <1>7
  <2>2. toolCalls' \in Seq(Call)
    <3> HIDE DEF Call
    <3> QED
      BY <1>1, <1>4, <1>7
  <2> QED
    BY <2>1, <2>2
<1>9. TypeOK'
  BY <1>2, <1>5, <1>8 DEF TypeOK
<1>10. Orderly'
  BY <1>2 DEF Orderly, InTurn
<1>11. Flowing(t)'
  BY <1>2, <1>3 DEF Flowing, stream
<1>12. Phased(t)'
  BY <1>1, <1>2, <1>3 DEF Phased
<1>13. Accumulated(t)'
  BY <1>2, <1>3 DEF Accumulated, Unfinished, Key
<1>14. Heard(t)'
  <2>1. /\ \A i \in 1 .. R : response[i].n = i /\ i \in A /\ Excused(sent, response[i], t)
        /\ TokensIn(flight) = A \ (1 .. R) /\ Rising(flight)
        /\ \A i \in 1 .. Len(flight) : flight[i].kind = "token" => Excused(sent, flight[i], t)
    BY <1>3 DEF Heard, R, A
  <2>2. \A i \in 1 .. Len(flight') : flight'[i].kind = "token" => Excused(sent, flight'[i], t)
    BY <1>6, <2>1
  <2>3. CASE ev.kind = "token"
    <3>1. Len(response') = R + 1 /\ R \in Nat /\ response'[R + 1] = ev /\ \A i \in 1 .. R : response'[i] = response[i]
      BY <1>1, <1>4, <2>3 DEF R
    <3>2. TokenOf(ev) = {R + 1}
      BY <1>7, <2>3 DEF TokenOf
    <3>3. \A i : i \in 1 .. (R + 1) <=> i \in 1 .. R \/ i = R + 1
      BY <3>1
    <3>4. R + 1 \notin TokensIn(flight')
      BY <1>6, <2>1, <3>1, <3>2
    <3>5. TokensIn(flight') = A \ (1 .. (R + 1))
      BY <1>6, <2>1, <3>2, <3>3, <3>4
    <3>6. Excused(sent, ev, t)
      BY <1>6, <2>1, <2>3
    <3>7. \A i \in 1 .. (R + 1) : response'[i].n = i /\ i \in A /\ Excused(sent, response'[i], t)
      BY <1>7, <2>1, <2>3, <3>1, <3>3, <3>6
    <3> QED
      BY <1>2, <1>6, <2>1, <2>2, <3>1, <3>5, <3>7 DEF Heard, A
  <2>4. CASE ev.kind # "token"
    <3>1. response' = response /\ TokenOf(ev) = {}
      BY <1>1, <2>4 DEF TokenOf
    <3>2. TokensIn(flight') = TokensIn(flight)
      BY <1>6, <3>1
    <3> QED
      BY <1>2, <1>6, <2>1, <2>2, <3>1, <3>2 DEF Heard, A, R
  <2> QED
    BY <2>3, <2>4
<1>15. Handed(t)'
  <2> DEFINE All == IF task = "ok" THEN Among(sent, "open", t) ELSE Among(sent, "done", t)
  <2>1. /\ Held \cup CallsIn(flight) = All /\ Held \cap CallsIn(flight) = {} /\ Distinct(flight)
        /\ \A i \in 1 .. Len(toolCalls) : Own(sent, toolCalls[i], t)
        /\ \A i \in 1 .. Len(flight) :
              flight[i].kind = "calls" =>
                  \A j \in 1 .. Len(flight[i].calls) : Own(sent, flight[i].calls[j], t)
    BY <1>3 DEF Handed
  <2> HIDE DEF All
  <2>2. /\ Held' = Held \cup CallsOf(ev)
        /\ \A i \in 1 .. Len(toolCalls') : Own(sent, toolCalls'[i], t)
    <3>1. CASE ev.kind = "calls"
      <4> DEFINE cs == ev.calls
                 l == Len(toolCalls)
      <4>1. /\ toolCalls' = toolCalls \o cs /\ cs \in Seq(Call) /\ CallsOf(ev) = {cs[j].call : j \in 1 .. Len(cs)}
            /\ \A j \in 1 .. Len(cs) : Own(sent, cs[j], t)
        BY <1>1, <1>6, <1>7, <2>1, <3>1 DEF CallsOf
      <4> HIDE DEF cs
      <4>2. /\ Len(toolCalls') = l + Len(cs) /\ l \in Nat /\ Len(cs) \in Nat
            /\ \A i \in 1 .. l : toolCalls'[i] = toolCalls[i]
            /\ \A j \in 1 .. Len(cs) : toolCalls'[l + j] = cs[j]
        <5> HIDE DEF Call
        <5> QED
          BY <1>4, <4>1
      <4>3. \A i \in 1 .. (l + Len(cs)) : i \in 1 .. l \/ (i - l \in 1 .. Len(cs) /\ i = l + (i - l))
        BY <4>2
      <4>4. \A i \in 1 .. l : i \in 1 .. (l + Len(cs))
        BY <4>2
      <4>5. \A j \in 1 .. Len(cs) : l + j \in 1 .. (l + Len(cs))
        BY <4>2
      <4> HIDE DEF l
      <4>6. \A i \in 1 .. Len(toolCalls') : Own(sent, toolCalls'[i], t)
        <5> SUFFICES ASSUME NEW i \in 1 .. (l + Len(cs))
                     PROVE  Own(sent, toolCalls'[i], t)
          BY <4>2
        <5>1. CASE i \in 1 .. l
          BY <2>1, <4>2, <5>1 DEF l
        <5>2. CASE i - l \in 1 .. Len(cs) /\ i = l + (i - l)
          BY <4>1, <4>2, <5>2
        <5> QED
          BY <4>3, <5>1, <5>2
      <4>7. Held' = Held \cup CallsOf(ev)
        <5>1. \A c : c \in Held' <=> \E i \in 1 .. (l + Len(cs)) : toolCalls'[i].call = c
          BY <4>2 DEF Held
        <5>2. \A c : c \in Held <=> \E i \in 1 .. l : toolCalls[i].call = c
          BY DEF Held, l
        <5>3. \A c : c \in CallsOf(ev) <=> \E j \in 1 .. Len(cs) : cs[j].call = c
          BY <4>1
        <5>4. ASSUME NEW c \in Held'
              PROVE  c \in Held \/ c \in CallsOf(ev)
          <6>1. PICK i \in 1 .. (l + Len(cs)) : toolCalls'[i].call = c
            BY <5>1, <5>4
          <6>2. CASE i \in 1 .. l
            BY <4>2, <5>2, <6>1, <6>2
          <6>3. CASE i - l \in 1 .. Len(cs) /\ i = l + (i - l)
            BY <4>2, <5>3, <6>1, <6>3
          <6> QED
            BY <4>3, <6>2, <6>3
        <5>5. ASSUME NEW c \in Held
              PROVE  c \in Held'
          BY <4>2, <4>4, <5>1, <5>2
        <5>6. ASSUME NEW c \in CallsOf(ev)
              PROVE  c \in Held'
          BY <4>2, <4>5, <5>1, <5>3
        <5> QED
          BY <5>4, <5>5, <5>6
      <4> QED
        BY <4>6, <4>7
    <3>2. CASE ev.kind # "calls"
      <4>1. toolCalls' = toolCalls /\ CallsOf(ev) = {}
        BY <1>1, <3>2 DEF CallsOf
      <4> QED
        BY <2>1, <4>1 DEF Held
    <3> QED
      BY <3>1, <3>2
  <2>3. Held' \cup CallsIn(flight') = All /\ Held' \cap CallsIn(flight') = {} /\ Distinct(flight')
    BY <1>6, <2>1, <2>2
  <2>4. ASSUME NEW i \in 1 .. Len(flight'), flight'[i].kind = "calls",
               NEW j \in 1 .. Len(flight'[i].calls)
        PROVE  Own(sent, flight'[i].calls[j], t)
    <3>1. i + 1 \in 1 .. Len(flight) /\ flight'[i] = flight[i + 1]
      BY <1>6
    <3> QED
      BY <2>1, <2>4, <3>1
  <2> QED
    BY <1>2, <2>2, <2>3, <2>4 DEF Handed, All
<1> QED
  BY <1>9, <1>10, <1>11, <1>12, <1>13, <1>14, <1>15 DEF Taken

LEMMA JoinKeeps ==
    ASSUME TypeOK, Orderly, NEW t \in Nat, Taken(t), Join
    PROVE  TypeOK' /\ Orderly' /\ Taken(t)'
<1>1. /\ task \in {"ok", "error"} /\ outbox = <<>> /\ channel = <<>> /\ result' = task
      /\ UNCHANGED <<protocol, server, wire, provider, channel, response, toolCalls>>
  BY DEF Join
<1>2. UNCHANGED <<protocol, sent, whole, closed, wire, buffer, accumulators, started, outbox, task, channel, response, toolCalls>>
  BY <1>1 DEF server, provider
<1>3. TypeOK'
  BY <1>1, <1>2 DEF TypeOK
<1>4. Orderly'
  BY <1>2 DEF Orderly, InTurn
<1>5. stream' = stream /\ flight' = flight
  BY <1>2 DEF stream, flight
<1>6. Flowing(t)'
  BY <1>2, <1>5 DEF Taken, Flowing
<1>7. Phased(t)'
  BY <1>1, <1>2 DEF Taken, Phased
<1>8. Accumulated(t)' /\ Heard(t)' /\ Handed(t)'
  BY <1>2, <1>5, StillTaken DEF Taken
<1> QED
  BY <1>3, <1>4, <1>6, <1>7, <1>8 DEF Taken

-----------------------------------------------------------------------------
(* The invariant.                                                          *)

LEMMA InvInit == Init => Inv
<1> SUFFICES ASSUME Init
             PROVE  Inv
  OBVIOUS
<1> USE DEF Init
<1>1. TypeOK
  <2>1. BufferSize \in Nat
    BY StreamAssumption DEF StreamAssumption
  <2>2. DOMAIN accumulators = {}
    OBVIOUS
  <2>3. \A X : <<>> \in Seq(X)
    OBVIOUS
  <2>4. whole \in 0 .. Len(sent) /\ Len(channel) <= BufferSize
    BY <2>1
  <2>5. sent \in Seq(Event) /\ wire \in Seq(Unit) /\ buffer \in Seq(Unit)
    BY <2>3
  <2>6. outbox \in Seq(ProviderEvent) /\ channel \in Seq(ProviderEvent) /\ response \in Seq(Token) /\ toolCalls \in Seq(Call)
    BY <2>3
  <2> QED
    BY <2>2, <2>4, <2>5, <2>6 DEF TypeOK
<1>2. /\ \A kind, k : Among(sent, kind, 0) = {} /\ Len(sent) = 0
      /\ Len(stream) = 0 /\ flight = <<>> /\ Len(flight) = 0
  BY DEF Among, stream, flight
<1>3. Orderly
  BY <1>2, 0 \in Nat, 1 .. 0 = {} DEF Orderly
<1>4. Flowing(0)
  BY <1>2 DEF Flowing
<1>5. Phased(0)
  BY DEF Phased
<1>6. Accumulated(0)
  BY <1>2 DEF Accumulated, Unfinished
<1>7. TokensIn(flight) = {} /\ CallsIn(flight) = {} /\ Rising(flight) /\ Distinct(flight)
  BY <1>2 DEF TokensIn, CallsIn, Rising, Distinct
<1>8. Heard(0)
  BY <1>2, <1>7 DEF Heard
<1>9. Handed(0)
  BY <1>2, <1>7 DEF Handed, Held
<1> QED
  BY <1>1, <1>3, <1>4, <1>5, <1>6, <1>8, <1>9 DEF Inv, Taken

\* Every step keeps it: a step that takes an event with the number after t, any
\* other with t itself.
LEMMA InvNext == Inv /\ [Next]_vars => Inv'
<1> SUFFICES ASSUME TypeOK, Orderly, NEW t \in Nat, Taken(t), [Next]_vars
             PROVE  Inv'
  BY DEF Inv
<1> SUFFICES ASSUME Next
             PROVE  TypeOK' /\ Orderly' /\ (Taken(t)' \/ Taken(t + 1)')
  <2>1. CASE UNCHANGED vars
    <3>1. UNCHANGED <<protocol, sent, whole, wire, closed, buffer, accumulators, started, outbox, task,
                      channel, response, toolCalls, result>>
      BY <2>1 DEF vars, server, provider, agent
    <3>2. stream' = stream /\ flight' = flight
      BY <3>1 DEF stream, flight
    <3>3. TypeOK'
      BY <3>1 DEF TypeOK
    <3>4. Orderly'
      BY <3>1 DEF Orderly, InTurn
    <3>5. Flowing(t)'
      BY <3>1, <3>2 DEF Taken, Flowing
    <3>6. Phased(t)'
      BY <3>1 DEF Taken, Phased
    <3>7. Accumulated(t)' /\ Heard(t)' /\ Handed(t)'
      BY <3>1, <3>2, StillTaken DEF Taken
    <3> QED
      BY <3>3, <3>4, <3>5, <3>6, <3>7 DEF Inv, Taken
  <2> QED
    BY <2>1 DEF Inv
<1>1. ASSUME NEW kind \in Kinds, NEW n \in 0 .. (MaxCalls + MaxTexts), NEW wide \in BOOLEAN,
             ServerSends([kind |-> kind, n |-> n, wide |-> wide])
      PROVE  TypeOK' /\ Orderly' /\ Taken(t)'
  <2>1. [kind |-> kind, n |-> n, wide |-> wide] \in Event
    BY StreamAssumption DEF StreamAssumption, Event
  <2> QED
    BY <1>1, <2>1, ServerSendsKeeps
<1>2. ASSUME NEW how \in {"end", "lost"}, NEW k \in 1 .. (Len(wire) + 1), Close(how, k)
      PROVE  TypeOK' /\ Orderly' /\ Taken(t)'
  BY <1>2, CloseKeeps
<1>3. ASSUME RequestFails
      PROVE  TypeOK' /\ Orderly' /\ Taken(t)'
  BY <1>3, RequestFailsKeeps
<1>4. ASSUME SendNext
      PROVE  TypeOK' /\ Orderly' /\ Taken(t)'
  BY <1>4, SendNextKeeps
<1>5. ASSUME NEW n \in 1 .. Len(wire), ReadFragment(n)
      PROVE  TypeOK' /\ Orderly' /\ Taken(t)'
  BY <1>5, ReadFragmentKeeps
<1>6. ASSUME TakeEvent \/ TakeStreamed
      PROVE  TypeOK' /\ Orderly' /\ Taken(t + 1)'
  BY <1>6, TakeKeeps
<1>7. ASSUME StreamCloses
      PROVE  TypeOK' /\ Orderly' /\ Taken(t)'
  BY <1>7, StreamClosesKeeps
<1>8. ASSUME Flush
      PROVE  TypeOK' /\ Orderly' /\ Taken(t)'
  BY <1>8, FlushKeeps
<1>9. ASSUME Receive
      PROVE  TypeOK' /\ Orderly' /\ Taken(t)'
  BY <1>9, ReceiveKeeps
<1>10. ASSUME Join
       PROVE  TypeOK' /\ Orderly' /\ Taken(t)'
  BY <1>10, JoinKeeps
<1> QED
  BY <1>1, <1>2, <1>3, <1>4, <1>5, <1>6, <1>7, <1>8, <1>9, <1>10 DEF Next, Server, Provider, Agent

LEMMA Invariance == Spec => []Inv
  BY InvInit, InvNext, PTL DEF Spec

-----------------------------------------------------------------------------
(* The theorems.                                                           *)

\* Every variable has its type in every state, and the channel never holds more
\* than its capacity.
THEOREM TypeCorrect == Spec => []TypeOK
<1>1. Inv => TypeOK
  BY DEF Inv
<1> QED
  BY <1>1, Invariance, PTL

\* An iteration that ended well has joined a task that ended well, with nothing
\* in flight: the task has taken all that came whole, and the agent holds it.
THEOREM NothingLostHolds == Spec => []NothingLost
<1>1. Inv => NothingLost
  <2> SUFFICES ASSUME TypeOK, NEW t \in Nat, Taken(t), result = "ok"
               PROVE  /\ Texts(whole) = {response[i].n : i \in DOMAIN response}
                      /\ \A i \in DOMAIN response :
                            response[i].garbled =>
                                \E j \in 1 .. whole :
                                    sent[j].kind = "text" /\ sent[j].wide /\ sent[j].n = response[i].n
                      /\ Opened(whole) = {toolCalls[i].call : i \in DOMAIN toolCalls}
    BY DEF Inv, NothingLost
  <2>1. t = whole /\ task = "ok" /\ outbox = <<>> /\ channel = <<>>
    BY DEF Taken, Phased
  <2>2. flight = <<>> /\ Len(flight) = 0
    BY <2>1 DEF flight
  <2>3. TokensIn(flight) = {} /\ CallsIn(flight) = {}
    BY <2>2 DEF TokensIn, CallsIn
  <2>4. Texts(whole) = Among(sent, "text", t) /\ Opened(whole) = Among(sent, "open", t)
    BY <2>1 DEF Texts, Opened, NumbersOf, Among
  <2>5. DOMAIN response = 1 .. Len(response) /\ DOMAIN toolCalls = 1 .. Len(toolCalls)
    BY DEF TypeOK
  <2>6. /\ \A i \in 1 .. Len(response) :
              response[i].n = i /\ i \in Among(sent, "text", t) /\ Excused(sent, response[i], t)
        /\ TokensIn(flight) = Among(sent, "text", t) \ (1 .. Len(response))
    BY DEF Taken, Heard
  <2>7. Among(sent, "text", t) = {response[i].n : i \in 1 .. Len(response)}
    <3>1. Among(sent, "text", t) = 1 .. Len(response)
      BY <2>3, <2>6
    <3> QED
      BY <2>6, <3>1
  <2>8. ASSUME NEW i \in 1 .. Len(response), response[i].garbled
        PROVE  \E j \in 1 .. whole : sent[j].kind = "text" /\ sent[j].wide /\ sent[j].n = response[i].n
    BY <2>1, <2>6, <2>8 DEF Excused
  <2>9. Among(sent, "open", t) = {toolCalls[i].call : i \in 1 .. Len(toolCalls)}
    BY <2>1, <2>3 DEF Taken, Handed, Held
  <2> QED
    BY <2>4, <2>5, <2>7, <2>8, <2>9
<1> QED
  BY <1>1, Invariance, PTL

\* A call the agent holds was done when it was handed over, and then has all its
\* pieces, or the task has ended, and then nothing more comes whole.  Only a cut
\* inside one of these pieces can have changed them.
THEOREM ArgumentsAreOwnHolds == Spec => []ArgumentsAreOwn
<1>1. Inv => ArgumentsAreOwn
  <2> SUFFICES ASSUME TypeOK, Orderly, NEW t \in Nat, Taken(t), NEW i \in DOMAIN toolCalls
               PROVE  /\ toolCalls[i].input =
                            IF Count("arg", toolCalls[i].call, whole) = ArgPieces
                            THEN Pieces(toolCalls[i].call)
                            ELSE <<>>
                      /\ toolCalls[i].garbled =>
                            \E j \in 1 .. whole :
                                sent[j].kind = "arg" /\ sent[j].wide /\ sent[j].n = toolCalls[i].call
    BY DEF Inv, ArgumentsAreOwn
  <2> DEFINE c == toolCalls[i].call
  <2>1. /\ i \in 1 .. Len(toolCalls) /\ whole \in 0 .. Len(sent) /\ sent \in Seq(Event)
        /\ t <= whole /\ t \in 0 .. Len(sent) /\ t \in 0 .. whole /\ whole \in Nat
    BY DEF TypeOK, Taken, Flowing
  <2>2. Own(sent, toolCalls[i], t) /\ c \in Held
    BY <2>1 DEF Taken, Handed, Held
  <2>3. Count("arg", c, whole) = Times(sent, "arg", c, whole)
    BY DEF Count, Times
  <2>4. Times(sent, "arg", c, whole) = Times(sent, "arg", c, t)
    <3>1. CASE task = "ok"
      BY <3>1 DEF Taken, Phased
    <3>2. CASE task # "ok"
      <4>1. c \in Among(sent, "done", t)
        BY <2>2, <3>2 DEF Taken, Handed
      <4>2. c \in Among(sent, "done", whole)
        BY <2>1, <4>1, AmongFacts
      <4> QED
        BY <2>1, <4>1, <4>2, OrderlyFacts
    <3> QED
      BY <3>1, <3>2
  <2>5. toolCalls[i].garbled => \E j \in 1 .. whole : sent[j].kind = "arg" /\ sent[j].wide /\ sent[j].n = c
    <3>1. toolCalls[i].garbled => \E j \in 1 .. t : sent[j].kind = "arg" /\ sent[j].wide /\ sent[j].n = c
      BY <2>2 DEF Own, Touched
    <3>2. \A j \in 1 .. t : j \in 1 .. whole
      BY <2>1
    <3> QED
      BY <3>1, <3>2
  <2> QED
    BY <2>2, <2>3, <2>4, <2>5 DEF Own
<1> QED
  BY <1>1, Invariance, PTL

-----------------------------------------------------------------------------
(* The refinement: an event of the server says a token or opens a call, what *)
(* the agent receives is heard or given, and joining the task ends.          *)

\* What the steps of the server say.
LEMMA SaidFacts ==
    ASSUME TypeOK, Orderly, NEW e \in Event, ServerSends(e)
    PROVE  [C!Next]_(C!vars)
<1> DEFINE L == Len(sent)
           said == Cardinality(Texts(Len(sent)))
           opened == Opened(Len(sent))
<1>1. /\ L \in Nat /\ sent \in Seq(Event) /\ e.n \in Nat
      /\ sent' = Append(sent, e) /\ Follows(e)
      /\ UNCHANGED <<response, toolCalls, result>>
  BY DEF TypeOK, ServerSends, Event, agent
<1>2. Len(sent') = L + 1 /\ sent'[L + 1] = e /\ \A i \in 1 .. L : sent'[i] = sent[i]
  BY <1>1
<1>3. /\ Texts(Len(sent)) = Among(sent, "text", L) /\ Opened(Len(sent)) = Among(sent, "open", L)
      /\ Texts(Len(sent))' = Among(sent', "text", L + 1) /\ Opened(Len(sent))' = Among(sent', "open", L + 1)
  BY <1>2 DEF Texts, Opened, NumbersOf, Among
<1>4. \A kind : Among(sent', kind, L) = Among(sent, kind, L)
  BY <1>1, <1>2, PrefixFacts
<1>5. \A kind : Among(sent', kind, L + 1) =
                  IF e.kind = kind THEN Among(sent, kind, L) \cup {e.n} ELSE Among(sent, kind, L)
  <2> SUFFICES ASSUME NEW kind
               PROVE  Among(sent', kind, L + 1) =
                        IF e.kind = kind THEN Among(sent, kind, L) \cup {e.n} ELSE Among(sent, kind, L)
    OBVIOUS
  <2> HIDE DEF L
  <2>1. /\ sent'[L + 1].kind = kind => Among(sent', kind, L + 1) = Among(sent', kind, L) \cup {sent'[L + 1].n}
        /\ sent'[L + 1].kind # kind => Among(sent', kind, L + 1) = Among(sent', kind, L)
    BY <1>1, AmongFacts
  <2> QED
    BY <1>2, <1>4, <2>1
<1>6. /\ e.kind = "text" => Among(sent, "text", L) = 1 .. (e.n - 1) /\ e.n # 0
  BY <1>1, FollowsFacts
<1> HIDE DEF L
<1>7. CASE e.kind = "text"
  <2>1. Texts(Len(sent)) = 1 .. (e.n - 1) /\ Texts(Len(sent))' = 1 .. e.n
    BY <1>1, <1>3, <1>5, <1>6, <1>7, Upwards
  <2>2. Cardinality(1 .. (e.n - 1)) = e.n - 1 /\ Cardinality(1 .. e.n) = e.n
    <3>1. e.n \in Nat /\ e.n - 1 \in Nat
      BY <1>1, <1>6, <1>7
    <3> QED
      BY <3>1, UpTo
  <2>3. said = e.n - 1 /\ said' = e.n
    BY <2>1, <2>2
  <2>4. opened' = opened
    BY <1>3, <1>5, <1>7
  <2> HIDE DEF said, opened
  <2>5. said' = said + 1
    BY <1>1, <2>3
  <2> QED
    BY <1>1, <2>4, <2>5 DEF C!Next, C!Say, said, opened
<1>8. CASE e.kind = "open"
  <2>1. opened' = opened \cup {e.n} /\ said' = said
    BY <1>3, <1>5, <1>8
  <2>2. C!Open
    BY <1>1, <2>1 DEF C!Open
  <2> QED
    BY <2>2 DEF C!Next
<1>9. CASE e.kind \notin {"text", "open"}
  <2>1. said' = said /\ opened' = opened
    BY <1>3, <1>5, <1>9
  <2> QED
    BY <1>1, <2>1 DEF C!vars
<1> QED
  BY <1>7, <1>8, <1>9

\* What the agent receives is the next token, or some of the calls that were
\* opened and not given, in some order.
LEMMA ReceivesFacts ==
    ASSUME TypeOK, Orderly, NEW t \in Nat, Taken(t), Receive
    PROVE  [C!Next]_(C!vars)
<1> DEFINE ev == Head(channel)
           R == Len(response)
           said == Cardinality(Texts(Len(sent)))
           opened == Opened(Len(sent))
           heard == [i \in DOMAIN response |-> response[i].n]
           given == [i \in DOMAIN toolCalls |-> toolCalls[i].call]
<1>1. /\ channel # <<>>
      /\ response' = IF ev.kind = "token" THEN Append(response, ev) ELSE response
      /\ toolCalls' = IF ev.kind = "calls" THEN toolCalls \o ev.calls ELSE toolCalls
      /\ sent' = sent /\ result' = result
  BY DEF Receive, server
<1>2. /\ Phased(t) /\ Heard(t) /\ Handed(t) /\ t \in 0 .. Len(sent) /\ Len(sent) \in Nat
      /\ sent \in Seq(Event)
  BY DEF Taken, TypeOK, Flowing
<1>3. result = "none"
  BY <1>1, <1>2 DEF Phased
<1>4. said' = said /\ opened' = opened
  BY <1>1 DEF Texts, Opened, NumbersOf
<1>5. /\ channel \in Seq(ProviderEvent) /\ outbox \in Seq(ProviderEvent)
      /\ response \in Seq(Token) /\ toolCalls \in Seq(Call)
  BY DEF TypeOK
<1>6. flight \in Seq(ProviderEvent) /\ flight # <<>> /\ Head(flight) = ev /\ ev \in ProviderEvent
  <2> HIDE DEF ProviderEvent
  <2> QED
    BY <1>1, <1>5 DEF flight
<1>7. \A kind : Among(sent, kind, t) \subseteq Among(sent, kind, Len(sent))
  BY <1>2, AmongFacts
<1>8. Texts(Len(sent)) = Among(sent, "text", Len(sent)) /\ opened = Among(sent, "open", Len(sent))
  BY DEF Texts, Opened, NumbersOf, Among
<1> HIDE DEF ev
<1>9. CASE ev.kind = "token"
  <2>1. ev.n = R + 1 /\ ev.n \in Among(sent, "text", t)
    BY <1>2, <1>6, <1>9, NextToken
  <2>2. PICK c \in Nat : Among(sent, "text", Len(sent)) = 1 .. c
    BY DEF Orderly
  <2>3. said = c
    BY <1>8, <2>2, UpTo
  <2>4. R \in Nat /\ R < c
    BY <1>5, <1>7, <2>1, <2>2
  <2>5. Len(heard) = R /\ heard' = Append(heard, R + 1)
    <3>1. /\ response' = Append(response, ev) /\ Len(response') = R + 1
          /\ DOMAIN response = 1 .. R /\ DOMAIN response' = 1 .. (R + 1)
          /\ response'[R + 1] = ev /\ \A i \in 1 .. R : response'[i] = response[i]
      <4>1. ev \in Token
        BY <1>6, <1>9 DEF ProviderEvent, Call
      <4> QED
        BY <1>1, <1>5, <1>9, <4>1
    <3>2. \A i \in 1 .. R : response[i].n \in Nat
      <4>1. \A i \in 1 .. R : response[i] \in Token
        BY <1>5
      <4> QED
        BY <4>1 DEF Token
    <3>3. heard \in Seq(Nat) /\ Len(heard) = R /\ \A i \in 1 .. R : heard[i] = response[i].n
      BY <2>4, <3>1, <3>2
    <3>4. heard' = [i \in 1 .. (R + 1) |-> response'[i].n]
      BY <3>1
    <3>5. \A i \in 1 .. (R + 1) : response'[i].n = IF i = R + 1 THEN R + 1 ELSE heard[i]
      BY <2>1, <2>4, <3>1, <3>3
    <3> HIDE DEF heard
    <3>6. Append(heard, R + 1) = [i \in 1 .. (R + 1) |-> IF i = R + 1 THEN R + 1 ELSE heard[i]]
      BY <2>4, <3>3
    <3> QED
      BY <3>3, <3>4, <3>5, <3>6
  <2>6. given' = given
    BY <1>1, <1>9
  <2>7. C!Hear
    BY <1>1, <1>3, <1>4, <2>3, <2>4, <2>5, <2>6 DEF C!Hear
  <2> QED
    BY <2>7 DEF C!Next
<1>10. CASE ev.kind = "calls"
  <2> DEFINE cs == ev.calls
             s == [j \in 1 .. Len(cs) |-> cs[j].call]
             S == CallsOf(ev)
  <2>1. cs \in Seq(Call) /\ toolCalls' = toolCalls \o cs /\ response' = response
    <3>1. ev.calls \in Seq(Call)
      BY <1>6, <1>10 DEF ProviderEvent, Token
    <3> QED
      BY <1>1, <1>10, <3>1
  <2>2. S = {cs[j].call : j \in 1 .. Len(cs)}
    BY <1>10 DEF CallsOf
  <2>3. S \subseteq CallsIn(flight) /\ Several(ev)
    BY <1>2, <1>6, ReceivedFacts DEF Handed
  <2>4. S \subseteq opened
    <3>1. Among(sent, "done", t) \subseteq Among(sent, "open", t)
      BY <1>2, OrderlyFacts
    <3>2. CallsIn(flight) \subseteq Among(sent, "open", t)
      BY <1>2, <3>1 DEF Handed
    <3> QED
      BY <1>7, <1>8, <2>3, <3>2
  <2>5. S \cap Held = {}
    BY <1>2, <2>3 DEF Handed
  <2> HIDE DEF cs
  <2>6. /\ s \in Seq(Nat) /\ Len(s) = Len(cs) /\ Len(cs) \in Nat
        /\ \A j \in 1 .. Len(cs) : s[j] = cs[j].call
    <3>1. \A j \in 1 .. Len(cs) : cs[j].call \in Nat
      <4>1. \A j \in 1 .. Len(cs) : cs[j] \in Call
        BY <2>1
      <4> QED
        BY <4>1 DEF Call
    <3> QED
      BY <2>1, <3>1
  <2>7. \A i, j \in 1 .. Len(s) : s[i] = s[j] => i = j
    BY <1>10, <2>3, <2>6 DEF Several, cs
  <2> HIDE DEF s, S
  <2>8. S = {s[j] : j \in 1 .. Len(s)}
    BY <2>2, <2>6
  <2>9. s \in SetToSeqs(S)
    BY <2>6, <2>7, <2>8, SeqsMember
  <2>10. given' = given \o s
    <3> DEFINE l == Len(toolCalls)
    <3>1. /\ l \in Nat /\ DOMAIN toolCalls = 1 .. l /\ DOMAIN toolCalls' = 1 .. (l + Len(cs))
          /\ \A i \in 1 .. l : toolCalls'[i] = toolCalls[i]
          /\ \A i \in 1 .. (l + Len(cs)) : toolCalls'[i] = IF i <= l THEN toolCalls[i] ELSE cs[i - l]
      <4> HIDE DEF Call
      <4> QED
        BY <1>5, <2>1
    <3>2. \A i \in 1 .. l : toolCalls[i].call \in Nat
      <4>1. \A i \in 1 .. l : toolCalls[i] \in Call
        BY <1>5
      <4> QED
        BY <4>1 DEF Call
    <3> HIDE DEF l
    <3>3. given \in Seq(Nat) /\ Len(given) = l /\ \A i \in 1 .. l : given[i] = toolCalls[i].call
      BY <3>1, <3>2
    <3>4. given' = [i \in 1 .. (l + Len(cs)) |-> toolCalls'[i].call]
      BY <3>1
    <3> HIDE DEF given
    <3>5. given \o s = [i \in 1 .. (l + Len(cs)) |-> IF i <= l THEN given[i] ELSE s[i - l]]
      <4> DEFINE g == given
      <4>1. g \in Seq(Nat) /\ s \in Seq(Nat) /\ Len(g) = l /\ Len(s) = Len(cs)
        BY <2>6, <3>3
      <4> HIDE DEF g
      <4>2. /\ Len(g \o s) = Len(g) + Len(s) /\ g \o s \in Seq(Nat)
            /\ \A i \in 1 .. (Len(g) + Len(s)) : (g \o s)[i] = IF i <= Len(g) THEN g[i] ELSE s[i - Len(g)]
        BY <4>1, ConcatProperties
      <4> DEFINE gs == g \o s
      <4> HIDE DEF gs
      <4>3. gs = [i \in 1 .. Len(gs) |-> gs[i]]
        <5>1. gs \in Seq(Nat)
          BY <4>2 DEF gs
        <5> QED
          BY ONLY <5>1
      <4>4. gs = [i \in 1 .. (l + Len(cs)) |-> IF i <= l THEN g[i] ELSE s[i - l]]
        BY <4>1, <4>2, <4>3 DEF gs
      <4> QED
        BY <4>4 DEF g, gs
    <3>6. ASSUME NEW i \in 1 .. (l + Len(cs))
          PROVE  toolCalls'[i].call = IF i <= l THEN given[i] ELSE s[i - l]
      <4>1. CASE i <= l
        BY <3>1, <3>3, <4>1
      <4>2. CASE ~(i <= l)
        <5>1. i - l \in 1 .. Len(cs)
          BY <2>6, <3>1, <4>2
        <5> QED
          BY <2>6, <3>1, <4>2, <5>1
      <4> QED
        BY <4>1, <4>2
    <3> QED
      BY <3>4, <3>5, <3>6
  <2>11. S \in SUBSET (opened \ C!ToSet(given))
    <3>1. DOMAIN toolCalls = 1 .. Len(toolCalls)
      BY <1>5
    <3>2. C!ToSet(given) = Held
      BY <3>1 DEF C!ToSet, Held
    <3> QED
      BY <2>4, <2>5, <3>2
  <2>12. heard' = heard
    BY <2>1
  <2>13. s \in C!SetToSeqs(S)
    BY <2>9 DEF SetToSeqs, C!SetToSeqs, Cardinality, C!Cardinality
  <2> HIDE DEF heard, given, said, opened
  <2>14. C!Give
    BY <1>1, <1>3, <1>4, <2>10, <2>11, <2>12, <2>13 DEF C!Give, heard, given, said, opened
  <2> QED
    BY <2>14 DEF C!Next
<1>11. CASE ev.kind \notin {"token", "calls"}
  <2>1. heard' = heard /\ given' = given
    BY <1>1, <1>11
  <2> QED
    BY <1>1, <1>4, <2>1 DEF C!vars
<1> QED
  BY <1>9, <1>10, <1>11

LEMMA CompletionStep == Inv /\ [Next]_vars => [C!Next]_(C!vars)
<1> SUFFICES ASSUME TypeOK, Orderly, NEW t \in Nat, Taken(t), [Next]_vars
             PROVE  [C!Next]_(C!vars)
  BY DEF Inv
<1>1. ASSUME NEW kind \in Kinds, NEW n \in 0 .. (MaxCalls + MaxTexts), NEW wide \in BOOLEAN,
             ServerSends([kind |-> kind, n |-> n, wide |-> wide])
      PROVE  [C!Next]_(C!vars)
  <2>1. [kind |-> kind, n |-> n, wide |-> wide] \in Event
    BY StreamAssumption DEF StreamAssumption, Event
  <2> QED
    BY <1>1, <2>1, SaidFacts
<1>2. ASSUME UNCHANGED <<sent, agent>>
      PROVE  [C!Next]_(C!vars)
  BY <1>2 DEF agent, C!vars, Texts, Opened, NumbersOf
<1>3. ASSUME \/ \E how \in {"end", "lost"}, k \in 1 .. (Len(wire) + 1) : Close(how, k)
             \/ RequestFails \/ UNCHANGED vars
      PROVE  [C!Next]_(C!vars)
  <2>1. UNCHANGED <<sent, agent>>
    BY <1>3 DEF Close, RequestFails, vars, server, agent
  <2> QED
    BY <1>2, <2>1
<1>4. ASSUME Provider
      PROVE  [C!Next]_(C!vars)
  <2>1. UNCHANGED <<server, agent>>
    BY <1>4 DEF Provider, SendNext, ReadFragment, TakeEvent, TakeStreamed, StreamCloses, Flush
  <2> QED
    BY <1>2, <2>1 DEF server
<1>5. ASSUME Receive
      PROVE  [C!Next]_(C!vars)
  BY <1>5, ReceivesFacts
<1>6. ASSUME Join
      PROVE  [C!Next]_(C!vars)
  <2>1. /\ result = "none" /\ result' \in {"ok", "error"}
        /\ UNCHANGED <<sent, response, toolCalls>>
    BY <1>6 DEF Join, server
  <2>2. C!End
    BY <2>1 DEF C!End, Texts, Opened, NumbersOf
  <2> QED
    BY <2>2 DEF C!Next
<1> QED
  BY <1>1, <1>3, <1>4, <1>5, <1>6 DEF Next, Server, Agent

\* Both providers implement Completion: the agent hears the tokens in the order
\* of the server, each once, is given each call at most once, and nothing after
\* the result.
THEOREM CompletionImplemented == Spec => CompletionKept
<1>1. Init => C!Init
  <2> SUFFICES ASSUME Init
               PROVE  C!Init
    OBVIOUS
  <2>1. Texts(Len(sent)) = {} /\ Opened(Len(sent)) = {}
    BY DEF Init, Texts, Opened, NumbersOf
  <2>2. Cardinality(Texts(Len(sent))) = 0
    BY <2>1, FS_EmptySet
  <2>3. response = <<>> /\ toolCalls = <<>> /\ result = "none"
    BY DEF Init
  <2>4. [i \in DOMAIN response |-> response[i].n] = <<>> /\ [i \in DOMAIN toolCalls |-> toolCalls[i].call] = <<>>
    BY <2>3
  <2> QED
    BY <2>1, <2>2, <2>3, <2>4 DEF C!Init
<1> QED
  BY <1>1, Invariance, CompletionStep, PTL DEF Spec, CompletionKept, C!Spec

=============================================================================
