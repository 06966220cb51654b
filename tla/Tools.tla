--------------------------------- MODULE Tools ---------------------------------
(***************************************************************************)
(* The toolbox: plugins and an embedder contribute tools and what tools    *)
(* need, build() completes them, and the model's calls are extracted and   *)
(* run, one at a time.                                                     *)
(*                                                                         *)
(* A call that may run is meant here: AgentTurn has the permissions.  The  *)
(* memory tools' own work is in Memory.                                    *)
(***************************************************************************)
EXTENDS InputSchemas, WebPages

CONSTANTS
    Lines,       \* the lines that pages are made of
    MaxLines,    \* bound: the lines of a page
    URLs,        \* the URLs of search results, "" for none
    MaxResults,  \* bound: the results of a search
    Limits       \* the values of max_length and limit in calls

ASSUME ToolsAssumption ==
    /\ Lines \subseteq Seq({" ", "a", "wide"})
    /\ URLs \subseteq STRING
    /\ Limits \subseteq Nat
    /\ {MaxLines, MaxResults} \subseteq Nat

VARIABLES
    plugins,   \* the plugins that are registered
    embedded,  \* whether an embedder has contributed something itself
    state,     \* the StateMap: what it has of each type, or "none"
    memory,    \* whether there is a memory provider
    toolbox,   \* the names of the registered tools
    built,     \* whether build() has returned
    call       \* the call that is being made, and how far it is

vars == <<plugins, embedded, state, memory, toolbox, built, call>>

-----------------------------------------------------------------------------

MemoryTools == {"memory_recall", "memory_remember", "memory_briefing", "memory_get",
                "memory_list", "memory_update", "memory_forget"}

DiscordTools == {"discord_send", "discord_react"}

StateTypes == {"DiscordState", "WebState"}

\* WebState with a SearxNG URL or without; of DiscordState there is one.
States == [DiscordState : {"none", "present"}, WebState : {"none", "plain", "search"}]

DefaultMaxLength == 10000
DefaultLimit == 10

Pages == SeqOf(Lines, MaxLines)
Results == SeqOf(URLs, MaxResults)

NoCall == [at |-> "idle"]

-----------------------------------------------------------------------------
(* Arguments: the plainest call, or one that differs from it in one field. *)

\* A value of the type that is not null, and an id where there may be one.
PlainValue(type) ==
    LET digits == Value("string", "digits")
    IN  IF Read(type, digits) THEN digits ELSE CHOOSE v \in Values \ {Null} : Read(type, v)

PlainFields(tool) == [f \in RequiredOf(tool) |-> PlainValue(Inputs[tool][f])]

Fields(tool) ==
    {PlainFields(tool)}
    \cup {[g \in RequiredOf(tool) \ {f} |-> PlainFields(tool)[g]] : f \in RequiredOf(tool)}
    \cup UNION {{[g \in RequiredOf(tool) \cup {f} |-> IF g = f THEN v ELSE PlainFields(tool)[g]] :
                    v \in Values} : f \in DOMAIN Inputs[tool] \cup {"other"}}

Arguments(tool) ==
    {[object |-> TRUE, fields |-> f] : f \in Fields(tool)} \cup {[object |-> FALSE, fields |-> <<>>]}

-----------------------------------------------------------------------------

Init ==
    /\ plugins = {}
    /\ embedded = FALSE
    /\ state = [t \in StateTypes |-> "none"]
    /\ memory = FALSE
    /\ toolbox = {}
    /\ built = FALSE
    /\ call = NoCall

Registers(plugin) ==
    /\ ~built
    /\ plugin \notin plugins
    /\ plugins' = plugins \cup {plugin}
    /\ UNCHANGED <<embedded, built, call>>

RegisterDiscord ==
    /\ Registers("discord")
    /\ state' = [state EXCEPT !.DiscordState = "present"]
    /\ toolbox' = toolbox \cup DiscordTools
    /\ UNCHANGED memory

RegisterMemini ==
    /\ Registers("memini")
    /\ memory' = TRUE
    /\ UNCHANGED <<state, toolbox>>

\* Mutant of RegisterWeb: both tools, whether a SearxNG URL is configured or not.
RegisterWebAlways ==
    \E url \in BOOLEAN :
        /\ Registers("web")
        /\ state' = [state EXCEPT !.WebState = IF url THEN "search" ELSE "plain"]
        /\ toolbox' = toolbox \cup {"web_fetch", "web_search"}
        /\ UNCHANGED memory

RegisterWeb ==
    \E url \in BOOLEAN :
        /\ Registers("web")
        /\ state' = [state EXCEPT !.WebState = IF url THEN "search" ELSE "plain"]
        /\ toolbox' = toolbox \cup IF url THEN {"web_fetch", "web_search"} ELSE {"web_fetch"}
        /\ UNCHANGED memory

\* with_tool, with_state and with_memory_provider: an embedder's, once, which may
\* replace a plugin's.
Embed ==
    /\ ~built
    /\ ~embedded
    /\ embedded' = TRUE
    /\ \/ /\ \E tool \in {"web_search", "discord_send", "memory_get"} : toolbox' = toolbox \cup {tool}
          /\ UNCHANGED <<state, memory>>
       \/ /\ state' = [state EXCEPT !.WebState = "plain"]
          /\ UNCHANGED <<toolbox, memory>>
       \/ /\ memory' = TRUE
          /\ UNCHANGED <<toolbox, state>>
    /\ UNCHANGED <<plugins, built, call>>

\* Mutant of Build: the memory tools are always there.
BuildAlways ==
    /\ ~built
    /\ built' = TRUE
    /\ toolbox' = toolbox \cup MemoryTools
    /\ UNCHANGED <<plugins, embedded, state, memory, call>>

\* build(): the memory tools are there if a memory provider is.
Build ==
    /\ ~built
    /\ built' = TRUE
    /\ toolbox' = toolbox \cup IF memory THEN MemoryTools ELSE {}
    /\ UNCHANGED <<plugins, embedded, state, memory, call>>

-----------------------------------------------------------------------------
(* A call.                                                                 *)

\* What a tool needs besides its input.
Lacks(tool) ==
    CASE tool \in MemoryTools -> ~memory
      [] tool \in DiscordTools -> state.DiscordState = "none"
      [] OTHER -> state.WebState = "none"

\* The extractors in the order of the parameters, the input first.
Extracted(tool, args) ==
    LET input == ExtractInput(tool, args)
    IN  IF input = "input" /\ Lacks(tool) THEN "missing" ELSE input

Call(tool) ==
    /\ built
    /\ call = NoCall
    /\ IF tool \notin toolbox
       THEN call' = [at |-> "done", tool |-> tool, outcome |-> "unknown"]
       ELSE \E args \in Arguments(tool) :
               call' = [at |-> "extracted", tool |-> tool, args |-> args,
                        outcome |-> Extracted(tool, args)]
    /\ UNCHANGED <<plugins, embedded, state, memory, toolbox, built>>

Runs(tool) ==
    /\ call.at = "extracted"
    /\ call.outcome = "input"
    /\ call.tool = tool
    /\ UNCHANGED <<plugins, embedded, state, memory, toolbox, built>>

Done(outcome) == [at |-> "done", tool |-> call.tool, outcome |-> outcome]

Has(field, of) ==
    /\ field \in DOMAIN call.args.fields
    /\ call.args.fields[field].of = of

\* An id of zero makes serenity panic; any other word than a number is refused.
IsId(field) == Has(field, "digits") \/ Has(field, "zero")

\* The request that an accepted call makes is answered or fails.
Requested(ids) ==
    \E ok \in BOOLEAN :
        call' = Done(CASE \E f \in ids : Has(f, "zero") -> "panic"
                       [] ok -> "ok"
                       [] OTHER -> "error")

DiscordSend ==
    /\ Runs("discord_send")
    /\ LET replies == /\ "reply_to_message_id" \in DOMAIN call.args.fields
                      /\ ~Has("reply_to_message_id", "null")
           refused == \/ Has("message", "empty")
                      \/ ~IsId("channel_id")
                      \/ replies /\ ~IsId("reply_to_message_id")
       IN  \/ refused /\ call' = Done("error")
           \/ ~refused /\ Requested({"channel_id", "reply_to_message_id"})

DiscordReact ==
    /\ Runs("discord_react")
    /\ LET refused == \/ Has("emoji", "empty")
                      \/ ~IsId("channel_id")
                      \/ ~IsId("message_id")
       IN  \/ refused /\ call' = Done("error")
           \/ ~refused /\ Requested({"channel_id", "message_id"})

MemoryTool ==
    \E tool \in MemoryTools, outcome \in {"ok", "error"} :
        /\ Runs(tool)
        /\ call' = Done(outcome)

\* A number of the call, or its default.
Numbered(field, default) == IF field \in DOMAIN call.args.fields THEN Limits ELSE {default}

\* The URL does not parse, no response comes, or one that says failure, or the page
\* cannot be read.
FetchFails ==
    /\ Runs("web_fetch")
    /\ call' = Done("error")

Fetch ==
    /\ Runs("web_fetch")
    /\ ~Has("url", "empty")
    /\ \E page \in Pages, isHtml \in BOOLEAN, max_length \in Numbered("max_length", DefaultMaxLength),
          raw \in IF "format" \in DOMAIN call.args.fields THEN BOOLEAN ELSE {FALSE} :
            call' = [at |-> "done", tool |-> "web_fetch", outcome |-> "ok",
                     page |-> page, plain |-> ~raw /\ isHtml, max_length |-> max_length,
                     answer |-> Fetched(page, raw, isHtml, max_length)]

\* No SearxNG URL is configured, no response comes, or one that says failure.
SearchFails ==
    /\ Runs("web_search")
    /\ call' = Done(IF state.WebState = "plain" THEN "unconfigured" ELSE "error")

Search ==
    /\ Runs("web_search")
    /\ state.WebState = "search"
    /\ \E results \in Results, limit \in Numbered("limit", DefaultLimit) :
            call' = [at |-> "done", tool |-> "web_search", outcome |-> "ok",
                     results |-> results, limit |-> limit, answer |-> Found(results, limit)]

\* The result, or the extraction's error, goes into the context.  A panic ends the
\* agent's task, and there is no next call.
Return ==
    /\ \/ call.at = "done" /\ call.outcome # "panic"
       \/ call.at = "extracted" /\ call.outcome # "input"
    /\ call' = NoCall
    /\ UNCHANGED <<plugins, embedded, state, memory, toolbox, built>>

-----------------------------------------------------------------------------

Contribute ==
    \/ RegisterDiscord
    \/ RegisterMemini
    \/ RegisterWeb
    \/ Embed

Run ==
    \/ DiscordSend
    \/ DiscordReact
    \/ MemoryTool
    \/ FetchFails
    \/ Fetch
    \/ SearchFails
    \/ Search

Next ==
    \/ Contribute
    \/ Build
    \/ \E tool \in ToolNames : Call(tool)
    \/ Run
    \/ Return

Spec == Init /\ [][Next]_vars

-----------------------------------------------------------------------------

\* Every variable has its type; the memory tools are there when there is a memory
\* provider, and a call is extracted before it runs.
TypeOK ==
    /\ plugins \subseteq {"discord", "memini", "web"}
    /\ embedded \in BOOLEAN
    /\ state \in States
    /\ memory \in BOOLEAN
    /\ toolbox \subseteq ToolNames
    /\ built \in BOOLEAN
    /\ built => (memory <=> MemoryTools \subseteq toolbox)
    /\ call.at \in {"idle", "extracted", "done"}
    /\ call # NoCall => built /\ call.tool \in ToolNames
    /\ call.at = "extracted" => call.outcome \in {"invalid", "unreadable", "missing", "input"}
    /\ call.at = "done" => call.outcome \in {"unknown", "unconfigured", "error", "ok", "panic"}

\* However plugins register, and in whatever order, a tool that the model is
\* offered finds what it needs: its state, the memory provider, a search service.
\* Only an embedder can offer one that does not.
ToolsReady ==
    (call # NoCall /\ ~embedded) => call.outcome \notin {"missing", "unconfigured"}

\* The definition of a tool that the provider is sent and the check of a call
\* against its input type agree on every call, but for three things that the
\* definition does not say: that an optional field may be null, that a number
\* counts something, and which strings name a person or a conversation.
SchemaFaithful ==
    call.at = "extracted" =>
        LET fields == Inputs[call.tool]
            given(f) == call.args.fields[f]
            admitted == Admitted(call.tool, call.args)
            taken == call.outcome \in {"input", "missing"}
        IN  /\ admitted /\ ~taken => \E f \in Given(call.tool, call.args) :
                    \/ fields[f].base = "usize" /\ given(f) \in Numbers /\ given(f).of # "whole"
                    \/ fields[f].base = "About" /\ given(f) \in Strings /\ given(f).of # "global"
            /\ taken /\ ~admitted => \E f \in Given(call.tool, call.args) :
                    fields[f].option /\ given(f) = Null

\* The numbers of S in ascending order.
Ascending(S) ==
    [k \in 1 .. Cardinality(S) |-> CHOOSE n \in S : Cardinality({m \in S : m <= n}) = k]

\* What a readable page says: its lines that are not blank, trimmed, in order, with
\* one blank line between two of them if there were any.
Readable(page) ==
    LET solid == Ascending({i \in DOMAIN page : Solid(page[i]) # {}})
    IN  FlattenSeq([k \in DOMAIN solid |->
            IF k > 1 /\ solid[k] > solid[k - 1] + 1
            THEN <<<<>>, Trimmed(page[solid[k]])>>
            ELSE <<Trimmed(page[solid[k]])>>])

\* What web_fetch answers is the beginning of what the page says: all of it if it
\* has no more characters than were asked for, else that many and marked so.  What
\* web_search answers is the first results that have a URL, as many as were asked
\* for or all.
AnswersFaithful ==
    (call.at = "done" /\ call.outcome = "ok") =>
        /\ call.tool = "web_fetch" =>
              LET text == Joined(IF call.plain THEN Readable(call.page) ELSE call.page)
                  chars == call.answer.content.chars
              IN  IF call.max_length = 0 \/ Len(text) <= call.max_length
                  THEN chars = text
                  ELSE /\ chars = SubSeq(text, 1, call.max_length)
                       /\ call.answer.content.marked
        /\ call.tool = "web_search" =>
              LET usable == {i \in DOMAIN call.results : call.results[i] # ""}
                  shown == {i \in usable : Cardinality({j \in usable : j < i}) < call.limit}
                  order == Ascending(shown)
              IN  call.answer = [k \in DOMAIN order |-> call.results[order[k]]]

\* "Length of the returned content in characters." (the doc of WebFetchOutput's
\* length): the length that web_fetch answers counts the characters it answers.
LengthInCharacters ==
    (call.at = "done" /\ call.outcome = "ok" /\ call.tool = "web_fetch") =>
        call.answer.length =
            Len(call.answer.content.chars) + (IF call.answer.content.marked THEN MarkLength ELSE 0)

=============================================================================
