----------------------------- MODULE InputSchemas -----------------------------
(***************************************************************************)
(* What a model is told it may put in a tool call, and what the tool then  *)
(* takes.                                                                  *)
(*                                                                         *)
(* Both come from the tool's input type.  schemars derives a JSON schema   *)
(* from it; the call is checked against that schema and then deserialised  *)
(* by serde, while the provider is sent livvi-openai's own reduction of    *)
(* the schema: references resolved, nullable unions flattened, the first   *)
(* of several types, no minimum.  schemars, jsonschema and serde are       *)
(* external, and here as far as the types of the in-tree tools need them.  *)
(***************************************************************************)
EXTENDS Naturals, Sequences, FiniteSets

-----------------------------------------------------------------------------
(* JSON values, as far as schemas and types tell them apart.               *)

Value(json, of) == [json |-> json, of |-> of]

Null == Value("null", "null")
Numbers == {Value("number", n) : n \in {"whole", "wholeFloat", "fraction", "negative"}}
Strings == {Value("string", s) :
                s \in {"empty", "word", "zero", "digits", "semantic", "explicit", "full", "global"}}
Scalars == {Null, Value("boolean", "true"), Value("object", "object")} \cup Numbers \cup Strings

\* An array is empty or has one element.
Arrays == {Value("array", e) : e \in {"nothing", "whole", "word", "semantic", "explicit"}}
Elements(v) == {s \in Scalars : v.json = "array" /\ s.of = v.of}

Values == Scalars \cup Arrays

-----------------------------------------------------------------------------
(* The input types of the tools: base, Vec<base>, and Option of either.    *)

Type(base) == [base |-> base, vec |-> FALSE, option |-> FALSE, default |-> FALSE]
VecOf(base) == [Type(base) EXCEPT !.vec = TRUE]
Option(type) == [type EXCEPT !.option = TRUE]
Defaulted(type) == [type EXCEPT !.default = TRUE]

Memory_recall ==
    [query |-> Type("String"),
     tiers |-> Option(VecOf("Tier")),
     levels |-> Option(VecOf("Level")),
     tags |-> Option(VecOf("String")),
     limit |-> Option(Type("usize")),
     scope |-> Option(Type("Scope")),
     about |-> Option(Type("About"))]

Memory_remember ==
    [content |-> Type("String"),
     tier |-> Defaulted(Type("Tier")),
     summary |-> Option(Type("String")),
     tags |-> Defaulted(VecOf("String")),
     metadata |-> Defaulted(Type("Map")),
     importance |-> Option(Type("f64")),
     level |-> Option(Type("Level")),
     visibility |-> Option(Type("String")),
     about |-> Option(Type("About"))]

Memory_briefing == [per_section |-> Option(Type("usize")), scope |-> Option(Type("Scope"))]

Memory_get == [id |-> Type("String"), about |-> Option(Type("About"))]

Memory_list == [f \in DOMAIN Memory_recall \ {"query", "scope"} |-> Memory_recall[f]]

Memory_update ==
    [f \in DOMAIN Memory_remember \cup {"id"} |->
        IF f = "id" THEN Type("String") ELSE Memory_remember[f]]

Web_fetch ==
    [url |-> Type("String"), max_length |-> Defaulted(Type("usize")), format |-> Defaulted(Type("String"))]

Web_search == [query |-> Type("String"), limit |-> Defaulted(Type("usize"))]

Discord_send ==
    [message |-> Type("String"), channel_id |-> Type("String"),
     reply_to_message_id |-> Option(Type("String"))]

Discord_react == [f \in {"message_id", "channel_id", "emoji"} |-> Type("String")]

\* The tools by name, each with the fields of its input.
Inputs ==
    [memory_recall |-> Memory_recall,
     memory_remember |-> Memory_remember,
     memory_briefing |-> Memory_briefing,
     memory_get |-> Memory_get,
     memory_list |-> Memory_list,
     memory_update |-> Memory_update,
     memory_forget |-> Memory_get,
     web_fetch |-> Web_fetch,
     web_search |-> Web_search,
     discord_send |-> Discord_send,
     discord_react |-> Discord_react]

ToolNames == DOMAIN Inputs

Variants ==
    [Tier |-> {"working", "episodic", "semantic", "procedural"},
     Level |-> {"explicit", "deduced"},
     Scope |-> {"project", "full", "everywhere"}]

-----------------------------------------------------------------------------
(* The schema schemars derives: type is a sequence, empty for no keyword,  *)
(* and so are items and anyOf; ref names an entry of $defs.                *)

Keys == [type |-> <<>>, enum |-> {}, minimum |-> FALSE, items |-> <<>>, ref |-> "", anyOf |-> <<>>]
OfType(json) == [Keys EXCEPT !.type = <<json>>]
RefTo(def) == [Keys EXCEPT !.ref = def]

Definition(def) ==
    IF def = "About" THEN OfType("string") ELSE [OfType("string") EXCEPT !.enum = Variants[def]]

BaseSchema(base) ==
    CASE base = "String" -> OfType("string")
      [] base = "usize" -> [OfType("integer") EXCEPT !.minimum = TRUE]
      [] base = "f64" -> OfType("number")
      [] base = "Map" -> OfType("object")
      [] OTHER -> RefTo(base)

\* An optional reference becomes a union, any other optional type a list of types.
SchemaOf(type) ==
    LET inner == IF type.vec THEN [OfType("array") EXCEPT !.items = <<BaseSchema(type.base)>>]
                             ELSE BaseSchema(type.base)
    IN  IF ~type.option THEN inner
        ELSE IF inner.ref = "" THEN [inner EXCEPT !.type = Append(@, "null")]
        ELSE [Keys EXCEPT !.anyOf = <<inner, OfType("null")>>]

\* The fields that must be there.
RequiredOf(tool) == {f \in DOMAIN Inputs[tool] : ~Inputs[tool][f].option /\ ~Inputs[tool][f].default}

-----------------------------------------------------------------------------
(* The definition that is sent, made from the schema.                      *)

resolve_ref(schema) == IF schema.ref = "" THEN schema ELSE Definition(schema.ref)

is_null_schema(schema) ==
    /\ schema.type # <<>>
    /\ \A i \in DOMAIN schema.type : schema.type[i] = "null"

\* A union with null of exactly one other is that other; the description and the
\* default it may be given constrain nothing.
flatten_nullable(schema) ==
    LET alternatives == [i \in DOMAIN schema.anyOf |-> resolve_ref(schema.anyOf[i])]
        nonNull == {i \in DOMAIN alternatives : ~is_null_schema(alternatives[i])}
    IN  IF Cardinality(nonNull) = 1 /\ Len(alternatives) > 1
        THEN alternatives[CHOOSE i \in nonNull : TRUE]
        ELSE schema

\* Mutant of normalize_schema: references within a union only.
NormalizeUnions(schema) == flatten_nullable(schema)

normalize_schema(schema) == flatten_nullable(resolve_ref(schema))

json_schema_type_from_value(type) ==
    CASE type = <<>> -> "none"
      [] type # <<>> /\ type[1] = "integer" -> "number"
      [] OTHER -> type[1]

Define(schema, items) ==
    [type |-> json_schema_type_from_value(schema.type), enum |-> schema.enum, items |-> items]

\* Nesting in the input types ends with the items of an array.
json_schema_define_from_value(schema) ==
    LET own == normalize_schema(schema)
    IN  Define(own, [i \in DOMAIN own.items |-> Define(normalize_schema(own.items[i]), <<>>)])

function_parameters_from_value(tool) ==
    [type |-> "object",
     properties |-> [f \in DOMAIN Inputs[tool] |-> json_schema_define_from_value(SchemaOf(Inputs[tool][f]))],
     required |-> RequiredOf(tool)]

-----------------------------------------------------------------------------
(* Arguments: an object with some fields, or some other JSON value.        *)

HasType(v, type) ==
    \/ v.json = type
    \/ type = "integer" /\ v.json = "number" /\ v.of # "fraction"

ValidAlone(schema, v) ==
    /\ schema.type = <<>> \/ \E i \in DOMAIN schema.type : HasType(v, schema.type[i])
    /\ schema.enum = {} \/ v.of \in schema.enum
    /\ ~(schema.minimum /\ v.of = "negative")

Target(schema) == IF schema.ref = "" THEN schema ELSE Definition(schema.ref)

Valid(schema, v) ==
    /\ \/ schema.anyOf = <<>> /\ ValidAlone(Target(schema), v)
       \/ \E i \in DOMAIN schema.anyOf : ValidAlone(Target(schema.anyOf[i]), v)
    /\ \A i \in DOMAIN schema.items : \A e \in Elements(v) : ValidAlone(Target(schema.items[i]), e)

\* serde, and for About the deserialiser of the source.
ReadBase(base, v) ==
    CASE base = "String" -> v.json = "string"
      [] base = "usize" -> v.of = "whole" /\ v.json = "number"
      [] base = "f64" -> v.json = "number"
      [] base = "Map" -> v.json = "object"
      [] base = "About" -> v.json = "string" /\ v.of = "global"
      [] OTHER -> v.json = "string" /\ v.of \in Variants[base]

Read(type, v) ==
    \/ type.option /\ v = Null
    \/ ~type.vec /\ ReadBase(type.base, v)
    \/ type.vec /\ v.json = "array" /\ \A e \in Elements(v) : ReadBase(type.base, e)

Given(tool, args) == DOMAIN args.fields \cap DOMAIN Inputs[tool]

\* Input::from_tool_context: first the schema, then the type.  Fields that the
\* type does not have are allowed and ignored.
ExtractInput(tool, args) ==
    LET fields == Inputs[tool] IN
    CASE \/ ~args.object
         \/ ~(RequiredOf(tool) \subseteq DOMAIN args.fields)
         \/ \E f \in Given(tool, args) : ~Valid(SchemaOf(fields[f]), args.fields[f]) -> "invalid"
      [] \E f \in Given(tool, args) : ~Read(fields[f], args.fields[f]) -> "unreadable"
      [] OTHER -> "input"

\* What a server that keeps to the definition lets the model say.
AdmitsAlone(definition, v) ==
    /\ definition.type \in {"none", v.json}
    /\ definition.enum = {} \/ v.of \in definition.enum

Admits(definition, v) ==
    /\ AdmitsAlone(definition, v)
    /\ \A i \in DOMAIN definition.items : \A e \in Elements(v) : AdmitsAlone(definition.items[i], e)

Admitted(tool, args) ==
    LET parameters == function_parameters_from_value(tool) IN
    /\ args.object
    /\ parameters.required \subseteq DOMAIN args.fields
    /\ \A f \in Given(tool, args) : Admits(parameters.properties[f], args.fields[f])

=============================================================================
