----------------------------- MODULE ToolsProofs -----------------------------
(***************************************************************************)
(* Proofs about Tools, for any pages, results and limits, and plugins      *)
(* registered in any order.                                                *)
(*                                                                         *)
(* Three parts need no state: what the provider is told of an input type   *)
(* and what the type takes; the text of a page, which the code makes line  *)
(* by line and a reader's account of it names as a whole; and the results  *)
(* of a search.  The last two say, of every prefix, what has been made of  *)
(* it, and go from one prefix to the next (Recursion's Induction).         *)
(*                                                                         *)
(* The invariant keeps with a call what it was made from.  What a tool     *)
(* needs is contributed with it or not at all, but by an embedder; and     *)
(* nothing is contributed once the agent is built, so that what a call was *)
(* extracted from is what it runs with.                                    *)
(***************************************************************************)
EXTENDS Tools, Recursion

-----------------------------------------------------------------------------
(* What an input type takes, and what the provider is told of it.          *)

\* The types that a schema refers to by name, those that an argument may have, and
\* those that a list is made of.
Named == {"Tier", "Level", "Scope", "About"}
BaseTypes == {"String", "usize", "f64", "Map"} \cup Named
Listed == {"String", "Tier", "Level"}
FieldTypes ==
    {type \in [base : BaseTypes, vec : BOOLEAN, option : BOOLEAN, default : BOOLEAN] :
        type.vec => type.base \in Listed}

\* What JSON calls a value of a type, and the variants that it may name.
JsonOf(base) ==
    CASE base \in {"usize", "f64"} -> "number"
      [] base = "Map" -> "object"
      [] OTHER -> "string"

EnumOf(base) == IF base \in {"Tier", "Level", "Scope"} THEN Variants[base] ELSE {}

\* The fields of every tool have types that FieldTypes describes.
LEMMA TypesTyped ==
    /\ \A base \in BaseTypes : Type(base) \in FieldTypes
    /\ \A base \in Listed : VecOf(base) \in FieldTypes
    /\ \A type \in FieldTypes : Option(type) \in FieldTypes /\ Defaulted(type) \in FieldTypes
<1>1. \A base \in BaseTypes : Type(base) \in FieldTypes
  BY DEF FieldTypes, Type
<1>2. ASSUME NEW base \in Listed PROVE VecOf(base) \in FieldTypes
  <2>1. base \in BaseTypes
    BY DEF Listed, BaseTypes, Named
  <2>2. Type(base) \in FieldTypes /\ Type(base).base = base
    BY <1>1, <2>1 DEF Type
  <2> QED
    BY <2>1, <2>2 DEF FieldTypes, VecOf
<1>3. \A type \in FieldTypes : Option(type) \in FieldTypes /\ Defaulted(type) \in FieldTypes
  BY DEF FieldTypes, Option, Defaulted
<1> QED
  BY <1>1, <1>2, <1>3

LEMMA FieldsTyped ==
    ASSUME NEW tool \in ToolNames, NEW f \in DOMAIN Inputs[tool]
    PROVE  Inputs[tool][f] \in FieldTypes
<1> USE TypesTyped DEF BaseTypes, Named, Listed
<1>1. \A g \in DOMAIN Memory_recall : Memory_recall[g] \in FieldTypes
  BY DEF Memory_recall
<1>2. \A g \in DOMAIN Memory_remember : Memory_remember[g] \in FieldTypes
  BY DEF Memory_remember
<1>3. \A g \in DOMAIN Memory_briefing : Memory_briefing[g] \in FieldTypes
  BY DEF Memory_briefing
<1>4. \A g \in DOMAIN Memory_get : Memory_get[g] \in FieldTypes
  BY DEF Memory_get
<1>5. \A g \in DOMAIN Memory_list : Memory_list[g] \in FieldTypes
    BY ONLY <1>1 DEF Memory_list
<1>6. \A g \in DOMAIN Memory_update : Memory_update[g] \in FieldTypes
    BY <1>2 DEF Memory_update
<1>7. \A g \in DOMAIN Web_fetch : Web_fetch[g] \in FieldTypes
  BY DEF Web_fetch
<1>8. \A g \in DOMAIN Web_search : Web_search[g] \in FieldTypes
  BY DEF Web_search
<1>9. \A g \in DOMAIN Discord_send : Discord_send[g] \in FieldTypes
  BY DEF Discord_send
<1>10. \A g \in DOMAIN Discord_react : Discord_react[g] \in FieldTypes
  BY DEF Discord_react
<1> QED
  BY ONLY <1>1, <1>2, <1>3, <1>4, <1>5, <1>6, <1>7, <1>8, <1>9, <1>10,
          tool \in ToolNames, f \in DOMAIN Inputs[tool]
     DEF ToolNames, Inputs

\* The keys that a schema has: a type, and the given ones.
Keeps(schema, type, enum, items) ==
    /\ DOMAIN schema = {"type", "enum", "minimum", "items", "ref", "anyOf"}
    /\ schema.type = type
    /\ schema.enum = enum
    /\ schema.items = items
    /\ schema.ref = ""
    /\ schema.anyOf = <<>>

\* What the schema of a type says of it.
PlainType(base) == IF base = "usize" THEN "integer" ELSE JsonOf(base)

\* The schema of a type, and what it refers to.
LEMMA BasesAre ==
    ASSUME NEW base \in BaseTypes
    PROVE  /\ base \in Named =>
                 /\ BaseSchema(base) = RefTo(base)
                 /\ RefTo(base).ref = base
                 /\ RefTo(base).anyOf = <<>>
                 /\ RefTo(base).items = <<>>
           /\ base \in Named =>
                 /\ Keeps(Definition(base), <<"string">>, EnumOf(base), <<>>)
                 /\ ~Definition(base).minimum
           /\ base \notin Named =>
                 /\ Keeps(BaseSchema(base), <<PlainType(base)>>, {}, <<>>)
                 /\ BaseSchema(base).minimum <=> base = "usize"
<1> USE DEF BaseTypes, Named
<1>1. ASSUME NEW json PROVE Keeps(OfType(json), <<json>>, {}, <<>>) /\ ~OfType(json).minimum
  BY DEF OfType, Keys, Keeps
<1>2. CASE base = "String"
  BY <1>1, <1>2 DEF BaseSchema, PlainType, JsonOf, Keeps
<1>3. CASE base = "f64"
  BY <1>1, <1>3 DEF BaseSchema, PlainType, JsonOf, Keeps
<1>4. CASE base = "Map"
  BY <1>1, <1>4 DEF BaseSchema, PlainType, JsonOf, Keeps
<1>5. CASE base = "usize"
  <2>1. BaseSchema(base) = [OfType("integer") EXCEPT !.minimum = TRUE]
    BY <1>5 DEF BaseSchema
  <2>2. Keeps([OfType("integer") EXCEPT !.minimum = TRUE], <<"integer">>, {}, <<>>)
         /\ [OfType("integer") EXCEPT !.minimum = TRUE].minimum
    BY <1>1 DEF OfType, Keys, Keeps
  <2> QED
    BY <1>5, <2>1, <2>2 DEF PlainType
<1>6. CASE base \in Named
  <2>1. BaseSchema(base) = RefTo(base)
    BY <1>6 DEF BaseSchema
  <2>2. RefTo(base).ref = base /\ RefTo(base).anyOf = <<>> /\ RefTo(base).items = <<>>
    BY DEF RefTo, Keys
  <2>3. Keeps(Definition(base), <<"string">>, EnumOf(base), <<>>) /\ ~Definition(base).minimum
    <3>1. CASE base = "About"
      BY <1>1, <3>1 DEF Definition, EnumOf, Keeps
    <3>2. CASE base # "About"
      <4>1. Definition(base) = [OfType("string") EXCEPT !.enum = Variants[base]]
        BY <3>2 DEF Definition
      <4>2. EnumOf(base) = Variants[base]
        BY <1>6, <3>2 DEF EnumOf
      <4>3. LET schema == [OfType("string") EXCEPT !.enum = Variants[base]]
            IN  Keeps(schema, <<"string">>, Variants[base], <<>>) /\ ~schema.minimum
        BY <1>1 DEF OfType, Keys, Keeps
      <4> QED
        BY <4>1, <4>2, <4>3
    <3> QED
      BY <3>1, <3>2
  <2> QED
    BY <1>6, <2>1, <2>2, <2>3
<1> QED
  BY <1>2, <1>3, <1>4, <1>5, <1>6

\* The schema of a field: a list, a type of its own, or one that is referred to.
LEMMA SchemasAre ==
    ASSUME NEW type \in FieldTypes
    PROVE  LET schema == SchemaOf(type)
               nullable(json) == IF type.option THEN Append(<<json>>, "null") ELSE <<json>>
           IN  /\ type.vec =>
                     /\ Keeps(schema, nullable("array"), {}, <<BaseSchema(type.base)>>)
                     /\ ~schema.minimum
               /\ ~type.vec /\ type.base \notin Named =>
                     /\ Keeps(schema, nullable(PlainType(type.base)), {}, <<>>)
                     /\ schema.minimum <=> type.base = "usize"
               /\ ~type.vec /\ type.base \in Named /\ ~type.option => schema = RefTo(type.base)
               /\ ~type.vec /\ type.base \in Named /\ type.option =>
                     /\ schema.anyOf = <<RefTo(type.base), OfType("null")>>
                     /\ schema.items = <<>>
                     /\ schema.ref = ""
<1> DEFINE base == type.base
           inner == IF type.vec THEN [OfType("array") EXCEPT !.items = <<BaseSchema(base)>>]
                                ELSE BaseSchema(base)
<1>1. base \in BaseTypes /\ type.vec \in BOOLEAN /\ type.option \in BOOLEAN
  BY DEF FieldTypes
<1>2. SchemaOf(type) = IF ~type.option THEN inner
        ELSE IF inner.ref = "" THEN [inner EXCEPT !.type = Append(@, "null")]
        ELSE [Keys EXCEPT !.anyOf = <<inner, OfType("null")>>]
  BY DEF SchemaOf
<1>3. ASSUME NEW s, NEW t, NEW items, Keeps(s, <<t>>, {}, items)
      PROVE  LET n == [s EXCEPT !.type = Append(@, "null")]
             IN  Keeps(n, Append(<<t>>, "null"), {}, items) /\ n.minimum = s.minimum
  BY <1>3 DEF Keeps
<1>4. CASE type.vec
  <2>1. inner = [OfType("array") EXCEPT !.items = <<BaseSchema(base)>>]
    BY <1>4
  <2>2. LET array == [OfType("array") EXCEPT !.items = <<BaseSchema(base)>>]
        IN  Keeps(array, <<"array">>, {}, <<BaseSchema(base)>>) /\ ~array.minimum
    BY DEF OfType, Keys, Keeps
  <2>3. inner.ref = ""
    BY <2>1, <2>2 DEF Keeps
  <2> HIDE DEF inner
  <2>4. Keeps(inner, <<"array">>, {}, <<BaseSchema(base)>>) /\ ~inner.minimum
    BY <2>1, <2>2
  <2>5. LET orNull == [inner EXCEPT !.type = Append(@, "null")]
        IN  /\ Keeps(orNull, Append(<<"array">>, "null"), {}, <<BaseSchema(base)>>)
            /\ ~orNull.minimum
    BY <1>3, <2>4
  <2>6. SchemaOf(type) = IF ~type.option THEN inner ELSE [inner EXCEPT !.type = Append(@, "null")]
    BY <1>2, <2>3
  <2> QED
    BY <1>4, <2>4, <2>5, <2>6
<1>5. CASE ~type.vec /\ base \notin Named
  <2>1. inner = BaseSchema(base)
    BY <1>5
  <2>2. /\ Keeps(BaseSchema(base), <<PlainType(base)>>, {}, <<>>)
        /\ BaseSchema(base).minimum <=> base = "usize"
    BY <1>1, <1>5, BasesAre DEF PlainType
  <2>3. inner.ref = ""
    BY <2>1, <2>2 DEF Keeps
  <2> HIDE DEF inner
  <2>5. (Keeps(inner, <<PlainType(base)>>, {}, <<>>) /\ (inner.minimum <=> base = "usize"))
    BY <2>1, <2>2
  <2>6. LET orNull == [inner EXCEPT !.type = Append(@, "null")]
        IN  /\ Keeps(orNull, Append(<<PlainType(base)>>, "null"), {}, <<>>)
            /\ orNull.minimum <=> base = "usize"
    BY <1>3, <2>5
  <2>7. SchemaOf(type) = IF ~type.option THEN inner ELSE [inner EXCEPT !.type = Append(@, "null")]
    BY <1>2, <2>3
  <2> QED
    BY <1>5, <2>5, <2>6, <2>7
<1>6. CASE ~type.vec /\ base \in Named
  <2>1. inner = RefTo(base) /\ inner.ref # ""
    BY <1>1, <1>6, BasesAre DEF Named
  <2>2. LET union == [Keys EXCEPT !.anyOf = <<RefTo(base), OfType("null")>>]
        IN  union.anyOf = <<RefTo(base), OfType("null")>> /\ union.items = <<>> /\ union.ref = ""
    BY DEF Keys
  <2> HIDE DEF inner
  <2> QED
    BY <1>1, <1>2, <1>6, <2>1, <2>2
<1> QED
  BY <1>4, <1>5, <1>6

\* The schema of null, which flatten_nullable takes for that.
LEMMA NullSays ==
    /\ OfType("null").type = <<"null">>
    /\ OfType("null").ref = ""
  BY DEF OfType, Keys

LEMMA NullIsNull ==
    is_null_schema(resolve_ref(OfType("null")))
<1>1. resolve_ref(OfType("null")).type = <<"null">>
  BY NullSays DEF resolve_ref
<1>2. DOMAIN <<"null">> = {1} /\ <<"null">>[1] = "null" /\ <<"null">> # <<>>
  OBVIOUS
<1> QED
  BY ONLY <1>1, <1>2 DEF is_null_schema

\* A union with null is what it is a union of (flatten_nullable).
LEMMA FlattenedUnion ==
    ASSUME NEW schema, NEW inner,
           schema.anyOf = <<inner, OfType("null")>>,
           ~is_null_schema(resolve_ref(inner))
    PROVE  flatten_nullable(schema) = resolve_ref(inner)
<1> DEFINE alternatives == [i \in DOMAIN schema.anyOf |-> resolve_ref(schema.anyOf[i])]
           nonNull == {i \in DOMAIN alternatives : ~is_null_schema(alternatives[i])}
           first == CHOOSE i \in nonNull : TRUE
<1>1. alternatives = <<resolve_ref(inner), resolve_ref(OfType("null"))>>
  OBVIOUS
<1>3. Len(alternatives) = 2 /\ DOMAIN alternatives = {1, 2}
  BY <1>1
<1>4. nonNull = {1}
  <2> HIDE DEF alternatives
  <2> QED
   BY <1>1, NullIsNull, <1>3
<1>5. Cardinality(nonNull) = 1
  BY <1>4, FS_Singleton
<1>6. first = 1
  BY <1>4
<1>7. alternatives[1] = resolve_ref(inner)
  BY <1>1
<1>8. flatten_nullable(schema) = IF Cardinality(nonNull) = 1 /\ Len(alternatives) > 1
        THEN alternatives[first]
        ELSE schema
  BY DEF flatten_nullable
<1> HIDE DEF alternatives, nonNull, first
<1> QED
  BY ONLY <1>3, <1>5, <1>6, <1>7, <1>8

\* A type that may be null is a list of two.
LEMMA Nullable ==
    ASSUME NEW t
    PROVE  LET list == Append(<<t>>, "null")
           IN  list # <<>> /\ DOMAIN list = {1, 2} /\ list[1] = t /\ list[2] = "null"
<1> DEFINE S == {t, "null"}
<1>1. <<t>> \in Seq(S) /\ Len(<<t>>) = 1 /\ <<t>>[1] = t
  OBVIOUS
<1>2. "null" \in S
  OBVIOUS
<1> HIDE DEF S
<1> QED
  BY <1>1, <1>2, AppendProperties, LenProperties, EmptySeq

\* A value that the schema of a type allows, and one that its definition admits.
ValidBase(base, v) ==
    /\ HasType(v, PlainType(base))
    /\ EnumOf(base) = {} \/ v.of \in EnumOf(base)
    /\ ~(base = "usize" /\ v.of = "negative")

AdmitsBase(base, v) ==
    /\ v.json = JsonOf(base)
    /\ EnumOf(base) = {} \/ v.of \in EnumOf(base)

\* Sequences of none, one and two.
LEMMA Tuples ==
    /\ DOMAIN <<>> = {}
    /\ \A x : <<x>> # <<>> /\ DOMAIN <<x>> = {1} /\ <<x>>[1] = x
    /\ \A x, y : <<x, y>> # <<>> /\ DOMAIN <<x, y>> = {1, 2} /\ <<x, y>>[1] = x /\ <<x, y>>[2] = y
<1>1. DOMAIN <<>> = {}
  OBVIOUS
<1>2. \A x : <<x>> # <<>> /\ DOMAIN <<x>> = {1} /\ <<x>>[1] = x
  OBVIOUS
<1>3. \A x, y : <<x, y>> # <<>> /\ DOMAIN <<x, y>> = {1, 2} /\ <<x, y>>[1] = x /\ <<x, y>>[2] = y
  OBVIOUS
<1> QED
  BY <1>1, <1>2, <1>3

\* What a schema that has a type allows.
LEMMA KeptAlone ==
    ASSUME NEW schema, NEW json, NEW enum, NEW items,
           Keeps(schema, <<json>>, enum, items), NEW v
    PROVE  ValidAlone(schema, v) <=>
              /\ HasType(v, json)
              /\ enum = {} \/ v.of \in enum
              /\ ~(schema.minimum /\ v.of = "negative")
<1>1. schema.type = <<json>> /\ schema.enum = enum
  BY DEF Keeps
<1>2. <<json>> # <<>> /\ DOMAIN <<json>> = {1} /\ <<json>>[1] = json
  OBVIOUS
<1> QED
  BY ONLY <1>1, <1>2 DEF ValidAlone

LEMMA KeptNullable ==
    ASSUME NEW schema, NEW json, NEW items,
           Keeps(schema, Append(<<json>>, "null"), {}, items), NEW v
    PROVE  ValidAlone(schema, v) <=>
              /\ HasType(v, json) \/ HasType(v, "null")
              /\ ~(schema.minimum /\ v.of = "negative")
<1>1. schema.type = Append(<<json>>, "null") /\ schema.enum = {}
  BY DEF Keeps
<1> QED
  BY <1>1, Nullable DEF ValidAlone

\* What the schema of a type allows.
LEMMA BaseAlone ==
    ASSUME NEW base \in BaseTypes, NEW v
    PROVE  ValidAlone(Target(BaseSchema(base)), v) <=> ValidBase(base, v)
<1>1. CASE base \in Named
  <2>1. Target(BaseSchema(base)) = Definition(base)
    BY <1>1, BasesAre DEF Target, Named
  <2>2. /\ Keeps(Definition(base), <<PlainType(base)>>, EnumOf(base), <<>>)
        /\ ~Definition(base).minimum
    BY <1>1, BasesAre DEF PlainType, JsonOf, Named
  <2>3. base # "usize"
    BY <1>1 DEF Named
  <2> QED
    BY <2>1, <2>2, <2>3, KeptAlone DEF ValidBase
<1>2. CASE base \notin Named
  <2>1. /\ Keeps(BaseSchema(base), <<PlainType(base)>>, {}, <<>>)
        /\ BaseSchema(base).minimum <=> base = "usize"
    BY <1>2, BasesAre
  <2>2. Target(BaseSchema(base)) = BaseSchema(base)
    BY <2>1 DEF Target, Keeps
  <2>3. EnumOf(base) = {}
    BY <1>2 DEF Named, EnumOf
  <2> QED
    BY <2>1, <2>2, <2>3, KeptAlone DEF ValidBase
<1> QED
  BY <1>1, <1>2

\* The kinds of values.
LEMMA ValuesAre ==
    ASSUME NEW v \in Values
    PROVE  /\ v = Null <=> v.json = "null"
           /\ v.json = "null" => v.of = "null"
           /\ v \in Numbers <=> v.json = "number"
           /\ v \in Strings <=> v.json = "string"
           /\ v.json # "array" => Elements(v) = {}
  BY DEF Values, Numbers, Strings, Scalars, Arrays, Value, Null, Elements

\* What the schema of a field allows.
LEMMA ValidIs ==
    ASSUME NEW type \in FieldTypes, NEW v \in Values
    PROVE  Valid(SchemaOf(type), v) <=>
              \/ type.option /\ v = Null
              \/ type.vec /\ v.json = "array" /\ \A e \in Elements(v) : ValidBase(type.base, e)
              \/ ~type.vec /\ ValidBase(type.base, v)
<1> DEFINE base == type.base
<1>0. PICK S : S = SchemaOf(type)
  OBVIOUS
<1>1. base \in BaseTypes /\ type.vec \in BOOLEAN /\ type.option \in BOOLEAN
  BY DEF FieldTypes
<1>2. HasType(v, "null") <=> v = Null
  BY ValuesAre DEF HasType
<1>3. HasType(v, "array") <=> v.json = "array"
  BY DEF HasType
<1>4. ASSUME S.ref = "", S.anyOf = <<>>
      PROVE  Valid(S, v) <=>
                /\ ValidAlone(S, v)
                /\ \A i \in DOMAIN S.items :
                      \A e \in Elements(v) : ValidAlone(Target(S.items[i]), e)
  <2>1. DOMAIN S.anyOf = {}
    BY <1>4, Tuples
  <2> QED
    BY <1>4, <2>1 DEF Valid, Target
<1>5. CASE type.vec
  <2>1. /\ S.ref = "" /\ S.anyOf = <<>> /\ S.items = <<BaseSchema(base)>>
        /\ ValidAlone(S, v) <=> v.json = "array" \/ (type.option /\ v = Null)
    <3>1. CASE type.option
      <4>1. Keeps(S, Append(<<"array">>, "null"), {}, <<BaseSchema(base)>>) /\ ~S.minimum
        BY <1>0, <1>5, <3>1, SchemasAre
      <4>2. ValidAlone(S, v) <=> HasType(v, "array") \/ HasType(v, "null")
        BY <4>1, KeptNullable
      <4> QED
        BY <1>2, <1>3, <3>1, <4>1, <4>2 DEF Keeps
    <3>2. CASE ~type.option
      <4>1. Keeps(S, <<"array">>, {}, <<BaseSchema(base)>>) /\ ~S.minimum
        BY <1>0, <1>5, <3>2, SchemasAre
      <4>2. ValidAlone(S, v) <=> HasType(v, "array")
        BY <4>1, KeptAlone
      <4> QED
        BY <1>2, <1>3, <3>2, <4>1, <4>2 DEF Keeps
    <3> QED
      BY <3>1, <3>2
  <2>2. DOMAIN S.items = {1} /\ S.items[1] = BaseSchema(base)
    BY <2>1, Tuples
  <2>3. v = Null => Elements(v) = {}
    BY ValuesAre
  <2> QED
    BY <1>1, <1>4, <1>5, <1>0, <2>1, <2>2, <2>3, BaseAlone
<1>6. CASE ~type.vec /\ base \notin Named
  <2>1. /\ S.ref = "" /\ S.anyOf = <<>> /\ S.items = <<>>
        /\ ValidAlone(S, v) <=> ValidBase(base, v) \/ (type.option /\ v = Null)
    <3>1. EnumOf(base) = {}
      BY <1>1, <1>6 DEF Named, EnumOf
    <3>2. CASE type.option
      <4>1. /\ Keeps(S, Append(<<PlainType(base)>>, "null"), {}, <<>>)
            /\ S.minimum <=> base = "usize"
        BY <1>0, <1>6, <3>2, SchemasAre
      <4>2. v = Null => v.of # "negative"
        BY ValuesAre
      <4>3. ValidAlone(S, v) <=> /\ HasType(v, PlainType(base)) \/ HasType(v, "null")
                                 /\ ~(S.minimum /\ v.of = "negative")
        BY <4>1, KeptNullable
      <4> QED
        BY <1>2, <3>1, <3>2, <4>1, <4>2, <4>3 DEF Keeps, ValidBase
    <3>3. CASE ~type.option
      <4>1. /\ Keeps(S, <<PlainType(base)>>, {}, <<>>)
            /\ S.minimum <=> base = "usize"
        BY <1>0, <1>6, <3>3, SchemasAre
      <4>2. ValidAlone(S, v) <=> /\ HasType(v, PlainType(base))
                                 /\ ~(S.minimum /\ v.of = "negative")
        BY <4>1, KeptAlone
      <4> QED
        BY <3>1, <3>3, <4>1, <4>2 DEF Keeps, ValidBase
    <3> QED
      BY <3>2, <3>3
  <2>2. DOMAIN S.items = {}
    BY <2>1, Tuples
  <2> QED
    BY <1>4, <1>6, <1>0, <2>1, <2>2
<1>7. CASE ~type.vec /\ base \in Named /\ ~type.option
  <2>1. S = BaseSchema(base) /\ S.anyOf = <<>> /\ S.items = <<>>
    BY <1>0, <1>1, <1>7, SchemasAre, BasesAre
  <2>2. DOMAIN S.anyOf = {} /\ DOMAIN S.items = {}
    BY <2>1, Tuples
  <2> QED
    BY <1>1, <1>7, <1>0, <2>1, <2>2, BaseAlone DEF Valid
<1>8. CASE ~type.vec /\ base \in Named /\ type.option
  <2>1. S.anyOf = <<BaseSchema(base), OfType("null")>> /\ S.items = <<>>
    BY <1>0, <1>1, <1>8, SchemasAre, BasesAre
  <2>2. /\ S.anyOf # <<>> /\ DOMAIN S.anyOf = {1, 2} /\ DOMAIN S.items = {}
        /\ S.anyOf[1] = BaseSchema(base) /\ S.anyOf[2] = OfType("null")
    BY <2>1, Tuples
  <2>3. ValidAlone(Target(OfType("null")), v) <=> v = Null
    <3>1. Keeps(OfType("null"), <<"null">>, {}, <<>>) /\ ~OfType("null").minimum
      BY DEF Keeps, OfType, Keys
    <3>2. Target(OfType("null")) = OfType("null")
      BY <3>1 DEF Target, Keeps
    <3> QED
      BY <1>2, <3>1, <3>2, KeptAlone
  <2> QED
    BY <1>1, <1>8, <1>0, <2>2, <2>3, BaseAlone DEF Valid
<1> QED
  BY <1>5, <1>6, <1>7, <1>8

\* A schema without a union is left as it is (flatten_nullable).
LEMMA Unflattened ==
    ASSUME NEW schema, schema.anyOf = <<>>
    PROVE  flatten_nullable(schema) = schema
<1> DEFINE alternatives == [i \in DOMAIN schema.anyOf |-> resolve_ref(schema.anyOf[i])]
           nonNull == {i \in DOMAIN alternatives : ~is_null_schema(alternatives[i])}
           first == CHOOSE i \in nonNull : TRUE
<1>1. nonNull = {}
  BY Tuples
<1>2. Cardinality(nonNull) # 1
  BY <1>1, FS_EmptySet
<1>3. flatten_nullable(schema) = IF Cardinality(nonNull) = 1 /\ Len(alternatives) > 1
        THEN alternatives[first]
        ELSE schema
  BY DEF flatten_nullable
<1> HIDE DEF alternatives, nonNull, first
<1> QED
  BY ONLY <1>2, <1>3

\* What normalize_schema makes of the schema of a base type.
LEMMA Normalised ==
    ASSUME NEW base \in BaseTypes
    PROVE  /\ normalize_schema(BaseSchema(base)) = Target(BaseSchema(base))
           /\ resolve_ref(BaseSchema(base)) = Target(BaseSchema(base))
           /\ Target(BaseSchema(base)).type = <<PlainType(base)>>
           /\ Target(BaseSchema(base)).enum = EnumOf(base)
           /\ Target(BaseSchema(base)).items = <<>>
<1>1. resolve_ref(BaseSchema(base)) = Target(BaseSchema(base))
  BY DEF resolve_ref, Target
<1>2. Keeps(Target(BaseSchema(base)), <<PlainType(base)>>, EnumOf(base), <<>>)
  <2>1. CASE base \in Named
    BY <2>1, BasesAre DEF Target, Named, PlainType, JsonOf
  <2>2. CASE base \notin Named
    <3>1. Keeps(BaseSchema(base), <<PlainType(base)>>, {}, <<>>)
      BY <2>2, BasesAre
    <3>2. Target(BaseSchema(base)) = BaseSchema(base)
      BY <3>1 DEF Target, Keeps
    <3>3. EnumOf(base) = {}
      BY <2>2 DEF Named, EnumOf
    <3> QED
      BY <3>1, <3>2, <3>3
  <2> QED
    BY <2>1, <2>2
<1>3. Target(BaseSchema(base)).anyOf = <<>>
  BY <1>2 DEF Keeps
<1>4. normalize_schema(BaseSchema(base)) = Target(BaseSchema(base))
  BY <1>1, <1>3, Unflattened DEF normalize_schema
<1> QED
  BY <1>1, <1>2, <1>4 DEF Keeps

\* The type that a definition names, which is not null.
LEMMA TypeNamed ==
    ASSUME NEW type, NEW json, json # "null",
           type = <<json>> \/ type = Append(<<json>>, "null")
    PROVE  /\ json_schema_type_from_value(type) = (IF json = "integer" THEN "number" ELSE json)
           /\ ~(\A i \in DOMAIN type : type[i] = "null")
<1>1. type # <<>> /\ 1 \in DOMAIN type /\ type[1] = json
  <2>1. CASE type = <<json>>
    BY <2>1, Tuples
  <2>2. CASE type = Append(<<json>>, "null")
    BY <2>2, Nullable
  <2> QED
    BY <2>1, <2>2
<1>2. json_schema_type_from_value(type) = (IF json = "integer" THEN "number" ELSE json)
  BY ONLY <1>1 DEF json_schema_type_from_value
<1> QED
  BY <1>1, <1>2

\* The integers of a schema are numbers.
LEMMA PlainIs ==
    ASSUME NEW base
    PROVE  /\ PlainType(base) # "null"
           /\ JsonOf(base) = (IF PlainType(base) = "integer" THEN "number" ELSE PlainType(base))
  BY DEF PlainType, JsonOf

\* What the definition of a field says.
LEMMA DefinitionsAre ==
    ASSUME NEW type \in FieldTypes
    PROVE  LET definition == json_schema_define_from_value(SchemaOf(type))
           IN  /\ type.vec =>
                     /\ definition.type = "array" /\ definition.enum = {}
                     /\ DOMAIN definition.items = {1}
                     /\ definition.items[1].type = JsonOf(type.base)
                     /\ definition.items[1].enum = EnumOf(type.base)
               /\ ~type.vec =>
                     /\ definition.type = JsonOf(type.base)
                     /\ definition.enum = EnumOf(type.base)
                     /\ DOMAIN definition.items = {}
<1> DEFINE base == type.base
<1>0. PICK S : S = SchemaOf(type)
  OBVIOUS
<1>1. base \in BaseTypes /\ type.vec \in BOOLEAN /\ type.option \in BOOLEAN
  BY DEF FieldTypes
<1>2. PICK own : own = normalize_schema(S)
  OBVIOUS
<1>3. PICK definition : definition = json_schema_define_from_value(S)
  OBVIOUS
<1>4. /\ definition.type = json_schema_type_from_value(own.type)
      /\ definition.enum = own.enum
      /\ definition.items =
            [i \in DOMAIN own.items |-> Define(normalize_schema(own.items[i]), <<>>)]
  BY <1>2, <1>3 DEF json_schema_define_from_value, Define
<1>5. ASSUME S.ref = "", S.anyOf = <<>>  PROVE own = S
  BY <1>2, <1>5, Unflattened DEF normalize_schema, resolve_ref
<1>6. CASE type.vec
  <2>1. \/ Keeps(S, <<"array">>, {}, <<BaseSchema(base)>>)
        \/ Keeps(S, Append(<<"array">>, "null"), {}, <<BaseSchema(base)>>)
    BY <1>0, <1>1, <1>6, SchemasAre
  <2>2. /\ S.type = <<"array">> \/ S.type = Append(<<"array">>, "null")
        /\ S.ref = "" /\ S.anyOf = <<>> /\ S.enum = {} /\ S.items = <<BaseSchema(base)>>
    BY <2>1 DEF Keeps
  <2>3. definition.type = "array" /\ definition.enum = {}
    <3>1. own = S
      BY <1>5, <2>2
    <3>2. json_schema_type_from_value(S.type) = "array"
      BY <2>2, TypeNamed
    <3> QED
      BY <1>4, <2>2, <3>1, <3>2
  <2>4. /\ DOMAIN definition.items = {1}
        /\ definition.items[1] = Define(Target(BaseSchema(base)), <<>>)
    <3>1. DOMAIN own.items = {1} /\ own.items[1] = BaseSchema(base)
      BY <1>5, <2>2, Tuples
    <3>2. normalize_schema(BaseSchema(base)) = Target(BaseSchema(base))
      BY <1>1, Normalised
    <3> QED
      BY <1>4, <3>1, <3>2
  <2>5. /\ definition.items[1].type = json_schema_type_from_value(<<PlainType(base)>>)
        /\ definition.items[1].enum = EnumOf(base)
    BY <1>1, <2>4, Normalised DEF Define
  <2>6. definition.items[1].type = JsonOf(base)
    BY <2>5, TypeNamed, PlainIs
  <2> QED
    BY <1>0, <1>3, <1>6, <2>3, <2>4, <2>5, <2>6
<1>7. CASE ~type.vec
  <2>1. /\ own.type = <<PlainType(base)>> \/ own.type = Append(<<PlainType(base)>>, "null")
        /\ own.enum = EnumOf(base)
        /\ own.items = <<>>
    <3>1. CASE base \notin Named
      <4>1. \/ Keeps(S, <<PlainType(base)>>, {}, <<>>)
            \/ Keeps(S, Append(<<PlainType(base)>>, "null"), {}, <<>>)
        BY <1>0, <1>1, <1>7, <3>1, SchemasAre
      <4>2. EnumOf(base) = {}
        BY <3>1 DEF Named, EnumOf
      <4> QED
        BY <1>5, <4>1, <4>2 DEF Keeps
    <3>2. CASE base \in Named /\ ~type.option
      <4>1. S = BaseSchema(base)
        BY <1>0, <1>1, <1>7, <3>2, SchemasAre, BasesAre
      <4> QED
        BY <1>1, <1>2, <4>1, Normalised
    <3>3. CASE base \in Named /\ type.option
      <4>1. S.anyOf = <<BaseSchema(base), OfType("null")>> /\ S.ref = ""
        BY <1>0, <1>1, <1>7, <3>3, SchemasAre, BasesAre
      <4>2. ~is_null_schema(resolve_ref(BaseSchema(base)))
        BY <1>1, Normalised, TypeNamed, PlainIs DEF is_null_schema
      <4>3. own = resolve_ref(BaseSchema(base))
        BY <1>2, <4>1, <4>2, FlattenedUnion DEF normalize_schema, resolve_ref
      <4> QED
        BY <1>1, <4>3, Normalised
    <3> QED
      BY <1>1, <3>1, <3>2, <3>3
  <2>2. definition.type = JsonOf(base)
    <3>1. json_schema_type_from_value(own.type) =
             (IF PlainType(base) = "integer" THEN "number" ELSE PlainType(base))
      BY <2>1, TypeNamed, PlainIs
    <3> QED
      BY <1>4, <3>1, PlainIs
  <2>3. DOMAIN definition.items = {}
    BY <1>4, <2>1, Tuples
  <2> QED
    BY <1>0, <1>3, <1>4, <1>7, <2>1, <2>2, <2>3
<1> QED
  BY <1>6, <1>7

\* What the definition of a field admits.
LEMMA AdmitsIs ==
    ASSUME NEW type \in FieldTypes, NEW v \in Values
    PROVE  Admits(json_schema_define_from_value(SchemaOf(type)), v) <=>
              \/ type.vec /\ v.json = "array" /\ \A e \in Elements(v) : AdmitsBase(type.base, e)
              \/ ~type.vec /\ AdmitsBase(type.base, v)
<1>0. PICK definition : definition = json_schema_define_from_value(SchemaOf(type))
  OBVIOUS
<1>1. JsonOf(type.base) # "none"
  BY DEF JsonOf
<1>2. CASE type.vec
  BY <1>0, <1>1, <1>2, DefinitionsAre DEF Admits, AdmitsAlone, AdmitsBase
<1>3. CASE ~type.vec
  BY <1>0, <1>1, <1>3, DefinitionsAre DEF Admits, AdmitsAlone, AdmitsBase
<1> QED
  BY <1>2, <1>3

\* A value is admitted and taken, or neither, but for null in an optional field, and for
\* numbers that count and strings that name someone.
LEMMA FieldFaithful ==
    ASSUME NEW type \in FieldTypes, NEW v \in Values
    PROVE  LET admitted == Admits(json_schema_define_from_value(SchemaOf(type)), v)
               taken == Valid(SchemaOf(type), v) /\ Read(type, v)
           IN  /\ admitted /\ ~taken =>
                     \/ type.base = "usize" /\ v \in Numbers /\ v.of # "whole"
                     \/ type.base = "About" /\ v \in Strings /\ v.of # "global"
               /\ taken /\ ~admitted => type.option /\ v = Null
<1> DEFINE base == type.base
<1>1. /\ base \in BaseTypes
      /\ type.vec \in BOOLEAN
      /\ type.option \in BOOLEAN
      /\ type.vec => base \in Listed
  BY DEF FieldTypes
<1>2. ASSUME NEW w
      PROVE  /\ ReadBase(base, w) => AdmitsBase(base, w)
             /\ AdmitsBase(base, w) /\ base \notin {"usize", "About"} =>
                   ValidBase(base, w) /\ ReadBase(base, w)
             /\ AdmitsBase(base, w) /\ base = "usize" /\ w.of = "whole" =>
                   ValidBase(base, w) /\ ReadBase(base, w)
             /\ AdmitsBase(base, w) /\ base = "About" /\ w.of = "global" =>
                   ValidBase(base, w) /\ ReadBase(base, w)
  <2> USE DEF ReadBase, AdmitsBase, ValidBase, HasType, PlainType, JsonOf, EnumOf
  <2>1. CASE base \in {"String", "f64", "Map"}
    BY <2>1
  <2>2. CASE base = "usize"
    BY <2>2
  <2>3. CASE base = "About"
    BY <2>3
  <2>4. CASE base \in {"Tier", "Level", "Scope"}
    <3>1. Variants[base] # {}
      BY <2>4 DEF Variants
    <3> QED
      BY <2>4, <3>1
  <2> QED
    BY <1>1, <2>1, <2>2, <2>3, <2>4 DEF BaseTypes, Named
<1>3. CASE type.vec
  <2>1. base \notin {"usize", "About"}
    BY <1>1, <1>3 DEF Listed
  <2> QED
    BY <1>2, <1>3, <2>1, ValidIs, AdmitsIs DEF Read
<1>4. CASE ~type.vec
  <2>1. AdmitsBase(base, v) /\ base = "usize" => v \in Numbers
    BY ValuesAre DEF AdmitsBase, JsonOf
  <2>2. AdmitsBase(base, v) /\ base = "About" => v \in Strings
    BY ValuesAre DEF AdmitsBase, JsonOf
  <2> QED
    BY <1>2, <1>4, <2>1, <2>2, ValidIs, AdmitsIs DEF Read
<1> QED
  BY <1>3, <1>4

\* The arguments' fields that the tool has are values.
Called(tool, args) ==
    /\ args.object \in BOOLEAN
    /\ \A f \in Given(tool, args) : args.fields[f] \in Values

\* The definition of a tool that the provider is sent and the check of its calls
\* agree on every call, but for null in an optional field, numbers that count
\* something and strings that name a person (common.rs and the tools' input types).
THEOREM SchemaAgrees ==
    ASSUME NEW tool \in ToolNames, NEW args, Called(tool, args)
    PROVE  LET fields == Inputs[tool]
               given(f) == args.fields[f]
               admitted == Admitted(tool, args)
               taken == ExtractInput(tool, args) = "input"
           IN  /\ admitted /\ ~taken => \E f \in Given(tool, args) :
                       \/ fields[f].base = "usize" /\ given(f) \in Numbers /\ given(f).of # "whole"
                       \/ fields[f].base = "About" /\ given(f) \in Strings /\ given(f).of # "global"
               /\ taken /\ ~admitted => \E f \in Given(tool, args) :
                       fields[f].option /\ given(f) = Null
<1> DEFINE type(f) == Inputs[tool][f]
           value(f) == args.fields[f]
           admits(f) == Admits(json_schema_define_from_value(SchemaOf(type(f))), value(f))
           valid(f) == Valid(SchemaOf(type(f)), value(f))
           read(f) == Read(type(f), value(f))
           complete == args.object /\ RequiredOf(tool) \subseteq DOMAIN args.fields
<1>1. \A f \in Given(tool, args) : type(f) \in FieldTypes /\ value(f) \in Values
  BY FieldsTyped DEF Called, Given
<1>2. ASSUME NEW f \in Given(tool, args)
      PROVE  /\ admits(f) /\ ~(valid(f) /\ read(f)) =>
                   \/ type(f).base = "usize" /\ value(f) \in Numbers /\ value(f).of # "whole"
                   \/ type(f).base = "About" /\ value(f) \in Strings /\ value(f).of # "global"
             /\ valid(f) /\ read(f) /\ ~admits(f) => type(f).option /\ value(f) = Null
  <2>1. PICK t, v : t = type(f) /\ v = value(f)
    OBVIOUS
  <2>2. t \in FieldTypes /\ v \in Values
    BY <1>1, <2>1
  <2>3. /\ Admits(json_schema_define_from_value(SchemaOf(t)), v)
           /\ ~(Valid(SchemaOf(t), v) /\ Read(t, v)) =>
                   \/ t.base = "usize" /\ v \in Numbers /\ v.of # "whole"
                   \/ t.base = "About" /\ v \in Strings /\ v.of # "global"
        /\ Valid(SchemaOf(t), v) /\ Read(t, v)
           /\ ~Admits(json_schema_define_from_value(SchemaOf(t)), v) => t.option /\ v = Null
    BY <2>2, FieldFaithful
  <2> QED
    BY <2>1, <2>3
<1>3. Admitted(tool, args) <=> complete /\ \A f \in Given(tool, args) : admits(f)
  <2>1. PICK parameters : parameters = function_parameters_from_value(tool)
    OBVIOUS
  <2>2. parameters.required = RequiredOf(tool)
    BY <2>1 DEF function_parameters_from_value
  <2>3. \A f \in Given(tool, args) :
           parameters.properties[f] = json_schema_define_from_value(SchemaOf(Inputs[tool][f]))
    BY <2>1 DEF function_parameters_from_value, Given
  <2> QED
    BY <2>1, <2>2, <2>3 DEF Admitted, Called
<1>4. ExtractInput(tool, args) = "input" <=>
         complete /\ \A f \in Given(tool, args) : valid(f) /\ read(f)
  BY DEF ExtractInput, Called
<1> HIDE DEF admits, valid, read, complete
<1> QED
  BY <1>2, <1>3, <1>4

\* A field that must be there is a string.
Plainly(type) == type.option \/ type.default \/ (type.base = "String" /\ type.vec = FALSE)

\* Every argument that a call must have is a string.
LEMMA RequiredAre ==
    ASSUME NEW tool \in ToolNames, NEW f \in RequiredOf(tool)
    PROVE  Inputs[tool][f].base = "String" /\ Inputs[tool][f].vec = FALSE
<1>1. /\ Plainly(Type("String"))
      /\ \A type \in FieldTypes : Plainly(Option(type)) /\ Plainly(Defaulted(type))
  BY DEF Plainly, Type, FieldTypes, Option, Defaulted
<1> USE <1>1, TypesTyped DEF BaseTypes, Named, Listed
<1>2. \A g \in DOMAIN Memory_recall : Plainly(Memory_recall[g])
  BY DEF Memory_recall
<1>3. \A g \in DOMAIN Memory_remember : Plainly(Memory_remember[g])
  BY DEF Memory_remember
<1>4. \A g \in DOMAIN Memory_briefing : Plainly(Memory_briefing[g])
  BY DEF Memory_briefing
<1>5. \A g \in DOMAIN Memory_get : Plainly(Memory_get[g])
  BY DEF Memory_get
<1>6. \A g \in DOMAIN Memory_list : Plainly(Memory_list[g])
  BY ONLY <1>2 DEF Memory_list
<1>7. \A g \in DOMAIN Memory_update : Plainly(Memory_update[g])
  BY <1>3 DEF Memory_update
<1>8. \A g \in DOMAIN Web_fetch : Plainly(Web_fetch[g])
  BY DEF Web_fetch
<1>9. \A g \in DOMAIN Web_search : Plainly(Web_search[g])
  BY DEF Web_search
<1>10. \A g \in DOMAIN Discord_send : Plainly(Discord_send[g])
  BY DEF Discord_send
<1>11. \A g \in DOMAIN Discord_react : Plainly(Discord_react[g])
  BY DEF Discord_react
<1>12. \A g \in DOMAIN Inputs[tool] : Plainly(Inputs[tool][g])
  BY ONLY <1>2, <1>3, <1>4, <1>5, <1>6, <1>7, <1>8, <1>9, <1>10, <1>11, tool \in ToolNames
     DEF ToolNames, Inputs
<1> QED
  BY <1>12 DEF RequiredOf, Plainly

\* Any arguments that a call is made with are values.
LEMMA PlainFieldsAre ==
    ASSUME NEW tool \in ToolNames
    PROVE  PlainFields(tool) \in [RequiredOf(tool) -> Values]
<1>1. ASSUME NEW f \in RequiredOf(tool)  PROVE PlainValue(Inputs[tool][f]) \in Values
  <2>1. PICK type : type = Inputs[tool][f]
    OBVIOUS
  <2>2. type.base = "String" /\ type.vec = FALSE
    BY <2>1, RequiredAre
  <2>3. PICK digits : digits = Value("string", "digits")
    OBVIOUS
  <2>4. digits.json = "string" /\ digits \in Values
    BY <2>3 DEF Value, Values, Scalars, Strings
  <2>5. Read(type, digits)
    BY <2>2, <2>4 DEF Read, ReadBase
  <2>6. PlainValue(type) = digits
    BY <2>3, <2>5 DEF PlainValue
  <2> QED
    BY <2>1, <2>4, <2>6
<1> QED
  BY <1>1 DEF PlainFields

\* Whatever a tool is called with is a call that SchemaAgrees speaks of.
LEMMA ArgumentsAre ==
    ASSUME NEW tool \in ToolNames, NEW args \in Arguments(tool)
    PROVE  Called(tool, args)
<1> DEFINE plain == PlainFields(tool)
<1>2. plain \in [RequiredOf(tool) -> Values]
  BY PlainFieldsAre
<1>3. ASSUME NEW fields \in Fields(tool)
      PROVE  \A g \in DOMAIN fields : fields[g] \in Values
  <2>1. CASE fields = plain
    BY <1>2, <2>1
  <2>2. CASE \E f \in RequiredOf(tool) : fields = [g \in RequiredOf(tool) \ {f} |-> plain[g]]
    BY <1>2, <2>2
  <2>3. CASE \E f \in DOMAIN Inputs[tool] \cup {"other"}, v \in Values :
                fields = [g \in RequiredOf(tool) \cup {f} |-> IF g = f THEN v ELSE plain[g]]
    <3>1. PICK f \in DOMAIN Inputs[tool] \cup {"other"}, v \in Values :
             fields = [g \in RequiredOf(tool) \cup {f} |-> IF g = f THEN v ELSE plain[g]]
      BY <2>3
    <3> QED
      BY <1>2, <3>1
  <2> QED
    <3>1. \/ fields = plain
          \/ fields \in {[g \in RequiredOf(tool) \ {f} |-> plain[g]] : f \in RequiredOf(tool)}
          \/ \E f \in DOMAIN Inputs[tool] \cup {"other"} :
                fields \in {[g \in RequiredOf(tool) \cup {f} |-> IF g = f THEN v ELSE plain[g]] :
                               v \in Values}
      BY DEF Fields
    <3> QED
      BY <2>1, <2>2, <2>3, <3>1
<1>4. CASE \E fields \in Fields(tool) : args = [object |-> TRUE, fields |-> fields]
  BY <1>3, <1>4 DEF Called, Given
<1>5. CASE args = [object |-> FALSE, fields |-> <<>>]
  <2>1. args.object = FALSE /\ args.fields = <<>>
    BY <1>5
  <2>2. DOMAIN args.fields = {}
    BY <2>1
  <2> QED
    BY <2>1, <2>2 DEF Called, Given
<1> QED
  BY <1>4, <1>5 DEF Arguments

-----------------------------------------------------------------------------
(* Numbers in ascending order.                                             *)

\* The numbers of a set up to one.
UpTo(S, i) == {j \in S : j <= i}

\* Every place up to the size of a set of numbers is that of one of them.
LEMMA Places ==
    ASSUME NEW k \in Nat
    PROVE  \A S \in SUBSET (1 .. k) : \A n \in 1 .. Cardinality(S) :
              \E i \in S : Cardinality(UpTo(S, i)) = n
<1> DEFINE Placed(S) == \A n \in 1 .. Cardinality(S) : \E i \in S : Cardinality(UpTo(S, i)) = n
           P == {l \in Nat : \A S \in SUBSET (1 .. l) : Placed(S)}
<1>1. 0 \in P
  <2>1. ASSUME NEW S \in SUBSET (1 .. 0)  PROVE Placed(S)
    <3>1. S = {}
      OBVIOUS
    <3>2. Cardinality(S) = 0
      BY <3>1, FS_EmptySet
    <3>3. 1 .. Cardinality(S) = {}
      BY <3>2
    <3> QED
      BY <3>3
  <2> QED
    BY <2>1
<1>2. ASSUME NEW l \in P  PROVE l + 1 \in P
  <2> SUFFICES ASSUME NEW S \in SUBSET (1 .. l + 1) PROVE Placed(S)
    OBVIOUS
  <2>1. CASE l + 1 \notin S
    <3>1. S \in SUBSET (1 .. l)
      BY <2>1
    <3> QED
      BY <3>1
  <2>2. CASE l + 1 \in S
    <3>0. PICK R : R = S \ {l + 1}
      OBVIOUS
    <3>1. R \in SUBSET (1 .. l) /\ Placed(R)
      <4>1. R \in SUBSET (1 .. l)
        BY <3>0
      <4> HIDE DEF Placed
      <4> QED
        BY <4>1
    <3>2. IsFiniteSet(R) /\ Cardinality(R) \in Nat /\ Cardinality(S) = Cardinality(R) + 1
      <4>1. IsFiniteSet(1 .. l)
        BY FS_Interval
      <4>2. IsFiniteSet(R)
        BY <3>1, <4>1, FS_Subset
      <4>3. S = R \cup {l + 1} /\ l + 1 \notin R
        BY <2>2, <3>0
      <4>4. Cardinality(R \cup {l + 1}) = Cardinality(R) + 1
        BY <4>2, <4>3, FS_AddElement
      <4> QED
        BY <4>2, <4>3, <4>4, FS_CardinalityType
    <3>3. \A i \in R : UpTo(S, i) = UpTo(R, i)
      BY <3>0, <3>1 DEF UpTo
    <3>4. UpTo(S, l + 1) = S
      <4>1. \A j \in S : j <= l + 1
        OBVIOUS
      <4> QED
        BY <4>1 DEF UpTo
    <3>5. ASSUME NEW n \in 1 .. Cardinality(S)  PROVE \E i \in S : Cardinality(UpTo(S, i)) = n
      <4>1. CASE n = Cardinality(S)
        BY <2>2, <3>4, <4>1
      <4>2. CASE n # Cardinality(S)
        <5>1. n \in 1 .. Cardinality(R)
          BY <3>2, <4>2
        <5>2. PICK i \in R : Cardinality(UpTo(R, i)) = n
          BY <3>1, <5>1
        <5>3. Cardinality(UpTo(S, i)) = n
          BY <3>3, <5>2
        <5> QED
          BY <3>0, <5>3
      <4> QED
        BY <4>1, <4>2
    <3> QED
      BY <3>5
  <2> QED
    BY <2>1, <2>2
<1>3. P = Nat
  <2>1. P \in SUBSET Nat
    OBVIOUS
  <2> HIDE DEF P
  <2> QED
    BY <1>1, <1>2, <2>1, Induction
<1>4. k \in P
  <2> HIDE DEF P
  <2> QED
    BY <1>3
<1> QED
  BY <1>4

\* A greater number of a set has a greater place.
LEMMA PlacesGrow ==
    ASSUME NEW k \in Nat, NEW S \in SUBSET (1 .. k), NEW i \in S, NEW j \in S, i < j
    PROVE  Cardinality(UpTo(S, i)) < Cardinality(UpTo(S, j))
<1>1. UpTo(S, i) \subseteq UpTo(S, j) /\ j \in UpTo(S, j) /\ j \notin UpTo(S, i)
      /\ UpTo(S, j) \subseteq 1 .. k
  <2>1. \A x \in S : x \in Nat
    OBVIOUS
  <2>2. \A x \in S : x <= i => x <= j
    BY <2>1
  <2>3. ~(j <= i) /\ j <= j
    BY <2>1
  <2> QED
    BY <2>2, <2>3 DEF UpTo
<1>2. IsFiniteSet(UpTo(S, j))
  <2>1. IsFiniteSet(1 .. k)
    BY FS_Interval
  <2> QED
    BY <1>1, <2>1, FS_Subset
<1>3. IsFiniteSet(UpTo(S, i)) /\ UpTo(S, i) # UpTo(S, j)
  BY <1>1, <1>2, FS_Subset
<1>4. PICK A, B : A = UpTo(S, i) /\ B = UpTo(S, j)
  OBVIOUS
<1>5. Cardinality(A) <= Cardinality(B) /\ Cardinality(A) # Cardinality(B)
  <2>1. A \in SUBSET B /\ IsFiniteSet(B) /\ A # B
    BY <1>1, <1>2, <1>3, <1>4
  <2> QED
    BY <2>1, FS_Subset
<1>6. Cardinality(A) \in Nat /\ Cardinality(B) \in Nat
  BY <1>2, <1>3, <1>4, FS_CardinalityType
<1> QED
  BY <1>4, <1>5, <1>6

\* The numbers of a set, each at its place.
LEMMA AscendingFacts ==
    ASSUME NEW k \in Nat, NEW S \in SUBSET (1 .. k)
    PROVE  /\ Cardinality(S) \in Nat
           /\ Ascending(S) \in Seq(S)
           /\ Len(Ascending(S)) = Cardinality(S)
           /\ \A n \in 1 .. Cardinality(S), i \in S :
                 Cardinality(UpTo(S, i)) = n => Ascending(S)[n] = i
<1>1. Cardinality(S) \in Nat /\ IsFiniteSet(S)
  <2>1. IsFiniteSet(1 .. k)
    BY FS_Interval
  <2> QED
    BY <2>1, FS_Subset, FS_CardinalityType
<1>2. ASSUME NEW n \in 1 .. Cardinality(S)
      PROVE  Ascending(S)[n] \in S /\ Cardinality(UpTo(S, Ascending(S)[n])) = n
  <2>1. Ascending(S)[n] = CHOOSE i \in S : Cardinality(UpTo(S, i)) = n
    BY DEF Ascending, UpTo
  <2>2. \E i \in S : Cardinality(UpTo(S, i)) = n
    BY Places
  <2> QED
    BY <2>1, <2>2
<1>3. Ascending(S) = [n \in 1 .. Cardinality(S) |-> Ascending(S)[n]]
  BY DEF Ascending
<1>4. Ascending(S) \in Seq(S) /\ Len(Ascending(S)) = Cardinality(S)
  <2>1. PICK a : a = Ascending(S)
    OBVIOUS
  <2>2. a = [n \in 1 .. Cardinality(S) |-> a[n]] /\ \A n \in 1 .. Cardinality(S) : a[n] \in S
    BY <1>2, <1>3, <2>1
  <2>3. a \in [1 .. Cardinality(S) -> S] /\ DOMAIN a = 1 .. Cardinality(S)
    BY <2>2
  <2>4. a \in Seq(S)
    BY <1>1, <2>3
  <2>5. Len(a) \in Nat /\ DOMAIN a = 1 .. Len(a)
    BY <2>4, LenProperties
  <2>6. Len(a) = Cardinality(S)
    <3>1. PICK c, d : c = Cardinality(S) /\ d = Len(a)
      OBVIOUS
    <3>2. c \in Nat /\ d \in Nat /\ 1 .. c = 1 .. d
      BY <1>1, <2>3, <2>5, <3>1
    <3>3. c = d
      BY <3>2
    <3> QED
      BY <3>1, <3>3
  <2> QED
    BY <2>1, <2>4, <2>6
<1>5. ASSUME NEW n \in 1 .. Cardinality(S), NEW i \in S, Cardinality(UpTo(S, i)) = n
      PROVE  Ascending(S)[n] = i
  <2>1. PICK j : j = Ascending(S)[n]
    OBVIOUS
  <2>2. j \in S /\ Cardinality(UpTo(S, j)) = n
    BY <1>2, <2>1
  <2>3. ~(i < j) /\ ~(j < i)
    <3>1. ~(n < n)
      BY <1>1
    <3>2. i < j => n < n
      BY <1>5, <2>2, PlacesGrow
    <3>3. j < i => n < n
      BY <1>5, <2>2, PlacesGrow
    <3> QED
      BY <3>1, <3>2, <3>3
  <2>4. i \in Nat /\ j \in Nat
    BY <2>2
  <2> QED
    BY <2>1, <2>3, <2>4
<1> QED
  BY <1>1, <1>4, <1>5

\* Of no numbers there is no sequence.
LEMMA AscendingNone == Ascending({}) = <<>>
<1>1. {} \in SUBSET (1 .. 0) /\ 0 \in Nat
  OBVIOUS
<1>2. Ascending({}) \in Seq({}) /\ Len(Ascending({})) = Cardinality({})
  BY <1>1, AscendingFacts
<1>3. Cardinality({}) = 0
  BY FS_EmptySet
<1> QED
  BY <1>2, <1>3, EmptySeq

\* A greater number comes last.
LEMMA AscendingGrows ==
    ASSUME NEW k \in Nat, NEW S \in SUBSET (1 .. k)
    PROVE  Ascending(S \cup {k + 1}) = Append(Ascending(S), k + 1)
<1> DEFINE T == S \cup {k + 1}
<1>1. T \in SUBSET (1 .. k + 1) /\ k + 1 \in Nat /\ k + 1 \notin S /\ k + 1 \in T
  OBVIOUS
<1>2. IsFiniteSet(S) /\ Cardinality(S) \in Nat /\ Cardinality(T) = Cardinality(S) + 1
  <2>1. IsFiniteSet(1 .. k)
    BY FS_Interval
  <2>2. IsFiniteSet(S)
    BY <2>1, FS_Subset
  <2>3. Cardinality(T) = Cardinality(S) + 1
    BY <1>1, <2>2, FS_AddElement
  <2> QED
    BY <2>2, <2>3, FS_CardinalityType
<1>3. PICK c \in Nat : c = Cardinality(S)
  BY <1>2
<1>4. PICK a : a = Ascending(S)
  OBVIOUS
<1>5. a \in Seq(S) /\ Len(a) = c
  BY <1>3, <1>4, AscendingFacts
<1>6. PICK b : b = Ascending(T)
  OBVIOUS
<1>7. /\ b \in Seq(T) /\ Len(b) = c + 1
      /\ \A n \in 1 .. c + 1, i \in T : Cardinality(UpTo(T, i)) = n => b[n] = i
  <2>1. PICK l \in Nat : l = k + 1
    OBVIOUS
  <2>2. T \in SUBSET (1 .. l) /\ Cardinality(T) = c + 1
    BY <1>1, <1>2, <1>3, <2>1
  <2> HIDE DEF T
  <2> QED
    BY <1>6, <2>2, AscendingFacts
<1>8. ASSUME NEW n \in 1 .. c  PROVE b[n] = a[n]
  <2>1. PICK i \in S : Cardinality(UpTo(S, i)) = n
    BY <1>3, Places
  <2>2. a[n] = i
    BY <1>3, <1>4, <2>1, AscendingFacts
  <2>3. UpTo(T, i) = UpTo(S, i)
    <3>1. i \in 1 .. k
      OBVIOUS
    <3>2. ~(k + 1 <= i)
      BY <3>1
    <3>3. \A j : (j \in T /\ j <= i) <=> (j \in S /\ j <= i)
      BY <3>2
    <3> HIDE DEF T
    <3> QED
      BY <3>3 DEF UpTo
  <2>4. i \in T /\ n \in 1 .. c + 1
    OBVIOUS
  <2> HIDE DEF T
  <2> QED
    BY <1>7, <2>1, <2>2, <2>3, <2>4
<1>9. b[c + 1] = k + 1
  <2>1. UpTo(T, k + 1) = T
    <3>1. \A j \in T : j <= k + 1
      BY <1>1
    <3> HIDE DEF T
    <3> QED
      BY <3>1 DEF UpTo
  <2>2. Cardinality(UpTo(T, k + 1)) = c + 1
    BY <1>2, <1>3, <2>1
  <2>3. c + 1 \in 1 .. c + 1
    OBVIOUS
  <2> HIDE DEF T
  <2> QED
    BY <1>1, <1>7, <2>2, <2>3
<1>10. Append(a, k + 1) = b
  <2>1. a \in Seq(T) /\ k + 1 \in T
    BY <1>5
  <2> HIDE DEF T
  <2>2. /\ Append(a, k + 1) \in Seq(T) /\ Len(Append(a, k + 1)) = c + 1
        /\ \A n \in 1 .. c : Append(a, k + 1)[n] = a[n]
        /\ Append(a, k + 1)[c + 1] = k + 1
    BY <1>5, <2>1, AppendProperties
  <2>3. \A n \in 1 .. c + 1 : Append(a, k + 1)[n] = b[n]
    BY <1>8, <1>9, <2>2
  <2> QED
    BY <1>7, <2>2, <2>3, SeqEqual
<1> QED
  BY <1>4, <1>6, <1>10

-----------------------------------------------------------------------------
(* The text of a page, line by line.                                       *)

\* The text of a page, taken line by line.
AddLine(text, line) ==
    IF Trimmed(line) # <<>> THEN [lines |-> Append(text.lines, Trimmed(line)), blank |-> FALSE]
    ELSE IF text.blank THEN text
    ELSE [lines |-> Append(text.lines, <<>>), blank |-> TRUE]

NoText == [lines |-> <<>>, blank |-> TRUE]

TextOf(page) ==
    CHOOSE f : f = [s \in SUBSET (DOMAIN page) |->
                       IF s = {} THEN NoText
                       ELSE AddLine(f[s \ {Max(s)}], page[Max(s)])]

Texts(C) == [lines : Seq(Seq(C)), blank : BOOLEAN]

\* A line that is trimmed is a line, and empty if nothing of it is solid.
LEMMA TrimmedFacts ==
    ASSUME NEW C, NEW line \in Seq(C)
    PROVE  /\ Trimmed(line) \in Seq(C)
           /\ Trimmed(line) = <<>> <=> Solid(line) = {}
<1>1. Len(line) \in Nat /\ DOMAIN line = 1 .. Len(line)
  BY LenProperties
<1>2. CASE Solid(line) = {}
  BY <1>2, EmptySeq DEF Trimmed
<1>3. CASE Solid(line) # {}
  <2> DEFINE S == Solid(line)
  <2>1. S \in SUBSET (1 .. Len(line))
    BY <1>1 DEF Solid
  <2> HIDE DEF S
  <2>2. Max(S) \in S
    BY <1>1, <1>3, <2>1, GreatestWithin DEF S
  <2>3. Min(S) \in S /\ Min(S) <= Max(S)
    <3>1. S \in SUBSET Nat /\ S # {}
      BY <1>3, <2>1 DEF S
    <3>2. PICK m \in S : \A k \in S : m <= k
      BY <3>1, Smallest
    <3>3. Min(S) \in S /\ \A k \in S : Min(S) <= k
      BY <3>2 DEF Min
    <3> QED
      BY <2>2, <3>3
  <2>8. Min(S) \in 1 .. Len(line) /\ Max(S) \in 1 .. Len(line)
    <3> HIDE DEF S
    <3> QED
      BY <2>1, <2>2, <2>3
  <2>4. /\ SubSeq(line, Min(S), Max(S)) \in Seq(C)
        /\ Len(SubSeq(line, Min(S), Max(S))) = Max(S) - Min(S) + 1
    <3> HIDE DEF S
    <3> QED
      BY <1>1, <2>3, <2>8, SubSeqProperties
  <2>5. Trimmed(line) = SubSeq(line, Min(S), Max(S))
    BY <1>3 DEF Trimmed, S
  <2>6. Max(S) - Min(S) + 1 # 0
    BY <1>1, <2>3, <2>8
  <2>7. Trimmed(line) # <<>>
    BY <2>4, <2>5, <2>6, EmptySeq
  <2> QED
    BY <1>3, <2>4, <2>5, <2>7
<1> QED
  BY <1>2, <1>3

\* A text that a line is added to is a text.
LEMMA AddLineTyped ==
    ASSUME NEW C, NEW text \in Texts(C), NEW line \in Seq(C)
    PROVE  AddLine(text, line) \in Texts(C)
<1>1. Trimmed(line) \in Seq(C) /\ <<>> \in Seq(C)
  BY TrimmedFacts, EmptySeq
<1>2. text.lines \in Seq(Seq(C)) /\ text.blank \in BOOLEAN
  BY DEF Texts
<1>3. Append(text.lines, Trimmed(line)) \in Seq(Seq(C)) /\ Append(text.lines, <<>>) \in Seq(Seq(C))
  BY <1>1, <1>2, AppendProperties
<1> QED
  BY <1>3 DEF AddLine, Texts

\* The text of a page is made from its first line to its last.
LEMMA TextSteps ==
    ASSUME NEW C, NEW page \in Seq(Seq(C))
    PROVE  /\ Normalise(page) =
                 LET all == TextOf(page)[1 .. Len(page)]
                 IN  IF all.lines # <<>> /\ all.blank THEN Front(all.lines) ELSE all.lines
           /\ TextOf(page)[{}] = NoText
           /\ \A i \in 1 .. Len(page) :
                 TextOf(page)[1 .. i] = AddLine(TextOf(page)[1 .. (i - 1)], page[i])
<1> DEFINE n == Len(page)
           step == [p \in Texts(C) \X (1 .. n) |-> AddLine(p[1], page[p[2]])]
<1>1. n \in Nat /\ DOMAIN page = 1 .. n /\ \A i \in 1 .. n : page[i] \in Seq(C)
  BY LenProperties, ElementOfSeq
<1>2. PICK f \in Folds(n, Texts(C), NoText, step) : TRUE
  <2>1. step \in [Texts(C) \X (1 .. n) -> Texts(C)]
    BY <1>1, AddLineTyped
  <2>2. NoText \in Texts(C)
    BY EmptySeq DEF NoText, Texts
  <2> HIDE DEF step, n
  <2> QED
    BY <1>1, <2>1, <2>2, FoldExists
<1>3. f = [s \in SUBSET (DOMAIN page) |->
             IF s = {} THEN NoText ELSE AddLine(f[s \ {Max(s)}], page[Max(s)])]
  <2>1. /\ f \in [SUBSET (1 .. n) -> Texts(C)]
        /\ f = [s \in SUBSET (1 .. n) |->
                  IF s = {} THEN NoText ELSE step[<<f[s \ {Max(s)}], Max(s)>>]]
    BY <1>2 DEF Folds
  <2>2. ASSUME NEW s \in SUBSET (1 .. n), s # {}
        PROVE  step[<<f[s \ {Max(s)}], Max(s)>>] = AddLine(f[s \ {Max(s)}], page[Max(s)])
    <3>1. Max(s) \in 1 .. n /\ f[s \ {Max(s)}] \in Texts(C)
      BY <1>1, <2>1, <2>2, GreatestWithin
    <3> QED
      BY <3>1
  <2> HIDE DEF step
  <2> QED
    BY <1>1, <2>1, <2>2
<1> HIDE DEF step
<1>4. PICK g : g = TextOf(page)
  OBVIOUS
<1>5. g = [s \in SUBSET (DOMAIN page) |->
             IF s = {} THEN NoText ELSE AddLine(g[s \ {Max(s)}], page[Max(s)])]
  BY <1>3, <1>4 DEF TextOf
<1>6. Normalise(page) =
         LET all == g[1 .. n]
         IN  IF all.lines # <<>> /\ all.blank THEN Front(all.lines) ELSE all.lines
  BY <1>1, <1>4 DEF Normalise, FoldLeft, MapThenFoldSet, TextOf, AddLine, NoText
<1>7. g[{}] = NoText
  BY <1>5
<1>8. ASSUME NEW i \in 1 .. n
      PROVE  g[1 .. i] = AddLine(g[1 .. (i - 1)], page[i])
  <2>1. 1 .. i \in SUBSET (DOMAIN page) /\ i \in Nat /\ i # 0
    BY <1>1
  <2>2. 1 .. i # {} /\ Max(1 .. i) = i /\ (1 .. i) \ {i} = 1 .. (i - 1)
    BY <2>1, MaxOfInterval
  <2> HIDE DEF n
  <2> QED
    BY <1>5, <2>1, <2>2
<1> QED
  BY <1>4, <1>6, <1>7, <1>8

\* The lines of a page up to one that are not blank, and what the text has of one.
SolidTo(page, i) == {j \in 1 .. i : Solid(page[j]) # {}}

Piece(page, order, k) ==
    IF k > 1 /\ order[k] > order[k - 1] + 1
    THEN <<<<>>, Trimmed(page[order[k]])>>
    ELSE <<Trimmed(page[order[k]])>>

Pieces(page, order) == [k \in DOMAIN order |-> Piece(page, order, k)]


\* What the text has of a solid line, after any other.
LEMMA PieceIs ==
    ASSUME NEW C, NEW page \in Seq(Seq(C)), NEW order \in Seq(DOMAIN page),
           NEW k \in 1 .. Len(order)
    PROVE  Piece(page, order, k) \in Seq(Seq(C))
<1>1. /\ DOMAIN page = 1 .. Len(page)
      /\ order[k] \in DOMAIN page
  BY LenProperties, ElementOfSeq
<1>2. page[order[k]] \in Seq(C)
  BY <1>1, ElementOfSeq
<1>3. PICK t, e : t = Trimmed(page[order[k]]) /\ e = <<>>
  OBVIOUS
<1>4. t \in Seq(C) /\ e \in Seq(C)
  BY <1>2, <1>3, TrimmedFacts, EmptySeq
<1>5. <<t>> \in Seq(Seq(C)) /\ <<e, t>> \in Seq(Seq(C))
  BY <1>4
<1> QED
  BY <1>3, <1>5 DEF Piece

\* The pieces of the lines that are solid, when one more is.
LEMMA PiecesAre ==
    ASSUME NEW C, NEW page \in Seq(Seq(C)), NEW order \in Seq(DOMAIN page)
    PROVE  /\ Pieces(page, order) \in Seq(Seq(Seq(C)))
           /\ Len(Pieces(page, order)) = Len(order)
           /\ \A i \in DOMAIN page :
                 Pieces(page, Append(order, i)) =
                    Append(Pieces(page, order), Piece(page, Append(order, i), Len(order) + 1))
<1>1. PICK n \in Nat : n = Len(order)
  BY LenProperties
<1>2. ASSUME NEW o \in Seq(DOMAIN page)
      PROVE  /\ Pieces(page, o) \in Seq(Seq(Seq(C))) /\ Len(Pieces(page, o)) = Len(o)
             /\ \A k \in 1 .. Len(o) : Pieces(page, o)[k] = Piece(page, o, k)
  <2>1. PICK m \in Nat : m = Len(o)
    BY LenProperties
  <2>2. DOMAIN o = 1 .. m
    BY <2>1, LenProperties
  <2>3. PICK p : p = Pieces(page, o)
    OBVIOUS
  <2>4. p = [k \in 1 .. m |-> Piece(page, o, k)]
    BY <2>2, <2>3 DEF Pieces
  <2>5. \A k \in 1 .. m : Piece(page, o, k) \in Seq(Seq(C))
    BY <2>1, PieceIs
  <2>6. p \in [1 .. m -> Seq(Seq(C))]
    BY <2>4, <2>5
  <2>7. p \in Seq(Seq(Seq(C))) /\ Len(p) = m
    BY <2>6
  <2> QED
    BY <2>1, <2>3, <2>4, <2>7
<1>3. ASSUME NEW i \in DOMAIN page
      PROVE  Pieces(page, Append(order, i)) =
                Append(Pieces(page, order), Piece(page, Append(order, i), Len(order) + 1))
  <2>1. PICK o : o = Append(order, i)
    OBVIOUS
  <2>2. /\ o \in Seq(DOMAIN page) /\ Len(o) = n + 1 /\ \A k \in 1 .. n : o[k] = order[k]
        /\ o[n + 1] = i
    BY <1>1, <2>1, AppendProperties
  <2>3. ASSUME NEW k \in 1 .. n  PROVE Piece(page, o, k) = Piece(page, order, k)
    <3>1. o[k] = order[k]
      BY <2>2
    <3>2. k > 1 => o[k - 1] = order[k - 1]
      BY <2>2
    <3> QED
      BY <3>1, <3>2 DEF Piece
  <2>4. PICK p, q, x : p = Pieces(page, order) /\ q = Pieces(page, o) /\ x = Piece(page, o, n + 1)
    OBVIOUS
  <2>5. /\ p \in Seq(Seq(Seq(C))) /\ Len(p) = n
        /\ \A k \in 1 .. n : p[k] = Piece(page, order, k)
    BY <1>1, <1>2, <2>4
  <2>6. /\ q \in Seq(Seq(Seq(C))) /\ Len(q) = n + 1
        /\ \A k \in 1 .. n + 1 : q[k] = Piece(page, o, k)
    BY <1>2, <2>2, <2>4
  <2>7. x \in Seq(Seq(C)) /\ q[n + 1] = x
    <3>1. n + 1 \in 1 .. Len(o)
      BY <2>2
    <3> QED
      BY <2>2, <2>4, <2>6, <3>1, PieceIs
  <2>8. PICK r : r = Append(p, x)
    OBVIOUS
  <2>9. /\ r \in Seq(Seq(Seq(C))) /\ Len(r) = n + 1
        /\ \A k \in 1 .. n : r[k] = p[k]
        /\ r[n + 1] = x
    <3>1. PICK S : S = Seq(Seq(C))
      OBVIOUS
    <3>2. p \in Seq(S) /\ Len(p) = n /\ x \in S
      BY <2>5, <2>7, <3>1
    <3>3. /\ r \in Seq(S) /\ Len(r) = n + 1
          /\ \A k \in 1 .. n : r[k] = p[k]
          /\ r[n + 1] = x
      <4>1. r \in Seq(S) /\ Len(r) = Len(p) + 1
        BY <2>8, <3>2, AppendProperties
      <4>2. \A k \in 1 .. Len(p) : r[k] = p[k]
        BY <2>8, <3>2, AppendProperties
      <4>3. r[Len(p) + 1] = x
        BY <2>8, <3>2, AppendProperties
      <4> QED
        BY <3>2, <4>1, <4>2, <4>3
    <3> QED
      BY <3>1, <3>3
  <2>10. \A k \in 1 .. n + 1 : q[k] = r[k]
    <3>1. ASSUME NEW k \in 1 .. n  PROVE q[k] = r[k]
      <4>1. q[k] = Piece(page, o, k)
        BY <2>6
      <4>2. p[k] = Piece(page, order, k) /\ r[k] = p[k]
        BY <2>5, <2>9
      <4> QED
        BY <2>3, <4>1, <4>2
    <3>2. q[n + 1] = r[n + 1]
      BY <2>7, <2>9
    <3>3. \A k \in 1 .. n + 1 : k \in 1 .. n \/ k = n + 1
      OBVIOUS
    <3> QED
      BY <3>1, <3>2, <3>3
  <2>11. q = r
    <3>1. PICK S : S = Seq(Seq(C))
      OBVIOUS
    <3>2. q \in Seq(S) /\ r \in Seq(S) /\ Len(q) = n + 1 /\ Len(r) = n + 1
      BY <2>6, <2>9, <3>1
    <3>3. Len(q) = Len(r) /\ \A k \in 1 .. Len(q) : q[k] = r[k]
      BY <2>10, <3>2
    <3> QED
      BY <3>2, <3>3, SeqEqual
  <2> QED
    BY <1>1, <2>1, <2>4, <2>8, <2>11
<1> QED
  BY <1>2, <1>3

\* The solid lines up to the next one.
LEMMA SolidToFacts ==
    ASSUME NEW C, NEW page \in Seq(Seq(C))
    PROVE  /\ SolidTo(page, 0) = {}
           /\ SolidTo(page, Len(page)) = {i \in DOMAIN page : Solid(page[i]) # {}}
           /\ \A i \in Nat :
                 /\ SolidTo(page, i) \in SUBSET (1 .. i)
                 /\ SolidTo(page, i + 1) = SolidTo(page, i)
                                             \cup IF Solid(page[i + 1]) = {} THEN {} ELSE {i + 1}
<1>1. DOMAIN page = 1 .. Len(page)
  BY LenProperties
<1>2. SolidTo(page, 0) = {}
  <2>1. 1 .. 0 = {}
    OBVIOUS
  <2> QED
    BY <2>1 DEF SolidTo
<1>3. SolidTo(page, Len(page)) = {i \in DOMAIN page : Solid(page[i]) # {}}
  BY <1>1 DEF SolidTo
<1>4. ASSUME NEW i \in Nat
      PROVE  /\ SolidTo(page, i) \in SUBSET (1 .. i)
             /\ SolidTo(page, i + 1) = SolidTo(page, i)
                                          \cup IF Solid(page[i + 1]) = {} THEN {} ELSE {i + 1}
  <2>1. \A j : j \in 1 .. i + 1 <=> (j \in 1 .. i \/ j = i + 1)
    OBVIOUS
  <2> QED
    BY <2>1 DEF SolidTo
<1> QED
  BY <1>2, <1>3, <1>4

\* The text of a page up to line i: its solid lines and what stands between them,
\* with a blank line at the end if blank lines follow.
Reads(page, i) ==
    LET order == Ascending(SolidTo(page, i))
        last == Len(order)
        said == FlattenSeq(Pieces(page, order))
        text == TextOf(page)[1 .. i]
    IN  IF last = 0 THEN text = NoText
        ELSE text = IF order[last] < i THEN [lines |-> Append(said, <<>>), blank |-> TRUE]
                                       ELSE [lines |-> said, blank |-> FALSE]

\* A solid line adds its piece to what is said.
LEMMA SaidGrows ==
    ASSUME NEW C, NEW page \in Seq(Seq(C)), NEW i \in Nat, i + 1 \in DOMAIN page,
           NEW order \in Seq(1 .. i), NEW said, said = FlattenSeq(Pieces(page, order)),
           NEW trimmed, trimmed = Trimmed(page[i + 1])
    PROVE  /\ said \in Seq(Seq(C))
           /\ FlattenSeq(Pieces(page, Append(order, i + 1))) =
                 IF Len(order) = 0 THEN <<trimmed>>
                 ELSE IF order[Len(order)] < i THEN Append(Append(said, <<>>), trimmed)
                 ELSE Append(said, trimmed)
<1>1. PICK n, l \in Nat : n = Len(order) /\ l = Len(page)
  BY LenProperties
<1>2. DOMAIN page = 1 .. l /\ i + 1 \in 1 .. l
  BY <1>1, LenProperties
<1>3. order \in Seq(DOMAIN page)
  <2>1. 1 .. i \subseteq DOMAIN page
    BY <1>2
  <2> QED
    BY <2>1, SeqMonotonic
<1>4. PICK o, x : o = Append(order, i + 1) /\ x = Piece(page, o, n + 1)
  OBVIOUS
<1>5. /\ o \in Seq(DOMAIN page)
      /\ Len(o) = n + 1
      /\ \A k \in 1 .. n : o[k] = order[k]
      /\ o[n + 1] = i + 1
  BY <1>1, <1>3, <1>4, AppendProperties
<1>6. PICK S, p : S = Seq(C) /\ p = Pieces(page, order)
  OBVIOUS
<1>7. p \in Seq(Seq(S)) /\ Len(p) = n /\ Pieces(page, o) = Append(p, x)
  BY <1>1, <1>3, <1>4, <1>6, PiecesAre
<1>8. x \in Seq(S)
  <2>1. n + 1 \in 1 .. Len(o)
    BY <1>5
  <2> QED
    BY <1>4, <1>5, <1>6, <2>1, PieceIs
<1>9. /\ said \in Seq(S)
      /\ n = 0 => said = <<>>
      /\ FlattenSeq(Pieces(page, o)) = said \o x
  <2>1. said = FlattenSeq(p)
    BY <1>6
  <2> QED
    BY <1>7, <1>8, <2>1, FlattenFacts
<1>10. trimmed \in S
  <2>1. page[i + 1] \in Seq(C)
    BY <1>1, <1>2, ElementOfSeq
  <2> QED
    BY <1>6, <2>1, TrimmedFacts
<1>11. <<>> \in S
  BY <1>6, EmptySeq
<1>12. x = IF n = 0 THEN <<trimmed>>
           ELSE IF order[n] < i THEN <<<<>>, trimmed>> ELSE <<trimmed>>
  <2>1. x = IF n + 1 > 1 /\ i + 1 > o[(n + 1) - 1] + 1 THEN <<<<>>, trimmed>> ELSE <<trimmed>>
    BY <1>4, <1>5 DEF Piece
  <2>2. CASE n = 0
    <3>1. ~(n + 1 > 1)
      BY <2>2
    <3> QED
      BY <2>1, <2>2, <3>1
  <2>3. CASE n # 0
    <3>1. n + 1 > 1 /\ (n + 1) - 1 = n /\ n \in 1 .. n
      BY <2>3
    <3>2. o[n] = order[n] /\ order[n] \in Nat
      BY <1>1, <1>5, <3>1, ElementOfSeq
    <3>3. i + 1 > o[n] + 1 <=> order[n] < i
      BY <3>2
    <3> QED
      BY <2>1, <2>3, <3>1, <3>3
  <2> QED
    BY <2>2, <2>3
<1>13. PICK e : e = <<>>
  OBVIOUS
<1>14. /\ said \o <<trimmed>> = Append(said, trimmed)
       /\ said \o <<e, trimmed>> = Append(Append(said, e), trimmed)
  BY <1>9, <1>10, <1>11, <1>13, Appended
<1>15. n = 0 => Append(said, trimmed) = <<trimmed>>
  <2>1. <<>> \o <<trimmed>> = <<trimmed>>
    <3>1. <<trimmed>> \in Seq(S)
      BY <1>10
    <3> QED
      BY <3>1, ConcatEmptySeq
  <2> QED
    BY <1>9, <1>14, <2>1
<1> QED
  BY <1>1, <1>4, <1>6, <1>9, <1>12, <1>13, <1>14, <1>15

\* If a page reads so up to one line, it does up to the next.
LEMMA ReadsOn ==
    ASSUME NEW C, NEW page \in Seq(Seq(C)), NEW i \in Nat, i + 1 \in DOMAIN page, Reads(page, i)
    PROVE  Reads(page, i + 1)
<1>1. PICK l \in Nat : l = Len(page)
  BY LenProperties
<1>2. DOMAIN page = 1 .. l /\ i + 1 \in 1 .. l /\ (i + 1) - 1 = i
  BY <1>1, LenProperties
<1>3. PICK text, next, trimmed :
         /\ text = TextOf(page)[1 .. i]
         /\ next = TextOf(page)[1 .. i + 1]
         /\ trimmed = Trimmed(page[i + 1])
  OBVIOUS
<1>4. next = AddLine(text, page[i + 1])
  BY <1>1, <1>2, <1>3, TextSteps
<1>5. PICK S, order, said :
         S = SolidTo(page, i) /\ order = Ascending(S) /\ said = FlattenSeq(Pieces(page, order))
  OBVIOUS
<1>6. S \in SUBSET (1 .. i)
      /\ SolidTo(page, i + 1) = S \cup IF Solid(page[i + 1]) = {} THEN {} ELSE {i + 1}
  BY <1>5, SolidToFacts
<1>7. order \in Seq(1 .. i)
  <2>1. order \in Seq(S)
    BY <1>5, <1>6, AscendingFacts
  <2> QED
    BY <1>6, <2>1, SeqMonotonic
<1>8. PICK n \in Nat : n = Len(order)
  BY <1>7, LenProperties
<1>9. IF n = 0 THEN text = NoText
      ELSE text = IF order[n] < i THEN [lines |-> Append(said, <<>>), blank |-> TRUE]
                                  ELSE [lines |-> said, blank |-> FALSE]
  BY <1>3, <1>5, <1>8 DEF Reads
<1>10. n # 0 => order[n] \in 1 .. i
  BY <1>7, <1>8, ElementOfSeq
<1>11. trimmed = <<>> <=> Solid(page[i + 1]) = {}
  <2>1. page[i + 1] \in Seq(C)
    BY <1>1, <1>2, ElementOfSeq
  <2> QED
    BY <1>3, <2>1, TrimmedFacts
<1>12. CASE Solid(page[i + 1]) = {}
  <2>1. SolidTo(page, i + 1) = S
    BY <1>6, <1>12
  <2>2. next = IF text.blank THEN text ELSE [lines |-> Append(text.lines, <<>>), blank |-> TRUE]
    BY <1>3, <1>4, <1>11, <1>12 DEF AddLine
  <2>3. n = 0 => next = NoText
    BY <1>9, <2>2 DEF NoText
  <2>4. n # 0 => order[n] < i + 1 /\ next = [lines |-> Append(said, <<>>), blank |-> TRUE]
    <3>1. CASE n # 0 /\ order[n] < i
      <4>1. text = [lines |-> Append(said, <<>>), blank |-> TRUE]
        BY <1>9, <3>1
      <4>2. next = text
        BY <2>2, <4>1
      <4> QED
        BY <1>10, <3>1, <4>1, <4>2
    <3>2. CASE n # 0 /\ ~(order[n] < i)
      <4>1. text = [lines |-> said, blank |-> FALSE]
        BY <1>9, <3>2
      <4>2. next = [lines |-> Append(said, <<>>), blank |-> TRUE]
        BY <2>2, <4>1
      <4> QED
        BY <1>10, <3>2, <4>2
    <3> QED
      BY <3>1, <3>2
  <2> QED
    BY <1>3, <1>5, <1>8, <2>1, <2>3, <2>4 DEF Reads
<1>13. CASE Solid(page[i + 1]) # {}
  <2>1. PICK o : o = Append(order, i + 1)
    OBVIOUS
  <2>2. o = Ascending(SolidTo(page, i + 1))
    <3>1. SolidTo(page, i + 1) = S \cup {i + 1}
      BY <1>6, <1>13
    <3> QED
      BY <1>5, <1>6, <2>1, <3>1, AscendingGrows
  <2>3. Len(o) = n + 1 /\ o[n + 1] = i + 1
    <3>1. order \in Seq(Nat)
      BY <1>7, SeqMonotonic
    <3> QED
      BY <1>8, <2>1, <3>1, AppendProperties
  <2>4. next = [lines |-> Append(text.lines, trimmed), blank |-> FALSE]
    BY <1>3, <1>4, <1>11, <1>13 DEF AddLine
  <2>5. FlattenSeq(Pieces(page, o)) =
           IF n = 0 THEN <<trimmed>>
           ELSE IF order[n] < i THEN Append(Append(said, <<>>), trimmed)
           ELSE Append(said, trimmed)
    <3>1. FlattenSeq(Pieces(page, Append(order, i + 1))) =
             IF Len(order) = 0 THEN <<trimmed>>
             ELSE IF order[Len(order)] < i THEN Append(Append(said, <<>>), trimmed)
             ELSE Append(said, trimmed)
      BY <1>3, <1>5, <1>7, SaidGrows
    <3> QED
      BY <1>8, <2>1, <3>1
  <2>6. n = 0 => text.lines = <<>> /\ Append(<<>>, trimmed) = <<trimmed>>
    BY <1>9 DEF NoText
  <2>7. next = [lines |-> FlattenSeq(Pieces(page, o)), blank |-> FALSE]
    <3>1. CASE n = 0
      BY <2>4, <2>5, <2>6, <3>1
    <3>2. CASE n # 0 /\ order[n] < i
      <4>1. PICK more : more = Append(said, <<>>)
        OBVIOUS
      <4>2. text = [lines |-> more, blank |-> TRUE]
        BY <1>9, <3>2, <4>1
      <4>3. text.lines = more
        BY <4>2
      <4>4. FlattenSeq(Pieces(page, o)) = Append(more, trimmed)
        BY <2>5, <3>2, <4>1
      <4> QED
        BY <2>4, <4>3, <4>4
    <3>3. CASE n # 0 /\ ~(order[n] < i)
      <4>1. text = [lines |-> said, blank |-> FALSE]
        BY <1>9, <3>3
      <4>2. text.lines = said
        BY <4>1
      <4>3. FlattenSeq(Pieces(page, o)) = Append(said, trimmed)
        BY <2>5, <3>3
      <4> QED
        BY <2>4, <4>2, <4>3
    <3> QED
      BY <3>1, <3>2, <3>3
  <2>8. n + 1 # 0 /\ ~(i + 1 < i + 1)
    OBVIOUS
  <2> QED
    BY <1>3, <2>2, <2>3, <2>7, <2>8 DEF Reads
<1> QED
  BY <1>12, <1>13

\* The text of a page is what a reader reads of it.
THEOREM NormaliseReads ==
    ASSUME NEW C, NEW page \in Seq(Seq(C))
    PROVE  Normalise(page) = Readable(page) /\ Readable(page) \in Seq(Seq(C))
<1>1. PICK l \in Nat : l = Len(page)
  BY LenProperties
<1>2. DOMAIN page = 1 .. l
  BY <1>1, LenProperties
<1> DEFINE R == {i \in Nat : i <= l => Reads(page, i)}
<1>3. 0 \in R
  <2>1. 1 .. 0 = {} /\ SolidTo(page, 0) = {}
    BY SolidToFacts
  <2>2. Ascending(SolidTo(page, 0)) = <<>>
    BY <2>1, AscendingNone
  <2>3. TextOf(page)[1 .. 0] = NoText
    BY <2>1, TextSteps
  <2> QED
    BY <2>2, <2>3 DEF Reads
<1>4. ASSUME NEW i \in R  PROVE i + 1 \in R
  <2> SUFFICES ASSUME i + 1 <= l PROVE Reads(page, i + 1)
    OBVIOUS
  <2>1. i \in Nat /\ Reads(page, i) /\ i + 1 \in DOMAIN page
    BY <1>2
  <2> HIDE DEF R
  <2> QED
    BY <2>1, ReadsOn
<1>5. Reads(page, l)
  <2>1. R \in SUBSET Nat
    OBVIOUS
  <2>2. R = Nat
    <3> HIDE DEF R
    <3> QED
      BY <1>3, <1>4, <2>1, Induction
  <2> QED
    BY <2>2
<1> HIDE DEF R
<1>6. PICK S, order, said :
         S = SolidTo(page, l) /\ order = Ascending(S) /\ said = FlattenSeq(Pieces(page, order))
  OBVIOUS
<1>7. S = {i \in DOMAIN page : Solid(page[i]) # {}} /\ S \in SUBSET (1 .. l)
  BY <1>1, <1>6, SolidToFacts
<1>8. Readable(page) = said
  BY <1>6, <1>7 DEF Readable, Pieces, Piece
<1>9. order \in Seq(1 .. l)
  BY <1>6, <1>7, AscendingFacts, SeqMonotonic
<1>10. PICK n \in Nat : n = Len(order)
  BY <1>9, LenProperties
<1>11. PICK text : text = TextOf(page)[1 .. l]
  OBVIOUS
<1>12. IF n = 0 THEN text = NoText
       ELSE text = IF order[n] < l THEN [lines |-> Append(said, <<>>), blank |-> TRUE]
                                   ELSE [lines |-> said, blank |-> FALSE]
  BY <1>5, <1>6, <1>10, <1>11 DEF Reads
<1>13. Normalise(page) = IF text.lines # <<>> /\ text.blank THEN Front(text.lines) ELSE text.lines
  BY <1>1, <1>11, TextSteps
<1>14. PICK T, p : T = Seq(C) /\ p = Pieces(page, order)
  OBVIOUS
<1>15. p \in Seq(Seq(T)) /\ Len(p) = n
  BY <1>2, <1>9, <1>10, <1>14, PiecesAre
<1>16. said \in Seq(T) /\ (n = 0 => said = <<>>)
  BY <1>6, <1>14, <1>15, FlattenFacts
<1>17. PICK e : e = <<>>
  OBVIOUS
<1>18. e \in T
  BY <1>14, <1>17, EmptySeq
<1>19. Front(Append(said, e)) = said /\ Append(said, e) # <<>>
  <2>1. Len(Append(said, e)) = Len(said) + 1 /\ Len(said) \in Nat
    BY <1>16, <1>18, AppendProperties, LenProperties
  <2>2. Append(said, e) # <<>>
    BY <2>1, EmptySeq
  <2> QED
    BY <1>16, <1>18, <2>2, Appended
<1>20. Normalise(page) = said
  <2>1. CASE n = 0
    BY <1>12, <1>13, <1>16, <2>1 DEF NoText
  <2>2. CASE n # 0
    <3>1. CASE order[n] < l
      <4>1. text = [lines |-> Append(said, e), blank |-> TRUE]
        BY <1>12, <1>17, <2>2, <3>1
      <4> QED
        BY <1>13, <1>19, <4>1
    <3>2. CASE ~(order[n] < l)
      <4>1. text = [lines |-> said, blank |-> FALSE]
        BY <1>12, <2>2, <3>2
      <4> QED
        BY <1>13, <4>1
    <3> QED
      BY <3>1, <3>2
  <2> QED
    BY <2>1, <2>2
<1> QED
  BY <1>8, <1>14, <1>16, <1>20

\* A fold within a set: the sets within 1 .. n that it goes through.
BytesOf(text) ==
    CHOOSE f : f = [s \in SUBSET (DOMAIN text) |->
                       IF s = {} THEN 0
                       ELSE f[s \ {Max(s)}] + (IF text[Max(s)] = "wide" THEN 2 ELSE 1)]

\* The bytes of a text are counted from its first character to its last.
LEMMA BytesSteps ==
    ASSUME NEW C, NEW text \in Seq(C)
    PROVE  /\ Bytes(text) = BytesOf(text)[1 .. Len(text)]
           /\ BytesOf(text)[{}] = 0
           /\ \A i \in 1 .. Len(text) :
                 BytesOf(text)[1 .. i] =
                    BytesOf(text)[1 .. (i - 1)] + (IF text[i] = "wide" THEN 2 ELSE 1)
<1> DEFINE n == Len(text)
           step == [p \in Nat \X (1 .. n) |-> p[1] + (IF text[p[2]] = "wide" THEN 2 ELSE 1)]
<1>1. n \in Nat /\ DOMAIN text = 1 .. n
  BY LenProperties
<1>2. PICK f \in Folds(n, Nat, 0, step) : TRUE
  <2>1. step \in [Nat \X (1 .. n) -> Nat]
    OBVIOUS
  <2> HIDE DEF step, n
  <2> QED
    BY <1>1, <2>1, FoldExists
<1>3. f = [s \in SUBSET (DOMAIN text) |->
             IF s = {} THEN 0
             ELSE f[s \ {Max(s)}] + (IF text[Max(s)] = "wide" THEN 2 ELSE 1)]
  <2>1. /\ f \in [SUBSET (1 .. n) -> Nat]
        /\ f = [s \in SUBSET (1 .. n) |->
                  IF s = {} THEN 0 ELSE step[<<f[s \ {Max(s)}], Max(s)>>]]
    BY <1>2 DEF Folds
  <2>2. ASSUME NEW s \in SUBSET (1 .. n), s # {}
        PROVE  step[<<f[s \ {Max(s)}], Max(s)>>] =
                  f[s \ {Max(s)}] + (IF text[Max(s)] = "wide" THEN 2 ELSE 1)
    <3>1. Max(s) \in 1 .. n /\ f[s \ {Max(s)}] \in Nat
      BY <1>1, <2>1, <2>2, GreatestWithin
    <3> QED
      BY <3>1
  <2> HIDE DEF step
  <2> QED
    BY <1>1, <2>1, <2>2
<1> HIDE DEF step
<1>4. PICK g : g = BytesOf(text)
  OBVIOUS
<1>5. g = [s \in SUBSET (DOMAIN text) |->
             IF s = {} THEN 0
             ELSE g[s \ {Max(s)}] + (IF text[Max(s)] = "wide" THEN 2 ELSE 1)]
  BY <1>3, <1>4 DEF BytesOf
<1>6. Bytes(text) = g[1 .. n]
  BY <1>1, <1>4 DEF Bytes, FoldLeft, MapThenFoldSet, BytesOf
<1>7. g[{}] = 0
  BY <1>5
<1>8. ASSUME NEW i \in 1 .. n
      PROVE  g[1 .. i] = g[1 .. (i - 1)] + (IF text[i] = "wide" THEN 2 ELSE 1)
  <2>1. 1 .. i \in SUBSET (DOMAIN text) /\ i \in Nat /\ i # 0
    BY <1>1
  <2>2. 1 .. i # {} /\ Max(1 .. i) = i /\ (1 .. i) \ {i} = 1 .. (i - 1)
    BY <2>1, MaxOfInterval
  <2> HIDE DEF n
  <2> QED
    BY <1>5, <2>1, <2>2
<1> QED
  BY <1>4, <1>6, <1>7, <1>8

\* A character is a byte or two.
LEMMA BytesAtLeast ==
    ASSUME NEW C, NEW text \in Seq(C)
    PROVE  Bytes(text) \in Nat /\ Bytes(text) >= Len(text)
<1> DEFINE n == Len(text)
           P == {i \in Nat : i <= n => BytesOf(text)[1 .. i] \in Nat /\ BytesOf(text)[1 .. i] >= i}
<1>1. n \in Nat
  BY LenProperties
<1>2. 0 \in P
  <2>1. 1 .. 0 = {}
    OBVIOUS
  <2> QED
    BY <2>1, BytesSteps
<1>3. ASSUME NEW i \in P  PROVE i + 1 \in P
  <2> SUFFICES ASSUME i + 1 <= n
               PROVE  BytesOf(text)[1 .. i + 1] \in Nat /\ BytesOf(text)[1 .. i + 1] >= i + 1
    OBVIOUS
  <2>1. i + 1 \in 1 .. n /\ (i + 1) - 1 = i
    BY <1>1
  <2>2. BytesOf(text)[1 .. i + 1] = BytesOf(text)[1 .. i] + (IF text[i + 1] = "wide" THEN 2 ELSE 1)
    BY <2>1, BytesSteps
  <2>3. BytesOf(text)[1 .. i] \in Nat /\ BytesOf(text)[1 .. i] >= i
    BY <1>1
  <2> QED
    BY <2>2, <2>3
<1>4. P = Nat
  <2>1. P \in SUBSET Nat
    OBVIOUS
  <2> HIDE DEF P
  <2> QED
    BY <1>2, <1>3, <2>1, Induction
<1> QED
  BY <1>1, <1>4, BytesSteps

\* The lines as one string are a string.
LEMMA JoinedIs ==
    ASSUME NEW C, NEW page \in Seq(Seq(C))
    PROVE  Joined(page) \in Seq(C \cup {"newline"})
<1>1. PICK n \in Nat : n = Len(page)
  BY LenProperties
<1>2. DOMAIN page = 1 .. n
  BY <1>1, LenProperties
<1>3. PICK S : S = Seq(C \cup {"newline"})
  OBVIOUS
<1> DEFINE parts == [i \in DOMAIN page |-> IF i = 1 THEN page[i] ELSE <<"newline">> \o page[i]]
<1>4. ASSUME NEW i \in 1 .. n  PROVE parts[i] \in S
  <2>1. page[i] \in Seq(C)
    BY <1>1, ElementOfSeq
  <2>2. page[i] \in Seq(C \cup {"newline"})
    BY <2>1, SeqMonotonic
  <2>3. <<"newline">> \in Seq(C \cup {"newline"})
    OBVIOUS
  <2>4. <<"newline">> \o page[i] \in Seq(C \cup {"newline"})
    BY <2>2, <2>3, ConcatProperties
  <2>5. parts[i] = IF i = 1 THEN page[i] ELSE <<"newline">> \o page[i]
    BY <1>2
  <2> HIDE DEF parts
  <2> QED
    BY <1>3, <2>2, <2>4, <2>5
<1>5. parts \in Seq(S)
  <2>1. PICK p : p = parts
    OBVIOUS
  <2>2. p \in [1 .. n -> S]
    BY <1>2, <1>4, <2>1
  <2> QED
    BY <2>1, <2>2
<1>6. Joined(page) = FlattenSeq(parts)
  BY DEF Joined
<1> HIDE DEF parts
<1> QED
  BY <1>3, <1>5, <1>6, FlattenFacts

\* A text is cut where it is longer than was asked for, and marked so.
LEMMA TruncateFacts ==
    ASSUME NEW C, NEW text \in Seq(C), NEW max_length \in Nat
    PROVE  LET content == truncate_text(text, max_length)
           IN  IF max_length = 0 \/ Len(text) <= max_length
               THEN content.chars = text
               ELSE content.chars = SubSeq(text, 1, max_length) /\ content.marked
<1>1. PICK n \in Nat, b \in Nat : n = Len(text) /\ b = Bytes(text) /\ b >= n
  BY LenProperties, BytesAtLeast
<1>2. SubSeq(text, 1, n) = text
  BY <1>1, SubSeqFull
<1>3. Min({max_length, n}) = IF n <= max_length THEN n ELSE max_length
  <2>1. PICK m : m = IF n <= max_length THEN n ELSE max_length
    OBVIOUS
  <2>2. m \in {max_length, n} /\ \A y \in {max_length, n} : m <= y
    BY <2>1
  <2>3. \A x \in {max_length, n} : (\A y \in {max_length, n} : x <= y) => x = m
    BY <2>1
  <2> QED
    BY <2>1, <2>2, <2>3 DEF Min
<1>4. CASE max_length = 0 \/ b <= max_length
  <2>1. truncate_text(text, max_length).chars = text
    BY <1>1, <1>4 DEF truncate_text
  <2>2. max_length = 0 \/ n <= max_length
    BY <1>1, <1>4
  <2> QED
    BY <1>1, <2>1, <2>2
<1>5. CASE ~(max_length = 0 \/ b <= max_length)
  <2>1. /\ truncate_text(text, max_length).chars = SubSeq(text, 1, Min({max_length, n}))
        /\ truncate_text(text, max_length).marked = TRUE
    BY <1>1, <1>5 DEF truncate_text
  <2>2. CASE n <= max_length
    BY <1>1, <1>2, <1>3, <2>1, <2>2
  <2>3. CASE ~(n <= max_length)
    BY <1>1, <1>3, <1>5, <2>1, <2>3
  <2> QED
    BY <2>2, <2>3
<1> QED
  BY <1>4, <1>5

-----------------------------------------------------------------------------
(* The results of a search, one by one.                                    *)

\* The results that are found, taken one by one.
FindOne(found, r, limit) == IF r = "" \/ Len(found) >= limit THEN found ELSE Append(found, r)

FoundOf(results, limit) ==
    CHOOSE f : f = [s \in SUBSET (DOMAIN results) |->
                       IF s = {} THEN <<>>
                       ELSE FindOne(f[s \ {Max(s)}], results[Max(s)], limit)]

\* Results are found from the first to the last.
LEMMA FoundSteps ==
    ASSUME NEW D, NEW results \in Seq(D), NEW limit
    PROVE  /\ Found(results, limit) = FoundOf(results, limit)[1 .. Len(results)]
           /\ FoundOf(results, limit)[{}] = <<>>
           /\ \A i \in 1 .. Len(results) :
                 FoundOf(results, limit)[1 .. i] =
                    FindOne(FoundOf(results, limit)[1 .. (i - 1)], results[i], limit)
<1> DEFINE n == Len(results)
           step == [p \in Seq(D) \X (1 .. n) |-> FindOne(p[1], results[p[2]], limit)]
<1>1. n \in Nat /\ DOMAIN results = 1 .. n /\ \A i \in 1 .. n : results[i] \in D
  BY LenProperties, ElementOfSeq
<1>2. PICK f \in Folds(n, Seq(D), <<>>, step) : TRUE
  <2>1. ASSUME NEW q \in Seq(D), NEW i \in 1 .. n  PROVE FindOne(q, results[i], limit) \in Seq(D)
    BY <1>1, AppendProperties DEF FindOne
  <2>2. step \in [Seq(D) \X (1 .. n) -> Seq(D)]
    BY <2>1
  <2>3. <<>> \in Seq(D)
    BY EmptySeq
  <2> HIDE DEF step, n
  <2> QED
    BY <1>1, <2>2, <2>3, FoldExists
<1>3. f = [s \in SUBSET (DOMAIN results) |->
             IF s = {} THEN <<>> ELSE FindOne(f[s \ {Max(s)}], results[Max(s)], limit)]
  <2>1. /\ f \in [SUBSET (1 .. n) -> Seq(D)]
        /\ f = [s \in SUBSET (1 .. n) |->
                  IF s = {} THEN <<>> ELSE step[<<f[s \ {Max(s)}], Max(s)>>]]
    BY <1>2 DEF Folds
  <2>2. ASSUME NEW s \in SUBSET (1 .. n), s # {}
        PROVE  step[<<f[s \ {Max(s)}], Max(s)>>] = FindOne(f[s \ {Max(s)}], results[Max(s)], limit)
    <3>1. Max(s) \in 1 .. n /\ f[s \ {Max(s)}] \in Seq(D)
      BY <1>1, <2>1, <2>2, GreatestWithin
    <3> QED
      BY <3>1
  <2> HIDE DEF step
  <2> QED
    BY <1>1, <2>1, <2>2
<1> HIDE DEF step
<1>4. PICK g : g = FoundOf(results, limit)
  OBVIOUS
<1>5. g = [s \in SUBSET (DOMAIN results) |->
             IF s = {} THEN <<>> ELSE FindOne(g[s \ {Max(s)}], results[Max(s)], limit)]
  BY <1>3, <1>4 DEF FoundOf
<1>6. Found(results, limit) = g[1 .. n]
  BY <1>1, <1>4 DEF Found, FoldLeft, MapThenFoldSet, FoundOf, FindOne
<1>7. g[{}] = <<>>
  BY <1>5
<1>8. ASSUME NEW i \in 1 .. n
      PROVE  g[1 .. i] = FindOne(g[1 .. (i - 1)], results[i], limit)
  <2>1. 1 .. i \in SUBSET (DOMAIN results) /\ i \in Nat /\ i # 0
    BY <1>1
  <2>2. 1 .. i # {} /\ Max(1 .. i) = i /\ (1 .. i) \ {i} = 1 .. (i - 1)
    BY <2>1, MaxOfInterval
  <2> HIDE DEF n
  <2> QED
    BY <1>5, <2>1, <2>2
<1> QED
  BY <1>4, <1>6, <1>7, <1>8

-----------------------------------------------------------------------------

\* The results that have an address, and those of them that are shown.
Usable(results) == {i \in DOMAIN results : results[i] # ""}

Shown(results, limit) ==
    {i \in Usable(results) : Cardinality({j \in Usable(results) : j < i}) < limit}

Picked(results, order) == [k \in DOMAIN order |-> results[order[k]]]

\* The results at some places, when one more is picked.
LEMMA PickedAre ==
    ASSUME NEW D, NEW results \in Seq(D), NEW order \in Seq(DOMAIN results)
    PROVE  /\ Picked(results, order) \in Seq(D)
           /\ Len(Picked(results, order)) = Len(order)
           /\ \A i \in DOMAIN results :
                 Picked(results, Append(order, i)) = Append(Picked(results, order), results[i])
<1>1. PICK n \in Nat : n = Len(order)
  BY LenProperties
<1>0. DOMAIN results = 1 .. Len(results)
  BY LenProperties
<1>2. ASSUME NEW o \in Seq(DOMAIN results)
      PROVE  /\ Picked(results, o) \in Seq(D) /\ Len(Picked(results, o)) = Len(o)
             /\ \A k \in 1 .. Len(o) : Picked(results, o)[k] = results[o[k]]
  <2>1. PICK m \in Nat : m = Len(o)
    BY LenProperties
  <2>2. DOMAIN o = 1 .. m
    BY <2>1, LenProperties
  <2>3. PICK p : p = Picked(results, o)
    OBVIOUS
  <2>4. p = [k \in 1 .. m |-> results[o[k]]]
    BY <2>2, <2>3 DEF Picked
  <2>5. \A k \in 1 .. m : results[o[k]] \in D
    <3>1. \A k \in 1 .. m : o[k] \in 1 .. Len(results)
      BY <1>0, <2>1, ElementOfSeq
    <3> QED
      BY <3>1, ElementOfSeq
  <2>6. p \in [1 .. m -> D]
    BY <2>4, <2>5
  <2>7. p \in Seq(D) /\ Len(p) = m
    BY <2>6
  <2> QED
    BY <2>1, <2>3, <2>4, <2>7
<1>3. ASSUME NEW i \in DOMAIN results
      PROVE  Picked(results, Append(order, i)) = Append(Picked(results, order), results[i])
  <2>1. PICK o, p, q, x :
           /\ o = Append(order, i)
           /\ p = Picked(results, order)
           /\ q = Picked(results, o)
           /\ x = results[i]
    OBVIOUS
  <2>2. /\ o \in Seq(DOMAIN results) /\ Len(o) = n + 1 /\ \A k \in 1 .. n : o[k] = order[k]
        /\ o[n + 1] = i
    BY <1>1, <2>1, AppendProperties
  <2>3. p \in Seq(D) /\ Len(p) = n /\ \A k \in 1 .. n : p[k] = results[order[k]]
    BY <1>1, <1>2, <2>1
  <2>4. q \in Seq(D) /\ Len(q) = n + 1 /\ \A k \in 1 .. n + 1 : q[k] = results[o[k]]
    BY <1>2, <2>1, <2>2
  <2>5. x \in D
    BY <1>0, <2>1, ElementOfSeq
  <2>6. PICK r : r = Append(p, x)
    OBVIOUS
  <2>7. r \in Seq(D) /\ Len(r) = n + 1 /\ (\A k \in 1 .. n : r[k] = p[k]) /\ r[n + 1] = x
    BY <2>3, <2>5, <2>6, AppendProperties
  <2>8. \A k \in 1 .. n + 1 : q[k] = r[k]
    <3>1. ASSUME NEW k \in 1 .. n  PROVE q[k] = r[k]
      <4>1. q[k] = results[o[k]] /\ o[k] = order[k]
        BY <2>2, <2>4
      <4>2. r[k] = p[k] /\ p[k] = results[order[k]]
        BY <2>3, <2>7
      <4> QED
        BY <4>1, <4>2
    <3>2. q[n + 1] = r[n + 1]
      BY <2>1, <2>2, <2>4, <2>7
    <3>3. \A k \in 1 .. n + 1 : k \in 1 .. n \/ k = n + 1
      OBVIOUS
    <3> QED
      BY <3>1, <3>2, <3>3
  <2>9. Len(q) = Len(r) /\ \A k \in 1 .. Len(q) : q[k] = r[k]
    BY <2>4, <2>7, <2>8
  <2>10. q = r
    BY <2>4, <2>7, <2>9, SeqEqual
  <2> QED
    BY <2>1, <2>6, <2>10
<1> QED
  BY <1>2, <1>3

\* What has been found of the results up to i: those that are shown.
Finds(results, limit, i) ==
    LET shown == UpTo(Shown(results, limit), i)
    IN  /\ FoundOf(results, limit)[1 .. i] = Picked(results, Ascending(shown))
        /\ Cardinality(shown) < limit => shown = UpTo(Usable(results), i)

\* If what is found is shown up to one result, it is up to the next.
LEMMA FindsOn ==
    ASSUME NEW D, NEW results \in Seq(D), NEW limit \in Nat,
           NEW i \in Nat, i + 1 \in DOMAIN results,
           Finds(results, limit, i)
    PROVE  Finds(results, limit, i + 1)
<1>1. PICK l \in Nat : l = Len(results)
  BY LenProperties
<1>2. DOMAIN results = 1 .. l /\ i + 1 \in 1 .. l /\ (i + 1) - 1 = i
  BY <1>1, LenProperties
<1>3. PICK U, S, A, B :
         /\ U = Usable(results) /\ A = Shown(results, limit)
         /\ S = UpTo(A, i) /\ B = UpTo(U, i)
  OBVIOUS
<1>4. U \in SUBSET (1 .. l) /\ A \in SUBSET U /\ S \in SUBSET (1 .. i) /\ B \in SUBSET (1 .. i)
      /\ S \in SUBSET B
  <2>1. U \in SUBSET (1 .. l) /\ A \in SUBSET U
    BY <1>2, <1>3 DEF Usable, Shown
  <2>2. \A j \in U : j \in 1 .. l
    BY <2>1
  <2>3. \A j \in U : j <= i => j \in 1 .. i
    BY <2>2
  <2> QED
    BY <1>3, <2>1, <2>3 DEF UpTo
<1>5. {j \in U : j < i + 1} = B
  <2>1. \A j \in U : j \in Nat
    BY <1>4
  <2>2. \A j \in U : j < i + 1 <=> j <= i
    BY <2>1
  <2> QED
    BY <1>3, <2>2 DEF UpTo
<1>6. ASSUME NEW T \in SUBSET U
      PROVE  UpTo(T, i + 1) = UpTo(T, i) \cup IF i + 1 \in T THEN {i + 1} ELSE {}
  <2>1. \A j \in T : j \in Nat
    BY <1>4
  <2>2. \A j \in T : j <= i + 1 <=> j <= i \/ j = i + 1
    BY <2>1
  <2> QED
    BY <2>2 DEF UpTo
<1>7. UpTo(A, i + 1) = S \cup (IF i + 1 \in A THEN {i + 1} ELSE {})
      /\ UpTo(U, i + 1) = B \cup (IF i + 1 \in U THEN {i + 1} ELSE {})
  BY <1>3, <1>4, <1>6
<1>8. /\ i + 1 \in U <=> results[i + 1] # ""
      /\ i + 1 \in A <=> i + 1 \in U /\ Cardinality(B) < limit
  BY <1>2, <1>3, <1>5 DEF Usable, Shown
<1>9. PICK s, b \in Nat : s = Cardinality(S) /\ b = Cardinality(B) /\ s <= b
  <2>1. IsFiniteSet(1 .. i)
    BY FS_Interval
  <2>2. IsFiniteSet(B) /\ IsFiniteSet(S)
    BY <1>4, <2>1, FS_Subset
  <2>3. Cardinality(S) <= Cardinality(B)
    BY <1>4, <2>2, FS_Subset
  <2> QED
    BY <2>2, <2>3, FS_CardinalityType
<1>10. PICK order, found, next :
          /\ order = Ascending(S) /\ found = FoundOf(results, limit)[1 .. i]
          /\ next = FoundOf(results, limit)[1 .. i + 1]
  OBVIOUS
<1>11. found = Picked(results, order) /\ (s < limit => S = B)
  BY <1>3, <1>9, <1>10 DEF Finds
<1>12. order \in Seq(DOMAIN results) /\ Len(order) = s
  <2>1. order \in Seq(S) /\ Len(order) = s
    BY <1>4, <1>9, <1>10, AscendingFacts
  <2>2. S \subseteq DOMAIN results
    BY <1>2, <1>4
  <2> QED
    BY <2>1, <2>2, SeqMonotonic
<1>13. Len(found) = s
  BY <1>11, <1>12, PickedAre
<1>14. next = FindOne(found, results[i + 1], limit)
  BY <1>1, <1>2, <1>10, FoundSteps
<1>15. CASE results[i + 1] = ""
  <2>1. UpTo(A, i + 1) = S /\ UpTo(U, i + 1) = B
    BY <1>7, <1>8, <1>15
  <2>2. next = found
    BY <1>14, <1>15 DEF FindOne
  <2> QED
    BY <1>3, <1>9, <1>10, <1>11, <2>1, <2>2 DEF Finds
<1>16. CASE results[i + 1] # "" /\ s >= limit
  <2>1. ~(b < limit) /\ ~(s < limit)
    <3>1. s >= limit /\ s <= b
      BY <1>9, <1>16
    <3> QED
      BY <3>1
  <2>2. UpTo(A, i + 1) = S
    BY <1>7, <1>8, <1>9, <2>1
  <2>3. next = found
    BY <1>13, <1>14, <1>16 DEF FindOne
  <2> QED
    BY <1>3, <1>9, <1>10, <1>11, <2>1, <2>2, <2>3 DEF Finds
<1>17. CASE results[i + 1] # "" /\ ~(s >= limit)
  <2>1. S = B /\ b < limit
    <3>1. s < limit
      <4>1. ~(s >= limit)
        BY <1>17
      <4> QED
        BY <4>1
    <3>2. S = B
      BY <1>11, <3>1
    <3>3. b = s
      BY <1>9, <3>2
    <3> QED
      BY <3>1, <3>2, <3>3
  <2>2. UpTo(A, i + 1) = S \cup {i + 1} /\ UpTo(U, i + 1) = S \cup {i + 1}
    BY <1>7, <1>8, <1>9, <1>17, <2>1
  <2>3. next = Append(found, results[i + 1])
    BY <1>13, <1>14, <1>17 DEF FindOne
  <2>4. Ascending(S \cup {i + 1}) = Append(order, i + 1)
    BY <1>4, <1>10, AscendingGrows
  <2>5. next = Picked(results, Append(order, i + 1))
    BY <1>11, <1>12, <2>3, PickedAre
  <2> QED
    BY <1>3, <1>10, <2>2, <2>4, <2>5 DEF Finds
<1> QED
  BY <1>15, <1>16, <1>17

\* What is found is what is shown.
LEMMA FoundIs ==
    ASSUME NEW D, NEW results \in Seq(D), NEW limit \in Nat
    PROVE  Found(results, limit) = Picked(results, Ascending(Shown(results, limit)))
<1>1. PICK l \in Nat : l = Len(results)
  BY LenProperties
<1>2. DOMAIN results = 1 .. l
  BY <1>1, LenProperties
<1> DEFINE R == {i \in Nat : i <= l => Finds(results, limit, i)}
<1>3. Shown(results, limit) \in SUBSET (1 .. l) /\ Usable(results) \in SUBSET (1 .. l)
  BY <1>2 DEF Usable, Shown
<1>4. 0 \in R
  <2>1. ASSUME NEW T \in SUBSET (1 .. l)  PROVE UpTo(T, 0) = {}
    <3>1. \A j \in T : ~(j <= 0)
      OBVIOUS
    <3> QED
      BY <3>1 DEF UpTo
  <2>2. UpTo(Shown(results, limit), 0) = {} /\ UpTo(Usable(results), 0) = {}
    BY <1>3, <2>1
  <2>3. 1 .. 0 = {}
    OBVIOUS
  <2>4. FoundOf(results, limit)[1 .. 0] = <<>>
    BY <2>3, FoundSteps
  <2>5. Picked(results, <<>>) = <<>>
    BY DEF Picked
  <2> QED
    BY <2>2, <2>4, <2>5, AscendingNone DEF Finds
<1>5. ASSUME NEW i \in R  PROVE i + 1 \in R
  <2> SUFFICES ASSUME i + 1 <= l PROVE Finds(results, limit, i + 1)
    OBVIOUS
  <2>1. i \in Nat /\ Finds(results, limit, i) /\ i + 1 \in DOMAIN results
    BY <1>2
  <2> HIDE DEF R
  <2> QED
    BY <2>1, FindsOn
<1>6. Finds(results, limit, l)
  <2>1. R \in SUBSET Nat
    OBVIOUS
  <2>2. R = Nat
    <3> HIDE DEF R
    <3> QED
      BY <1>4, <1>5, <2>1, Induction
  <2> QED
    BY <2>2
<1>7. UpTo(Shown(results, limit), l) = Shown(results, limit)
  <2>1. PICK A : A = Shown(results, limit)
    OBVIOUS
  <2>2. \A j \in A : j <= l
    BY <1>3, <2>1
  <2> QED
    BY <2>1, <2>2 DEF UpTo
<1> QED
  BY <1>1, <1>6, <1>7, FoundSteps DEF Finds

\* A page is a sequence of lines, and a list of results one of addresses.
LEMMA PagesAre ==
    ASSUME NEW page \in Pages
    PROVE  page \in Seq(Seq({" ", "a", "wide"}))
<1>1. PICK L : L = Lines
  OBVIOUS
<1>2. PICK n \in 0 .. MaxLines : page \in [1 .. n -> L]
  BY <1>1 DEF Pages, SeqOf
<1>3. page \in Seq(L)
  <2>1. n \in Nat
    OBVIOUS
  <2> QED
    BY <1>2, <2>1
<1>4. L \subseteq Seq({" ", "a", "wide"})
  BY <1>1, ToolsAssumption, Zenon DEF ToolsAssumption
<1> QED
  BY <1>3, <1>4, SeqMonotonic, Zenon

LEMMA ResultsAre ==
    ASSUME NEW results \in Results
    PROVE  results \in Seq(URLs)
<1>1. PICK n \in 0 .. MaxResults : results \in [1 .. n -> URLs]
  BY DEF Results, SeqOf
<1>2. n \in Nat
  OBVIOUS
<1> QED
  BY <1>1, <1>2

-----------------------------------------------------------------------------
(* Calls, and what plugins and embedders contribute.                       *)

WebTools == {"web_fetch", "web_search"}

\* Every variable has its type.
Typed ==
    /\ plugins \subseteq {"discord", "memini", "web"}
    /\ embedded \in BOOLEAN
    /\ state \in States
    /\ memory \in BOOLEAN
    /\ toolbox \subseteq ToolNames
    /\ built \in BOOLEAN

\* Only build() adds the memory tools, of which an embedder may have one.
Remembering ==
    /\ "memory_recall" \in toolbox => built /\ memory
    /\ built /\ memory => MemoryTools \subseteq toolbox

\* Without an embedder, every tool came with what it needs.
Contributed ==
    ~embedded =>
        /\ \A tool \in toolbox \cap DiscordTools : state.DiscordState = "present"
        /\ \A tool \in toolbox \cap WebTools : "web" \in plugins /\ state.WebState # "none"
        /\ "web_search" \in toolbox => state.WebState = "search"
        /\ \A tool \in toolbox \cap MemoryTools : memory

\* A call that may run is one of a tool that there is, and lacks nothing.
Calling ==
    \/ call = NoCall
    \/ /\ built
       /\ call.at \in {"extracted", "done"}
       /\ call.tool \in ToolNames
       /\ call.at = "extracted" =>
             /\ call.tool \in toolbox
             /\ call.outcome \in {"invalid", "unreadable", "missing", "input"}
             /\ ~embedded => call.outcome # "missing"
       /\ call.at = "done" =>
             /\ call.outcome \in {"unknown", "unconfigured", "error", "ok", "panic"}
             /\ ~embedded => call.outcome # "unconfigured"

\* A call was made with arguments, and taken if their check and the type say so.
Taken ==
    call.at = "extracted" =>
        /\ call.args \in Arguments(call.tool)
        /\ call.outcome \in {"input", "missing"} <=> ExtractInput(call.tool, call.args) = "input"

\* What a web tool answers was made of a page or of results.
Answered ==
    (call.at = "done" /\ call.outcome = "ok") =>
        /\ call.tool = "web_fetch" =>
              /\ call.page \in Pages
              /\ call.max_length \in Nat
              /\ call.answer.content =
                    truncate_text(IF call.plain THEN Joined(Normalise(call.page)) ELSE Joined(call.page),
                                  call.max_length)
        /\ call.tool = "web_search" =>
              /\ call.results \in Results
              /\ call.limit \in Nat
              /\ call.answer = Found(call.results, call.limit)

\* The inductive invariant.
Inv ==
    /\ Typed
    /\ Remembering
    /\ Contributed
    /\ Calling
    /\ Taken
    /\ Answered

-----------------------------------------------------------------------------

\* The names of the tools.
LEMMA Names ==
    ToolNames = MemoryTools \cup DiscordTools \cup WebTools
  BY DEF ToolNames, Inputs, MemoryTools, DiscordTools, WebTools

\* The invariant holds initially.
LEMMA InitInv == Init => Inv
<1> SUFFICES ASSUME Init PROVE Inv
  OBVIOUS
<1>1. Typed /\ Remembering /\ Contributed /\ Calling
  BY DEF Init, Typed, Remembering, Contributed, Calling, States, StateTypes, MemoryTools,
         DiscordTools, WebTools
<1>2. call.at = "idle"
  BY DEF Init, NoCall
<1>3. Taken /\ Answered
  BY <1>2 DEF Taken, Answered
<1> QED
  BY <1>1, <1>3 DEF Inv

\* A plugin is registered, or an embedder contributes: there are no calls yet.
LEMMA ContributeKeeps == Inv /\ Contribute => Inv'
<1> SUFFICES ASSUME Inv, Contribute PROVE Inv'
  OBVIOUS
<1> USE DEF Inv
<1>1. ~built /\ built' = built /\ call' = call
  BY DEF Contribute, RegisterDiscord, RegisterMemini, RegisterWeb, Embed, Registers
<1>2. Calling' /\ Taken' /\ Answered'
  <2>1. Calling'
    BY <1>1 DEF Calling
  <2>2. Taken'
    BY <1>1 DEF Taken
  <2>3. Answered'
    BY <1>1 DEF Answered
  <2> QED
    BY <2>1, <2>2, <2>3
<1>3. CASE RegisterDiscord
  <2>1. Typed'
    BY <1>3, Names DEF RegisterDiscord, Registers, Typed, States
  <2>2. Remembering' /\ Contributed'
    BY <1>3 DEF RegisterDiscord, Registers, Typed, States, Remembering, Contributed, MemoryTools,
                DiscordTools, WebTools
  <2> QED
    BY <1>2, <2>1, <2>2
<1>4. CASE RegisterMemini
  BY <1>2, <1>4 DEF RegisterMemini, Registers, Typed, Remembering, Contributed
<1>5. CASE RegisterWeb
  <2>1. PICK url \in BOOLEAN :
           /\ Registers("web")
           /\ state' = [state EXCEPT !.WebState = IF url THEN "search" ELSE "plain"]
           /\ toolbox' = toolbox \cup IF url THEN {"web_fetch", "web_search"} ELSE {"web_fetch"}
           /\ UNCHANGED memory
    BY <1>5 DEF RegisterWeb
  <2>2. Typed'
    BY <2>1, Names DEF Registers, Typed, States, WebTools
  <2>3. Remembering'
    BY <1>1, <2>1 DEF Remembering
  <2>4. Contributed'
    <3>1. ~embedded => toolbox \cap WebTools = {}
      BY <2>1 DEF Registers, Contributed
    <3>2. /\ state' \in States
          /\ state'.DiscordState = state.DiscordState
          /\ state'.WebState = IF url THEN "search" ELSE "plain"
      BY <2>1, <2>2 DEF Typed, States
    <3> QED
      BY <2>1, <3>1, <3>2 DEF Registers, Contributed, MemoryTools, DiscordTools, WebTools
  <2> QED
    BY <1>2, <2>2, <2>3, <2>4
<1>6. CASE Embed
  <2>1. Typed'
    BY <1>6, Names DEF Embed, Typed, States, MemoryTools, DiscordTools, WebTools
  <2>2. Remembering' /\ Contributed'
    BY <1>1, <1>6 DEF Embed, Remembering, Contributed
  <2> QED
    BY <1>2, <2>1, <2>2
<1> QED
  BY <1>3, <1>4, <1>5, <1>6 DEF Contribute

\* build() contributes the memory tools to whoever has a memory provider.
LEMMA BuildKeeps == Inv /\ Build => Inv'
<1> SUFFICES ASSUME Inv, Build PROVE Inv'
  OBVIOUS
<1>1. Typed' /\ Remembering'
  BY Names DEF Inv, Build, Typed, Remembering, MemoryTools
<1>2. Contributed'
  BY DEF Inv, Build, Contributed, MemoryTools, DiscordTools, WebTools
<1>3. Calling'
  BY DEF Inv, Build, Calling
<1>4. Taken' /\ Answered'
  <2>1. call' = call /\ Taken /\ Answered
    BY DEF Inv, Build
  <2> QED
    BY <2>1 DEF Taken, Answered
<1> QED
  BY <1>1, <1>2, <1>3, <1>4 DEF Inv

\* A tool lacks nothing that came with it.
LEMMA NothingLacks ==
    ASSUME Inv, ~embedded, NEW tool \in toolbox
    PROVE  ~Lacks(tool)
<1>1. tool \in MemoryTools \cup DiscordTools \cup WebTools
  BY Names DEF Inv, Typed
<1>2. CASE tool \in MemoryTools
  BY <1>2 DEF Inv, Contributed, Lacks
<1>3. CASE tool \in DiscordTools
  BY <1>3 DEF Inv, Contributed, Lacks, MemoryTools, DiscordTools
<1>4. CASE tool \in WebTools
  BY <1>4 DEF Inv, Contributed, Lacks, MemoryTools, DiscordTools, WebTools
<1> QED
  BY <1>1, <1>2, <1>3, <1>4

\* Of an extraction comes one of four outcomes, and nothing is missing unless the
\* tool lacks it.
LEMMA ExtractedIs ==
    ASSUME NEW tool, NEW args
    PROVE  /\ Extracted(tool, args) \in {"invalid", "unreadable", "missing", "input"}
           /\ Extracted(tool, args) = "missing" => Lacks(tool)
           /\ Extracted(tool, args) \in {"input", "missing"} <=> ExtractInput(tool, args) = "input"
<1>1. ExtractInput(tool, args) \in {"invalid", "unreadable", "input"}
  BY DEF ExtractInput
<1> QED
  BY <1>1 DEF Extracted

\* A number of a call, or its default.
LEMMA NumberedIs ==
    ASSUME NEW field, NEW default \in Nat, NEW n \in Numbered(field, default)
    PROVE  n \in Nat
<1>1. n \in Limits \/ n = default
  BY DEF Numbered
<1>2. n \in Limits => n \in Nat
  <2>1. Limits \subseteq Nat
    BY ToolsAssumption DEF ToolsAssumption
  <2> QED
    BY <2>1, Zenon
<1> QED
  BY <1>1, <1>2, Zenon

\* The page, the results and the numbers that a web tool answers with.
LEMMA AnswerIs == Run => Answered'
<1> SUFFICES ASSUME Run PROVE Answered'
  OBVIOUS
<1>1. CASE DiscordSend \/ DiscordReact \/ MemoryTool
  <2>1. call'.tool \notin WebTools
    <3>1. CASE DiscordSend
      BY <3>1 DEF DiscordSend, Requested, Done, Runs, WebTools
    <3>2. CASE DiscordReact
      BY <3>2 DEF DiscordReact, Requested, Done, Runs, WebTools
    <3>3. CASE MemoryTool
      BY <3>3 DEF MemoryTool, Done, Runs, MemoryTools, WebTools
    <3> QED
      BY <1>1, <3>1, <3>2, <3>3
  <2> QED
    BY <2>1 DEF Answered, WebTools
<1>2. CASE FetchFails \/ SearchFails
  <2>1. call'.outcome # "ok"
    BY <1>2 DEF FetchFails, SearchFails, Done
  <2> QED
    BY <2>1 DEF Answered
<1>3. CASE Fetch
  <2>1. PICK page \in Pages, isHtml \in BOOLEAN,
             max_length \in Numbered("max_length", DefaultMaxLength), raw \in BOOLEAN :
           call' = [at |-> "done", tool |-> "web_fetch", outcome |-> "ok",
                    page |-> page, plain |-> ~raw /\ isHtml, max_length |-> max_length,
                    answer |-> Fetched(page, raw, isHtml, max_length)]
    BY <1>3 DEF Fetch
  <2>2. max_length \in Nat
    <3>1. DefaultMaxLength \in Nat
      BY DEF DefaultMaxLength
    <3> QED
      BY <3>1, NumberedIs
  <2>3. PICK answer : answer = Fetched(page, raw, isHtml, max_length)
    OBVIOUS
  <2>4. answer.content =
           truncate_text(IF ~raw /\ isHtml THEN Joined(Normalise(page)) ELSE Joined(page), max_length)
    BY <2>3 DEF Fetched
  <2>5. /\ call'.tool = "web_fetch" /\ call'.page = page /\ call'.max_length = max_length
        /\ call'.plain = (~raw /\ isHtml) /\ call'.answer = answer
    BY <2>1, <2>3
  <2> QED
    BY <2>2, <2>4, <2>5 DEF Answered
<1>4. CASE Search
  <2>1. PICK results \in Results, limit \in Numbered("limit", DefaultLimit) :
           call' = [at |-> "done", tool |-> "web_search", outcome |-> "ok",
                    results |-> results, limit |-> limit, answer |-> Found(results, limit)]
    BY <1>4 DEF Search
  <2>2. limit \in Nat
    <3>1. DefaultLimit \in Nat
      BY DEF DefaultLimit
    <3> QED
      BY <3>1, NumberedIs
  <2> QED
    BY <2>1, <2>2 DEF Answered
<1> QED
  BY <1>1, <1>2, <1>3, <1>4 DEF Run

\* A call is made, run or returned: what was contributed stays.
LEMMA CallKeeps ==
    ASSUME Inv, (\E tool \in ToolNames : Call(tool)) \/ Run \/ Return
    PROVE  Inv'
<1> USE DEF Inv
<1>1. UNCHANGED <<plugins, embedded, state, memory, toolbox, built>>
  BY DEF Call, Run, Return, Runs, DiscordSend, DiscordReact, MemoryTool, FetchFails, Fetch,
         SearchFails, Search
<1>2. Typed' /\ Remembering' /\ Contributed'
  BY <1>1 DEF Typed, Remembering, Contributed
<1>3. CASE \E tool \in ToolNames : Call(tool)
  <2>1. PICK tool \in ToolNames : Call(tool)
    BY <1>3
  <2>2. CASE tool \notin toolbox
    <3>1. built /\ call' = [at |-> "done", tool |-> tool, outcome |-> "unknown"]
      BY <2>1, <2>2 DEF Call
    <3>2. Calling'
      BY <1>1, <3>1 DEF Calling
    <3>3. call'.at = "done" /\ call'.outcome = "unknown"
      BY <3>1
    <3>4. Taken' /\ Answered'
      BY <3>3 DEF Taken, Answered
    <3> QED
      BY <1>2, <3>2, <3>4
  <2>3. CASE tool \in toolbox
    <3>1. PICK args \in Arguments(tool) :
             call' = [at |-> "extracted", tool |-> tool, args |-> args,
                      outcome |-> Extracted(tool, args)]
      BY <2>1, <2>3 DEF Call
    <3>2. /\ Extracted(tool, args) \in {"invalid", "unreadable", "missing", "input"}
          /\ ~embedded => Extracted(tool, args) # "missing"
      BY <2>3, ExtractedIs, NothingLacks
    <3>3. /\ call'.at = "extracted" /\ call'.tool = tool
          /\ call'.outcome = Extracted(tool, args)
      BY <3>1
    <3>4. built
      BY <2>1 DEF Call
    <3>5. Calling'
      BY <1>1, <2>3, <3>2, <3>3, <3>4 DEF Calling
    <3>6. call'.args = args
      BY <3>1
    <3>7. Extracted(tool, args) \in {"input", "missing"} <=> ExtractInput(tool, args) = "input"
      BY ExtractedIs
    <3>8. Taken' /\ Answered'
      BY <3>3, <3>6, <3>7 DEF Taken, Answered
    <3> QED
      BY <1>2, <3>5, <3>8
  <2> QED
    BY <2>2, <2>3
<1>4. CASE Run
  <2>1. /\ call.at = "extracted" /\ call # NoCall
        /\ call.outcome = "input"
    <3>1. \E tool \in ToolNames : Runs(tool)
      BY <1>4, Names DEF Run, DiscordSend, DiscordReact, MemoryTool, FetchFails, Fetch,
                         SearchFails, Search, DiscordTools, WebTools
    <3>2. call.at = "extracted" /\ call.outcome = "input"
      BY <3>1 DEF Runs
    <3>3. NoCall.at # "extracted"
      BY DEF NoCall
    <3> QED
      BY <3>2, <3>3
  <2>2. built /\ call.tool \in ToolNames /\ call.tool \in toolbox
    BY <2>1 DEF Calling
  <2>3. /\ call'.at = "done" /\ call'.tool = call.tool
        /\ call'.outcome \in {"error", "ok", "panic", "unconfigured"}
        /\ call'.outcome = "unconfigured" => call.tool = "web_search" /\ state.WebState = "plain"
    <3>1. CASE DiscordSend
      BY <3>1 DEF DiscordSend, Requested, Done
    <3>2. CASE DiscordReact
      BY <3>2 DEF DiscordReact, Requested, Done
    <3>3. CASE MemoryTool
      BY <3>3 DEF MemoryTool, Done
    <3>4. CASE FetchFails
      BY <3>4 DEF FetchFails, Done
    <3>5. CASE Fetch
      BY <3>5 DEF Fetch, Runs
    <3>6. CASE SearchFails
      BY <3>6 DEF SearchFails, Runs, Done
    <3>7. CASE Search
      BY <3>7 DEF Search, Runs
    <3> QED
      BY <1>4, <3>1, <3>2, <3>3, <3>4, <3>5, <3>6, <3>7 DEF Run
  <2>4. ~embedded => call'.outcome # "unconfigured"
    BY <2>2, <2>3 DEF Contributed
  <2>5. Calling'
    BY <1>1, <2>2, <2>3, <2>4 DEF Calling
  <2>6. Taken'
    BY <2>3 DEF Taken
  <2>7. Answered'
    BY <1>4, AnswerIs
  <2> QED
    BY <1>2, <2>5, <2>6, <2>7
<1>5. CASE Return
  <2>1. call' = NoCall /\ call'.at = "idle"
    BY <1>5 DEF Return, NoCall
  <2>2. Calling' /\ Taken' /\ Answered'
    BY <2>1 DEF Calling, Taken, Answered
  <2> QED
    BY <1>2, <2>2
<1> QED
  BY <1>3, <1>4, <1>5

\* Every step keeps the invariant.
LEMMA NextInv == Inv /\ [Next]_vars => Inv'
<1> SUFFICES ASSUME Inv, [Next]_vars PROVE Inv'
  OBVIOUS
<1>1. CASE UNCHANGED vars
  BY <1>1 DEF vars, Inv, Typed, Remembering, Contributed, Calling, Taken, Answered
<1> QED
  BY <1>1, ContributeKeeps, BuildKeeps, CallKeeps DEF Next

\* The invariant holds in every reachable state.
THEOREM Invariance == Spec => []Inv
  BY InitInv, NextInv, PTL DEF Spec

\* Every reachable state of the toolbox is well typed; the memory tools are there
\* just when a memory provider is (AgentBuilder::build).
THEOREM TypeCorrect == Spec => []TypeOK
<1>1. ASSUME Inv PROVE TypeOK
  <2>1. /\ plugins \subseteq {"discord", "memini", "web"} /\ embedded \in BOOLEAN
        /\ state \in States /\ memory \in BOOLEAN /\ toolbox \subseteq ToolNames /\ built \in BOOLEAN
    BY <1>1 DEF Inv, Typed
  <2>2. built => (memory <=> MemoryTools \subseteq toolbox)
    BY <1>1 DEF Inv, Remembering, MemoryTools
  <2>3. /\ call.at \in {"idle", "extracted", "done"}
        /\ call # NoCall => built /\ call.tool \in ToolNames
        /\ call.at = "extracted" => call.outcome \in {"invalid", "unreadable", "missing", "input"}
        /\ call.at = "done" => call.outcome \in {"unknown", "unconfigured", "error", "ok", "panic"}
    BY <1>1 DEF Inv, Calling, NoCall
  <2> QED
    BY <2>1, <2>2, <2>3 DEF TypeOK
<1> QED
  BY <1>1, Invariance, PTL

\* In whatever order plugins are registered, every tool that the model is offered
\* finds its state, its provider and its service when it is called; what an
\* embedder contributes may lack them (AgentBuilder, the plugins' build, and the
\* extractors of livvi-core::tool).
THEOREM ToolsReadyHolds == Spec => []ToolsReady
<1>1. ASSUME Inv PROVE ToolsReady
  BY <1>1 DEF Inv, Calling, ToolsReady
<1> QED
  BY <1>1, Invariance, PTL

\* Whatever tool is called and with whatever value in a field, the definition that
\* the provider was sent and the check of the call agree, but for what the
\* definition cannot say (common.rs, FromToolContext for Input, the input types).
THEOREM SchemaFaithfulHolds == Spec => []SchemaFaithful
<1>1. ASSUME Inv PROVE SchemaFaithful
  <2> SUFFICES ASSUME call.at = "extracted" PROVE SchemaFaithful
    BY DEF SchemaFaithful
  <2>1. call # NoCall
    BY DEF NoCall
  <2>2. /\ call.tool \in ToolNames /\ call.args \in Arguments(call.tool)
        /\ call.outcome \in {"input", "missing"} <=> ExtractInput(call.tool, call.args) = "input"
    BY <1>1, <2>1 DEF Inv, Calling, Taken
  <2>3. Called(call.tool, call.args)
    BY <2>2, ArgumentsAre
  <2> QED
    BY <2>2, <2>3, SchemaAgrees DEF SchemaFaithful
<1> QED
  BY <1>1, Invariance, PTL

\* Every page and every list of results is answered faithfully, up to the length
\* or number that was asked for (normalize_whitespace, truncate_text, WebSearch).
THEOREM AnswersFaithfulHolds == Spec => []AnswersFaithful
<1>1. ASSUME Inv PROVE AnswersFaithful
  <2> SUFFICES ASSUME call.at = "done", call.outcome = "ok" PROVE AnswersFaithful
    BY DEF AnswersFaithful
  <2>1. ASSUME call.tool = "web_fetch"
        PROVE  LET text == Joined(IF call.plain THEN Readable(call.page) ELSE call.page)
                   chars == call.answer.content.chars
               IN  IF call.max_length = 0 \/ Len(text) <= call.max_length
                   THEN chars = text
                   ELSE /\ chars = SubSeq(text, 1, call.max_length)
                        /\ call.answer.content.marked
    <3>1. /\ call.page \in Pages /\ call.max_length \in Nat
          /\ call.answer.content =
                truncate_text(IF call.plain THEN Joined(Normalise(call.page)) ELSE Joined(call.page),
                              call.max_length)
      BY <1>1, <2>1 DEF Inv, Answered
    <3>2. PICK C : C = {" ", "a", "wide"}
      OBVIOUS
    <3>3. call.page \in Seq(Seq(C))
      BY <3>1, <3>2, PagesAre
    <3>4. PICK lines : lines = IF call.plain THEN Readable(call.page) ELSE call.page
      OBVIOUS
    <3>5. lines \in Seq(Seq(C)) /\ Normalise(call.page) = Readable(call.page)
      BY <3>3, <3>4, NormaliseReads
    <3>6. call.answer.content = truncate_text(Joined(lines), call.max_length)
      BY <3>1, <3>4, <3>5
    <3>7. Joined(lines) \in Seq(C \cup {"newline"})
      BY <3>5, JoinedIs
    <3> QED
      BY <3>1, <3>4, <3>6, <3>7, TruncateFacts
  <2>2. ASSUME call.tool = "web_search"
        PROVE  LET usable == {i \in DOMAIN call.results : call.results[i] # ""}
                   shown == {i \in usable : Cardinality({j \in usable : j < i}) < call.limit}
                   order == Ascending(shown)
               IN  call.answer = [k \in DOMAIN order |-> call.results[order[k]]]
    <3>1. call.results \in Results /\ call.limit \in Nat /\ call.answer = Found(call.results, call.limit)
      BY <1>1, <2>2 DEF Inv, Answered
    <3>2. call.results \in Seq(URLs)
      BY <3>1, ResultsAre
    <3>3. call.answer = Picked(call.results, Ascending(Shown(call.results, call.limit)))
      BY <3>1, <3>2, FoundIs
    <3> QED
      BY <3>3 DEF Picked, Shown, Usable
  <2> QED
    BY <2>1, <2>2 DEF AnswersFaithful
<1> QED
  BY <1>1, Invariance, PTL

=============================================================================
