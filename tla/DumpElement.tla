---------------------------- MODULE DumpElement ----------------------------
(***************************************************************************)
(* The dump core: which element _compiler.py builds for a field and        *)
(* src/dump/parsing.rs reads back (HasElement, Variant), and how           *)
(* src/dump/serializer.rs serializes one record with them, to a dict       *)
(* (RunOne, Apply) or to JSON text (WriteJsonOne, WriteJson), with         *)
(* write_json_value of src/json_writer.rs.                                 *)
(*                                                                         *)
(* One behaviour is one record through Schema.dump or Schema.dumps: the    *)
(* writer, then, when it defers, the serializer, then, when that defers,   *)
(* marshmallow itself.  Each serializes the record the last one left.      *)
(***************************************************************************)
EXTENDS StockSerialize

CONSTANTS
  Cases,       \* sets of schemas, each as the Nested field of one, with their records
  DepthLimit   \* JSON_DEPTH_LIMIT, 512 in the code

VARIABLES schema, entry, given, current, stage, result

vars == <<schema, entry, given, current, stage, result>>

Pending == [o |-> "pending", v |-> NoneVal]

-----------------------------------------------------------------------------
(* The element tags; they differ from the load tags. *)
Tags == [Raw |-> 0, Boolean |-> 0, String |-> 1, Integer |-> 2, Float |-> 3, Nested |-> 4, List |-> 5,
         UUID |-> 6, Temporal |-> 7, Enum |-> 8, Decimal |-> 9, Dict |-> 10, Constant |-> 11,
         TimeDelta |-> 12, DictTyped |-> 13, Tuple |-> 14, Pluck |-> 15, IP |-> 16, TemporalNative |-> 17]

(* Schemas _build_element and _build_payload leave to marshmallow. *)
Blocked(f) == f.opts \cap {"hooked", "overrides", "dict_class", "recursive"} # {}

(* What _build_element makes of a field that it can build. *)
Built(f) ==
  CASE f.kind \in {"DateTime", "Date", "Time"} -> IF "iso" \in f.opts THEN "TemporalNative" ELSE "Temporal"
    [] f.kind = "Dict" -> IF f.inner = <<NoField, NoField>> THEN "Dict" ELSE "DictTyped"
    [] OTHER -> f.kind

(* Whether it can: an element around others needs those, a schema makes    *)
(* callbacks of the fields that have none.  Without a key or value field   *)
(* the entries of a Dict are passed on.                                    *)
HasElement(elements, f) ==
  CASE f.kind = "Foreign" -> FALSE
    [] f.kind \in {"Nested", "Pluck"} -> ~Blocked(f)
    [] f.kind = "Dict" ->
         /\ "mapping_type" \notin f.opts
         /\ f.inner = <<NoField, NoField>> \/ \A j \in DOMAIN f.inner : f.inner[j] \in DOMAIN elements
    [] f.kind \in {"List", "Tuple", "Enum"} -> \A j \in DOMAIN f.inner : f.inner[j] \in DOMAIN elements
    [] OTHER -> TRUE

(* A field of _build_payload that is a callback. *)
Callback(elements, opts, f) ==
  "get_attribute" \in opts \/ "callable_default" \in f.opts \/ f \notin DOMAIN elements

(* parse_element: the variants by tag. *)
Variants ==
  <<"Passthrough", "Str", "Int", "Float", "Nested", "List", "Uuid", "Temporal", "Enum", "Decimal",
    "Dict", "Constant", "TimeDelta", "DictTyped", "Tuple", "Pluck", "IpAddr", "TemporalNative">>

Variant(f) == IF f.kind = "None" THEN "Absent" ELSE Variants[Tags[Built(f)] + 1]

(* parse_field_spec, which escapes the key for the writer. *)
JsonString(a) ==
  Val("text", IF a \in DOMAIN CodePoints
              THEN ToString(JsonEscapeInto(FlattenSeq([j \in DOMAIN CodePoints[a] |-> Utf8(CodePoints[a][j])])))
              ELSE a)
-----------------------------------------------------------------------------
(* is_list_like, is_one_shot_iterator and the guard N1 built on it. *)
IsListLike(v) == v.t \in {"list", "tuple"}
IsOneShotIterator(v) == v.t = "iter"

(* Mutant: a List walks into the iterator. *)
DefersUnreadNested(f, v) == f.kind \in {"Nested", "Pluck"} /\ "many" \in f.opts /\ IsOneShotIterator(v)

DefersUnread(f, v) ==
  /\ f.kind = "List" \/ (f.kind \in {"Nested", "Pluck"} /\ "many" \in f.opts)
  /\ IsOneShotIterator(v)

(* One field of Serializer::run_one, whose elements are of level n: a      *)
(* callback, or the element on what get_value gives.                       *)
RunSpec(elements, n, opts, f, obj) ==
  IF Callback(elements, opts, f) THEN SerializeField(SerializeTo[n], opts, f, obj)
  ELSE Then(GetValue(obj, f.name), LAMBDA v :
         IF WithDefault(f, v) = Missing THEN Skip ELSE elements[f][WithDefault(f, v)])

RunSpecs(elements, n, f, obj) ==
  [j \in DOMAIN f.inner |-> RunSpec(elements, n, f.opts, f.inner[j], obj)]
RunOne(elements, n, f, obj) == RecordOf("dict", Names(f.inner), RunSpecs(elements, n, f, obj))

(* Serializer::run. *)
Run(elements, n, f, v) ==
  IF "many" \in f.opts
  THEN Comprehension(v, [j \in DOMAIN v.c |-> RunOne(elements, n, f, Each(v)[j])])
  ELSE RunOne(elements, n, f, v)

(* Numbers that are exactly of the type are passed on without a call. *)
ApplyNumber(f, type, v) ==
  IF "as_string" \notin f.opts /\ v.t = type THEN Ok(v) ELSE AsString(f, Call(type, v))

ApplyEnum(elements, f, v) ==
  IF v.t # "enum" THEN Raise
  ELSE elements[f.inner[1]][IF "by_value" \in f.opts THEN v.c[1].v ELSE Val("str", v.a)]

(* An entry, its key and then its value; out.set_item fails on an unhashable key. *)
SetMember(k, v) ==
  IF k.o \in Stops THEN k ELSE IF v.o = "ok" /\ ~Hashable(k.v) THEN Raise ELSE v

TypedEntries(keys, vals) ==
  AllOk([j \in DOMAIN keys |-> SetMember(keys[j], vals[j])], Assigned(Vals(keys), Vals(vals)))

ApplyDictTyped(elements, f, v) ==
  IF ~Mapping(v) THEN Defer
  ELSE TypedEntries([j \in DOMAIN v.c |-> elements[f.inner[1]][v.c[j].k]],
                    [j \in DOMAIN v.c |-> elements[f.inner[2]][v.c[j].v]])

ApplyTuple(elements, f, v) ==
  IF ~IsListLike(v) \/ Len(v.c) # Len(f.inner) THEN Defer
  ELSE Collected("tuple", [j \in DOMAIN v.c |-> elements[f.inner[j]][v.c[j].v]])

(* The field's type of value; a datetime is a date, too. *)
NativeType(f) == CASE f.kind = "DateTime" -> "datetime" [] f.kind = "Date" -> "date" [] f.kind = "Time" -> "time"
NativeText(v) == ToString(WriteTemporal(Moments[v.a]))

ApplyValue(elements, n, f, v) ==
  LET variant == Variant(f)
  IN  CASE variant = "Str" -> IF v.t = "bytes" THEN Call("decode", v) ELSE Ok(Str(v))
        [] variant \in {"Uuid", "IpAddr"} -> Ok(Str(v))
        [] variant = "Int" -> ApplyNumber(f, "int", v)
        [] variant = "Float" -> ApplyNumber(f, "float", v)
        [] variant = "Temporal" -> Call("strftime", v)
        [] variant = "TemporalNative" -> IF v.t = NativeType(f) THEN Ok(Val("str", NativeText(v))) ELSE Defer
        [] variant = "Enum" -> ApplyEnum(elements, f, v)
        [] variant = "Dict" -> DictCall(v)
        [] variant = "DictTyped" -> ApplyDictTyped(elements, f, v)
        [] variant = "Tuple" -> ApplyTuple(elements, f, v)
        [] variant = "List" -> Comprehension(v, [j \in DOMAIN v.c |-> elements[f.inner[1]][Each(v)[j]]])
        [] variant = "Nested" -> Run(elements, n, f, v)
        [] variant = "Pluck" -> Then(Run(elements, n, f, v), LAMBDA ret : Pluck(f, ret))

(* Element::apply; Decimal and TimeDelta call the field's own _serialize. *)
Apply(elements, n, f, v) ==
  IF Variant(f) \in {"Passthrough", "Absent"} THEN Ok(v)
  ELSE IF Variant(f) = "Constant" THEN Ok(f.default)
  ELSE IF Variant(f) \in {"Decimal", "TimeDelta"} THEN SerializeValue(SerializeTo[n], f, v)
  ELSE IF v = NoneVal THEN Ok(NoneVal)
  ELSE IF DefersUnread(f, v) THEN Defer
  ELSE ApplyValue(elements, n, f, v)

(* The elements there are of fields of n levels, and what they make of which value. *)
ElementsLevel(elements, n) ==
  [f \in {g \in FieldsTo[n] : HasElement(elements, g)} |-> [v \in Values |-> Apply(elements, n - 1, f, v)]]
Elements[n \in Nat] == IF n = 0 THEN <<>> ELSE ElementsLevel(Elements[n - 1], n)

-----------------------------------------------------------------------------
(* A string with a lone surrogate has no UTF-8: to_str fails with a UnicodeEncodeError. *)
LoneSurrogate(a) ==
  a \in DOMAIN CodePoints /\ \E j \in DOMAIN CodePoints[a] : Surrogate(CodePoints[a][j])
WriteString(v) == IF LoneSurrogate(v.a) THEN Raise ELSE Ok(JsonString(v.a))

WriteKey(k) == IF k.t \in {"str", "substr"} THEN WriteString(k) ELSE Defer

WriteJsonValue(write, v) ==
  CASE Atomic(v) -> Ok(v)
    [] v.t = "str" -> WriteString(v)
    [] v.t \in {"list", "tuple"} -> Collected("list", [j \in DOMAIN v.c |-> write[v.c[j].v]])
    [] Mapping(v) -> Object([j \in DOMAIN v.c |-> WriteKey(v.c[j].k)], [j \in DOMAIN v.c |-> write[v.c[j].v]])
    [] OTHER -> Defer

(* n counts the levels down to where the writer gives up. *)
WriteLevel(write, n) == [v \in Outputs |-> WriteJsonValue(write, v)]
WriteTo[n \in Nat] == IF n = 0 THEN [v \in Outputs |-> Defer] ELSE WriteLevel(WriteTo[n - 1], n)

(* Mutant: the first level is not counted. *)
DeeperLimit == DepthLimit + 2

TopLevel == DepthLimit + 1

Written(r) == IF r.o = "ok" THEN WriteTo[TopLevel][r.v] ELSE r

(* One field of Serializer::write_json_one, whose writers are of level n. *)
WriteSpec(writers, n, opts, f, obj) ==
  IF Callback(writers, opts, f) THEN Written(SerializeField(SerializeTo[n], opts, f, obj))
  ELSE Then(GetValue(obj, f.name), LAMBDA v :
         IF WithDefault(f, v) = Missing THEN Skip ELSE writers[f][WithDefault(f, v)])

JsonKeys(f) == [j \in DOMAIN f.inner |-> JsonString(f.inner[j].name.a)]
WriteSpecs(writers, n, f, obj) ==
  [j \in DOMAIN f.inner |-> WriteSpec(writers, n, f.opts, f.inner[j], obj)]
WriteJsonOne(writers, n, f, obj) == RecordOf("dict", JsonKeys(f), WriteSpecs(writers, n, f, obj))

(* Element::write_json: a Nested and a List recurse, a native time is clean text. *)
WriteJson(writers, n, f, v) ==
  IF Variant(f) \notin {"Nested", "List", "TemporalNative"} THEN Written(Elements[n + 1][f][v])
  ELSE IF v = NoneVal THEN Ok(NoneVal)
  ELSE IF DefersUnread(f, v) THEN Defer
  ELSE CASE Variant(f) = "TemporalNative" ->
              IF v.t = NativeType(f) THEN Ok(Val("text", NativeText(v))) ELSE Defer
         [] Variant(f) = "List" -> Comprehension(v, [j \in DOMAIN v.c |-> writers[f.inner[1]][Each(v)[j]]])
         [] Variant(f) = "Nested" ->
              IF "many" \in f.opts
              THEN Comprehension(v, [j \in DOMAIN v.c |-> WriteJsonOne(writers, n, f, Each(v)[j])])
              ELSE WriteJsonOne(writers, n, f, v)

WritersLevel(writers, n) ==
  [f \in DOMAIN Elements[n] |-> [v \in Values |-> WriteJson(writers, n - 1, f, v)]]
Writers[n \in Nat] == IF n = 0 THEN <<>> ELSE WritersLevel(Writers[n - 1], n)

-----------------------------------------------------------------------------
(***************************************************************************)
(* What an attempt leaves of the record: the iterators that were read, by  *)
(* the fields up to the one that stopped it, are at their end.             *)
(***************************************************************************)
Iterates(f) ==
  \/ f.kind \in {"List", "Tuple", "Foreign"}
  \/ f.kind = "Dict" /\ f.inner = <<NoField, NoField>>
  \/ f.kind \in {"Nested", "Pluck"} /\ "many" \in f.opts

Reads(opts, f, v) ==
  /\ IsOneShotIterator(v) /\ Iterates(f) /\ "get_attribute" \notin opts
  /\ Callback(Elements[Levels], opts, f) \/ ~(DefersUnread(f, v) \/ f.kind = "Tuple")

LeftBy(f, outs, record) ==
  LET Read(m) ==
        \E j \in DOMAIN f.inner : /\ f.inner[j].name = m.k /\ Reads(f.opts, f.inner[j], m.v)
                                  /\ \A l \in 1..j - 1 : outs[l].o \notin Stops
  IN  [record EXCEPT !.c = [j \in DOMAIN record.c |->
         IF Read(record.c[j]) THEN Entry(record.c[j].k, Container("iter", <<>>)) ELSE record.c[j]]]

(* An iterator is met as an attribute of the record, not within another value. *)
NoIterator[n \in Nat] ==
  IF n = 0 THEN {}
  ELSE {v \in ValuesTo[n] : v.t # "iter" /\ \A j \in DOMAIN v.c : v.c[j].v \in NoIterator[n - 1]}

ASSUME CasesAssumption ==
  \A case \in Cases :
    /\ \A s \in case.schemas : s \in FieldsTo[Levels + 1] /\ s.kind = "Nested"
    /\ \A r \in case.records :
         /\ r \in ValuesTo[ValueDepth + 1]
         /\ \A j \in DOMAIN r.c :
              \A l \in DOMAIN r.c[j].v.c : r.c[j].v.c[l].v \in NoIterator[ValueDepth]

(* A text of the core is a string, and no text of a time is escaped. *)
ASSUME TextAssumption ==
  /\ DepthLimit \in Nat \ {0}
  /\ \A a \in DOMAIN CodePoints : JsonString(a).a \in STRING /\ StringText(a).a \in STRING
  /\ \A a \in DOMAIN Moments :
       LET text == ToString(WriteTemporal(Moments[a])) IN text \in STRING \ DOMAIN CodePoints

(* json.dumps gives up no earlier than the writer, below the fields of a schema. *)
ASSUME PyDepthAssumption == 2 * Levels + DepthLimit <= PyDepth

Init ==
  \E case \in Cases :
    /\ schema \in case.schemas /\ given \in case.records /\ current = given
    /\ entry \in {"dump", "dumps"} /\ result = Pending
    /\ stage = IF Blocked(schema) THEN "stock" ELSE IF entry = "dumps" THEN "json" ELSE "run"

Keep == UNCHANGED <<schema, entry, given>>

End(r) == stage' = "done" /\ result' = r /\ UNCHANGED current

Retry(next, outs) ==
  stage' = next /\ current' = LeftBy(schema, outs, current) /\ UNCHANGED result

Answered(r) == IF entry = "dumps" /\ r.o = "ok" THEN DumpsTo[PyDepth + 1][r.v] ELSE r

(* DumpSerializer.run_json. *)
RunJson ==
  /\ stage = "json" /\ Keep
  /\ LET r == WriteJsonOne(Writers[Levels], Levels, schema, current)
     IN  IF r = Defer THEN Retry("run", WriteSpecs(Writers[Levels], Levels, schema, current)) ELSE End(r)

(* Mutant: no except clause, as the dump core once had "no AccelFallback". *)
RunDictUncaught ==
  /\ stage = "run" /\ Keep
  /\ End(Answered(RunOne(Elements[Levels], Levels, schema, current)))

(* DumpSerializer.run, and json.dumps of its dict. *)
RunDict ==
  /\ stage = "run" /\ Keep
  /\ LET r == RunOne(Elements[Levels], Levels, schema, current)
     IN  IF r = Defer THEN Retry("stock", RunSpecs(Elements[Levels], Levels, schema, current))
         ELSE End(Answered(r))

Stock(record) == SerializeRecord(SerializeTo[Levels], schema, record)

RunStock == stage = "stock" /\ Keep /\ End(Answered(Stock(current)))

Next == RunJson \/ RunDict \/ RunStock

Spec == Init /\ [][Next]_vars

-----------------------------------------------------------------------------
(* A call that ended has a value or raised: no AccelFallback leaves it. *)
TypeOK ==
  /\ entry \in {"dump", "dumps"} /\ stage \in {"json", "run", "stock", "done"}
  /\ DOMAIN current.c = DOMAIN given.c
  /\ result = Pending <=> stage # "done"
  /\ stage = "done" => result.o \in {"ok", "raise"}

(***************************************************************************)
(* README.md:7-9 and 51-54: whichever of the three ends the call, the      *)
(* value, the text or the error is that of marshmallow and json.dumps on   *)
(* the record as it was given.                                             *)
(***************************************************************************)
DumpsLikeStock == stage = "done" => result = Answered(Stock(given))

(***************************************************************************)
(* N1 (src/dump/serializer.rs:296-300, 457-459): an attempt that defers    *)
(* leaves the record as it found it, so that the next one sees the same.   *)
(***************************************************************************)
RerunsSeeTheSame == stage \in {"run", "stock"} => current = given

(***************************************************************************)
(* R3 (src/json_writer.rs:127-130): the writer nests no deeper than the    *)
(* fields of the schema, in two levels for each of theirs, and the limit,  *)
(* whatever the depth of the values in the record.                         *)
(***************************************************************************)
BoundedNesting ==
  stage = "json" =>
    LET r == WriteJsonOne(Writers[Levels], Levels, schema, current)
    IN  r.o = "ok" =>
          \A n \in 1..Levels : schema \in FieldsTo[n + 1] => r.v \in ValuesTo[2 * n + DepthLimit]

-----------------------------------------------------------------------------
(***************************************************************************)
(* What DumpElementProofs assumes of the constants: where it fails, the    *)
(* core is not marshmallow; README.md, "Hypotheses".                       *)
(***************************************************************************)
(* A Constant is declared under no attribute whose reading raises: the core *)
(* reads it (src/dump/serializer.rs), marshmallow does not.                 *)
QuietConstants == ConstantNames \cap Raising = {}

(* No string has a lone surrogate, which json.dumps escapes and to_str refuses. *)
Encodable == \A a \in DOMAIN CodePoints : ~LoneSurrogate(a)

(* An iterator is met by no field that reads it before it can defer. *)
GuardedIterators ==
  \A case \in Cases : \A s \in case.schemas : \A record \in case.records :
    \A j \in DOMAIN s.inner : \A m \in DOMAIN record.c :
      s.inner[j].name = record.c[m].k /\ IsOneShotIterator(record.c[m].v) /\ Iterates(s.inner[j]) =>
        \/ "get_attribute" \in s.opts
        \/ s.inner[j].kind # "Dict" /\ ~Callback(Elements[Levels], s.opts, s.inner[j])
=============================================================================
