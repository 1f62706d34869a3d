---------------------------- MODULE LoadElement ----------------------------
(***************************************************************************)
(* The elements of src/load/element.rs: which one _compiler.py builds for  *)
(* a field and src/load/parsing.rs reads back (HasElement, Variant), how   *)
(* the core converts a Python value with it (Apply) or a parsed JSON value *)
(* (ApplyJson), and what the validators of src/load/validators.rs decide.  *)
(*                                                                         *)
(* One behaviour is one value of one field: the field is compiled, the     *)
(* core converts the value from a dict or off the JSON tree, and the       *)
(* result is compared with StockField's.  The inner schema of a Nested has *)
(* one required field and unknown=RAISE; LoadRecord and JsonRecord have    *)
(* the loop over any number of fields.                                     *)
(***************************************************************************)
EXTENDS StockField

CONSTANTS
  Fields,      \* the fields of the schema
  DictInputs,  \* what a record may hold for a field
  JsonInputs   \* what a JSON object may hold for it

ASSUME InputsAssumption ==
  /\ \A f \in Fields : f \in FieldsTo[Levels]
  /\ \A v \in DictInputs : v \in Values
  /\ \A jv \in JsonInputs : jv \in JsonValues

VARIABLES field, source, value, partial, result

vars == <<field, source, value, partial, result>>

Pending == [o |-> "pending", v |-> NoneVal]

-----------------------------------------------------------------------------
(***************************************************************************)
(* _build_load_element and parse_load_element: the elements by tag.        *)
(***************************************************************************)
(* The element tags; they differ from the dump tags. *)
Tags == [Raw |-> 0, String |-> 1, Int |-> 2, Float |-> 3, Nested |-> 4, List |-> 5, Enum |-> 6,
         UUID |-> 7, Temporal |-> 8, Decimal |-> 9, Dict |-> 10, Constant |-> 11, Boolean |-> 12,
         IntStrict |-> 13, DictTyped |-> 14, Tuple |-> 15, Pluck |-> 16, TimeDelta |-> 17,
         AwareDateTime |-> 18, IP |-> 19, NestedPostLoad |-> 20]

Variants ==
  <<"Passthrough", "Str", "Int", "Float", "Nested", "List", "Enum", "Uuid", "Temporal", "Decimal",
    "Dict", "Constant", "Boolean", "IntStrict", "DictTyped", "Tuple", "Pluck", "TimeDelta",
    "DatetimeAwareness", "IpAddr", "NestedPostLoad">>

(* What _build_load_element makes of a field that it can build. *)
Built(f) ==
  CASE f.kind = "Integer" -> IF "strict" \in f.opts THEN "IntStrict" ELSE "Int"
    [] f.kind = "Dict" -> IF f.inner = <<NoField, NoField>> THEN "Dict" ELSE "DictTyped"
    [] f.kind = "Nested" -> IF "post_load" \in f.opts THEN "NestedPostLoad" ELSE "Nested"
    [] OTHER -> f.kind

Variant(f) == IF f.kind = "None" THEN "Absent" ELSE Variants[Tags[Built(f)] + 1]

(* Mutant: the inner validators of a List or Tuple do not count. *)
HasFieldProcessorsNoValidators(f) == Processed(f)

HasFieldProcessors(f) == f.vals # <<>> \/ Processed(f)

(* Whether it can build the field: what is around others needs their       *)
(* elements, a schema makes callbacks of the fields that have none.  Of    *)
(* the hooks only post_load can be compiled, and not for Pluck.            *)
HasElement(elements, f) ==
  CASE f.kind = "Foreign" -> FALSE
    [] f.kind = "Nested" -> "hooked" \notin f.opts
    [] f.kind = "Pluck" -> f.opts \cap {"hooked", "post_load"} = {}
    [] f.kind \in {"List", "Tuple"} ->
         \A j \in DOMAIN f.inner : ~HasFieldProcessors(f.inner[j]) /\ f.inner[j] \in DOMAIN elements
    [] f.kind = "Dict" -> \A j \in DOMAIN f.inner : ~Processed(f.inner[j]) /\ f.inner[j] \in DOMAIN elements
    [] f.kind = "Enum" -> f.inner[1] \in DOMAIN elements
    [] OTHER -> TRUE

(* _build_load_payload, one field: a callback if it has its own processors. *)
Callback(elements, f) == Processed(f) \/ f \notin DOMAIN elements

(* A validator as a tuple, of its tag and its arguments. *)
BuildValidator(val) ==
  CASE val.kind = "Range" -> <<0, val.min, val.max, val.min_inclusive, val.max_inclusive>>
    [] val.kind = "Length" -> <<1, val.min, val.max, val.equal>>
    [] val.kind = "OneOf" -> <<2, val.choices>>
    [] val.kind = "Equal" -> <<3, val.choices>>
    [] val.kind = "NoneOf" -> <<4, val.choices>>
    [] val.kind = "ContainsOnly" -> <<5, val.choices>>
    [] val.kind = "Callable" -> <<6, val.choices>>

(* parse_validator: the kinds by tag. *)
ParseValidator(t) ==
  CASE t[1] = 0 -> [kind |-> "Range", min |-> t[2], max |-> t[3],
                    min_inclusive |-> t[4], max_inclusive |-> t[5]]
    [] t[1] = 1 -> [kind |-> "Length", min |-> t[2], max |-> t[3], equal |-> t[4]]
    [] t[1] \in 2..6 -> [kind |-> <<"OneOf", "Equal", "NoneOf", "ContainsOnly", "Python">>[t[1] - 1],
                         choices |-> t[2]]

-----------------------------------------------------------------------------
(* Validator::check: "pass", "fail", or the exception that came out of it. *)
CheckRange(val, n) ==
  LET Below(m) == IF val.min_inclusive THEN n < m ELSE n <= m
      Above(m) == IF val.max_inclusive THEN n > m ELSE n >= m
  IN  ~(\E m \in val.min : Below(m)) /\ ~(\E m \in val.max : Above(m))

Check(val, v) ==
  CASE val.kind \in {"OneOf", "Equal"} -> Membership(In(v, val.choices), "pass", "fail", "raise")
    [] val.kind = "NoneOf" -> Membership(In(v, val.choices), "fail", "pass", "pass")
    [] val.kind = "Range" /\ val.min \cup val.max = {} -> "pass"
    [] OTHER ->
         IF v.t = "evil" THEN "interrupt"
         ELSE CASE val.kind = "Range" ->
                     IF Numeric(v) THEN Verdict(v.a = "nan" \/ CheckRange(val, Number(v.a))) ELSE "raise"
                [] val.kind = "Length" ->
                     IF Sized(v) THEN Verdict(~LengthFails(val, Length(v))) ELSE "raise"
                [] val.kind = "ContainsOnly" -> IF ListLike(v) THEN OnlyIn(v, val.choices) ELSE "raise"
                [] val.kind = "Python" -> Verdict(v \notin val.choices.members)

(* check_validators: the first that does not pass decides. *)
Decide(verdicts, v) ==
  IF ~Some(verdicts, {"fail", "raise", "interrupt"}) THEN Ok(v)
  ELSE IF FirstIn(verdicts, {"fail", "raise", "interrupt"}).o = "interrupt" THEN Interrupted
  ELSE Defer

CheckValidators(f, r) ==
  Then(r, LAMBDA v :
         Decide([j \in DOMAIN f.vals |-> [o |-> Check(ParseValidator(BuildValidator(f.vals[j])), v)]], v))

(* Mutant of ToFallback: a ValidationError passes through. *)
ToFallbackNever(r) == r

(* to_fallback: what an exception raised by Python code becomes. *)
ToFallback(r) == IF r.o \in {"ok", "interrupt"} THEN r ELSE Defer

(* The items of a container in order, up to the first that does not convert. *)
Stops == {"defer", "raise", "interrupt"}
UpToStop(outs) == IF Some(outs, Stops) THEN FirstIn(outs, Stops) ELSE Ok(Vals(outs))

BuiltOf(type, outs) == Then(UpToStop(outs), LAMBDA vals : Ok(ListOf(type, vals)))

(* One entry after the other: key, value, out.set_item(ko, vo). *)
SetMember(k, v) ==
  IF k.o \in Stops THEN k ELSE IF v.o = "ok" /\ ~Hashable(k.v) THEN Raise ELSE v
SetItems(keys, vals) ==
  LET sets == [j \in DOMAIN vals |-> SetMember(keys[j], vals[j])]
  IN  IF Some(sets, Stops) THEN FirstIn(sets, Stops) ELSE Assigned(Vals(keys), Vals(vals))

(***************************************************************************)
(* _make_nested_post_load_fn: the hook is handed the converted record as   *)
(* the original data, and partial=False.                                   *)
(***************************************************************************)
PostLoadFn(f, dict) ==
  IF "many" \in f.opts
  THEN ListOf("list", [j \in DOMAIN dict.c |-> PostLoad(f, dict.c[j].v, dict.c[j].v, "none")])
  ELSE PostLoad(f, dict, dict, "none")

PostLoaded(f, r) ==
  IF Variant(f) = "NestedPostLoad" THEN Then(r, LAMBDA x : Ok(PostLoadFn(f, x))) ELSE r

-----------------------------------------------------------------------------
(* One field of LoadSerializer::run_one that is there, whose elements are  *)
(* of level n: a callback, or the element and then the validators.         *)
RunSpec(elements, n, f, v, p) ==
  IF Callback(elements, f) THEN ToFallback(DeserializeTo[n][f][v][p])
  ELSE IF v = NoneVal THEN IF f.none THEN Ok(v) ELSE Defer
  ELSE CheckValidators(f, elements[f][v][p])

(* LoadSerializer::run_one and run, of the schema in f. *)
RunOne(elements, n, f, v, p) ==
  IF v.t # "dict" THEN Defer
  ELSE IF ~HasKey(v.c, InnerKey) THEN IF p = "all" /\ v.c = <<>> THEN Ok(v) ELSE Defer
  ELSE Then(RunSpec(elements, n, f.inner[1], GetItem(v.c, InnerKey), p), LAMBDA x :
              IF \E j \in DOMAIN v.c : v.c[j].k # InnerKey THEN Defer ELSE Ok(Wrapped(x)))

RunMany(elements, n, f, items, p) ==
  BuiltOf("list", [j \in DOMAIN items |-> RunOne(elements, n, f, items[j], p)])

(* Nested. *)
Run(elements, n, f, v, p) ==
  IF "many" \notin f.opts THEN RunOne(elements, n, f, v, p)
  ELSE IF ListLike(v) THEN RunMany(elements, n, f, Items(v), p) ELSE Defer

(* Pluck: each value is wrapped into a record of the one plucked field. *)
RunPluck(elements, n, f, v, p) ==
  IF "many" \notin f.opts THEN RunOne(elements, n, f, Wrapped(v), p)
  ELSE IF ListLike(v) THEN RunMany(elements, n, f, [j \in DOMAIN v.c |-> Wrapped(v.c[j].v)], p)
  ELSE Defer

ApplyStr(v) ==
  IF v.t = "str" THEN Ok(v) ELSE IF v.t = "bytes" THEN ToFallback(Call("decode", v)) ELSE Defer

(* The exact type is passed on, a bool defers. *)
ApplyNumber(type, v) ==
  IF v.t = "bool" THEN Defer ELSE IF v.t = type THEN Ok(v) ELSE ToFallback(Call(type, v))

CheckNan(f, r) == Then(r, LAMBDA x : IF x.a = "nan" /\ "allow_nan" \notin f.opts THEN Defer ELSE Ok(x))

(* Mutant: the TypeError of an unhashable value is not turned around. *)
ApplyBooleanRaises(f, v) ==
  IF In(v, Truthy(f)) = "typeerror" THEN Raise
  ELSE IF In(v, Truthy(f)) = "yes" THEN Ok(Val("bool", "1"))
  ELSE IF In(v, Falsy(f)) = "yes" THEN Ok(Val("bool", "0")) ELSE Defer

ApplyBoolean(f, v) ==
  IF In(v, Truthy(f)) = "interrupt" THEN Interrupted
  ELSE IF In(v, Truthy(f)) = "yes" THEN Ok(Val("bool", "1"))
  ELSE IF In(v, Truthy(f)) = "no" /\ In(v, Falsy(f)) = "yes" THEN Ok(Val("bool", "0"))
  ELSE Defer

ApplyEnum(f, v, r) == IF v.t = "enum" THEN Ok(v) ELSE Then(r, LAMBDA x : ToFallback(EnumCall(f, x)))

(* List: the inner field's allow_none decides on a None.  Tuple: it defers. *)
ListItem(g, w, r) == IF w # NoneVal THEN r ELSE IF g.none THEN Ok(w) ELSE Defer
TupleItem(w, r) == IF w = NoneVal THEN Defer ELSE r

(* A key or a value of a typed Dict, which has a field for it or none. *)
DictPart(g, w, r) ==
  IF g.kind = "None" THEN Ok(w) ELSE IF w = NoneVal THEN Defer ELSE CheckValidators(g, r)

ApplyDictTyped(elements, f, v, p) ==
  IF v.t # "dict" THEN Defer
  ELSE SetItems([j \in DOMAIN v.c |-> DictPart(f.inner[1], v.c[j].k, elements[f.inner[1]][v.c[j].k][p])],
                [j \in DOMAIN v.c |-> DictPart(f.inner[2], v.c[j].v, elements[f.inner[2]][v.c[j].v][p])])

ApplyList(elements, f, v, p) ==
  IF ~ListLike(v) THEN Defer
  ELSE BuiltOf("list", [j \in DOMAIN v.c |-> ListItem(f.inner[1], v.c[j].v, elements[f.inner[1]][v.c[j].v][p])])

ApplyTuple(elements, f, v, p) ==
  IF ~ListLike(v) \/ Len(v.c) # Len(f.inner) THEN Defer
  ELSE BuiltOf("tuple", [j \in DOMAIN v.c |-> TupleItem(v.c[j].v, elements[f.inner[j]][v.c[j].v][p])])

(* LoadElement::apply.  Held elements call the field's own _deserialize. *)
HeldVariants == {"Decimal", "TimeDelta", "DatetimeAwareness", "IpAddr"}

Apply(elements, n, f, v, p) ==
  LET variant == Variant(f)
  IN  CASE variant \in {"Passthrough", "Absent"} -> Ok(v)
        [] variant = "Str" -> ApplyStr(v)
        [] variant = "Int" -> ApplyNumber("int", v)
        [] variant = "IntStrict" -> IF v.t = "int" THEN Ok(v) ELSE Defer
        [] variant = "Float" -> CheckNan(f, ApplyNumber("float", v))
        [] variant = "Uuid" -> Instance("uuid", v, ToFallback(UUIDCall(v)))
        [] variant = "Temporal" -> Instance("date", v, ToFallback(Call("date", v)))
        [] variant \in HeldVariants -> ToFallback(Call("held", v))
        [] variant = "Boolean" -> ApplyBoolean(f, v)
        [] variant = "Constant" -> Ok(Val("str", "constant"))
        [] variant = "Dict" -> IF v.t = "dict" THEN Ok(v) ELSE Defer
        [] variant = "DictTyped" -> ApplyDictTyped(elements, f, v, p)
        [] variant = "List" -> ApplyList(elements, f, v, p)
        [] variant = "Tuple" -> ApplyTuple(elements, f, v, p)
        [] variant = "Enum" -> ApplyEnum(f, v, elements[f.inner[1]][v][p])
        [] variant \in {"Nested", "NestedPostLoad"} -> PostLoaded(f, Run(elements, n, f, v, p))
        [] variant = "Pluck" -> RunPluck(elements, n, f, v, p)

(* The elements there are of fields of n levels, and what they make of which value. *)
ElementsLevel(elements, n) ==
  [f \in {g \in FieldsTo[n] : HasElement(elements, g)} |->
     [v \in Values |-> [p \in Partials |-> Apply(elements, n - 1, f, v, p)]]]
Elements[n \in Nat] == IF n = 0 THEN <<>> ELSE ElementsLevel(Elements[n - 1], n)

-----------------------------------------------------------------------------
(***************************************************************************)
(* LoadElement::apply_json.  Only the arms that do not come to the same as *)
(* apply on the converted leaf are told apart.                             *)
(***************************************************************************)
RunSpecJson(json, f, jv, p) ==
  IF jv = NoneVal THEN IF f.none THEN Ok(jv) ELSE Defer ELSE CheckValidators(f, json[f][jv][p])

(* Mutant: an unknown key does not stop run_one_json. *)
RunOneJsonLenient(json, f, jv, p) ==
  IF jv.t # "dict" \/ Callback(json, f.inner[1]) THEN Defer
  ELSE IF ~HasKey(jv.c, InnerKey) THEN IF p = "all" THEN Ok(DictOf(<<>>)) ELSE Defer
  ELSE Then(RunSpecJson(json, f.inner[1], GetItem(jv.c, InnerKey), p), LAMBDA x : Ok(Wrapped(x)))

(* LoadSerializer::run_one_json and run_many_json, of the schema in f. *)
RunOneJson(json, f, jv, p) ==
  IF \/ jv.t # "dict"
     \/ \E j \in DOMAIN jv.c : jv.c[j].k # InnerKey
     \/ Callback(json, f.inner[1])
  THEN Defer
  ELSE IF jv.c = <<>> THEN IF p = "all" THEN Ok(jv) ELSE Defer
  ELSE Then(RunSpecJson(json, f.inner[1], GetItem(jv.c, InnerKey), p), LAMBDA x : Ok(Wrapped(x)))

RunJson(json, f, jv, p) ==
  IF "many" \notin f.opts THEN RunOneJson(json, f, jv, p)
  ELSE IF jv.t = "list" THEN BuiltOf("list", [j \in DOMAIN jv.c |-> RunOneJson(json, f, jv.c[j].v, p)])
  ELSE Defer

ApplyListJson(json, f, jv, p) ==
  IF jv.t # "list" THEN Defer
  ELSE BuiltOf("list", [j \in DOMAIN jv.c |-> ListItem(f.inner[1], jv.c[j].v, json[f.inner[1]][jv.c[j].v][p])])

ApplyTupleJson(json, f, jv, p) ==
  IF jv.t # "list" \/ Len(jv.c) # Len(f.inner) THEN Defer
  ELSE BuiltOf("tuple", [j \in DOMAIN jv.c |-> TupleItem(jv.c[j].v, json[f.inner[j]][jv.c[j].v][p])])

(* The members one by one, repeated keys included; a key is a string. *)
JsonPart(json, g, w, p) == IF g.kind = "None" THEN Ok(JsonToPy(w)) ELSE DictPart(g, w, json[g][w][p])

ApplyDictTypedJson(json, n, f, jv, p) ==
  IF jv.t # "dict" THEN Defer
  ELSE SetItems([j \in DOMAIN jv.c |-> DictPart(f.inner[1], jv.c[j].k, Elements[n][f.inner[1]][jv.c[j].k][p])],
                [j \in DOMAIN jv.c |-> JsonPart(json, f.inner[2], jv.c[j].v, p)])

(* F6: a JSON number is a float, a JSON bool a Boolean, without a lookup. *)
ApplyJson(json, n, f, jv, p) ==
  LET variant == Variant(f)
  IN  CASE variant = "Float" /\ jv.t \in {"int", "float"} -> CheckNan(f, Ok(Val("float", jv.a)))
        [] variant = "Boolean" /\ jv.t = "bool" -> Ok(jv)
        [] variant \in {"Nested", "NestedPostLoad"} -> PostLoaded(f, RunJson(json, f, jv, p))
        [] variant = "List" -> ApplyListJson(json, f, jv, p)
        [] variant = "Tuple" -> ApplyTupleJson(json, f, jv, p)
        [] variant = "DictTyped" -> ApplyDictTypedJson(json, n, f, jv, p)
        [] OTHER -> Elements[n + 1][f][JsonToPy(jv)][p]

JsonElementsLevel(json, n) ==
  [f \in DOMAIN Elements[n] |-> [jv \in JsonValues |-> [p \in Partials |-> ApplyJson(json, n - 1, f, jv, p)]]]
JsonElements[n \in Nat] == IF n = 0 THEN <<>> ELSE JsonElementsLevel(JsonElements[n - 1], n)

-----------------------------------------------------------------------------
(***************************************************************************)
(* element_is_fusable: no callback field anywhere in the element; only a   *)
(* field of a schema can be one.  An Enum is not looked into.              *)
(***************************************************************************)
FusableLevel(fusable, n) ==
  {f \in DOMAIN Elements[n] :
     f.kind # "Enum" => \A j \in DOMAIN f.inner : f.inner[j] \in fusable /\ ~Processed(f.inner[j])}
Fusable[n \in Nat] == IF n = 0 THEN {} ELSE FusableLevel(Fusable[n - 1], n)

(* Mutant: a List hides the schema inside it. *)
LooksOutsideLists(f) == f.kind \notin {"Enum", "List"}

(* What element_consumes_partial looks into. *)
LooksInto(f) == f.kind # "Enum"

(* element_consumes_partial: an inner schema is going to read partial. *)
ConsumesLevel(consumes, n) ==
  {f \in DOMAIN Elements[n] :
     f.kind \in {"Nested", "Pluck"} \/ (LooksInto(f) /\ \E j \in DOMAIN f.inner : f.inner[j] \in consumes)}
ConsumesPartial[n \in Nat] == IF n = 0 THEN {} ELSE ConsumesLevel(ConsumesPartial[n - 1], n)

-----------------------------------------------------------------------------
Init ==
  /\ field \in Fields
  /\ source \in {"dict", "json"}
  /\ value \in IF source = "dict" THEN DictInputs ELSE JsonInputs
  /\ partial \in Partials
  /\ result = Pending

IsFusable(f) == ~Callback(Elements[Levels], f) /\ f \in Fusable[Levels]

Loaded(f, v, p) == RunSpec(Elements[Levels], Levels, f, v, p)

(* LoadSerializer::run_one, the arms of a field whose value is there. *)
LoadValue ==
  /\ source = "dict" /\ result = Pending
  /\ result' = Loaded(field, value, partial)
  /\ UNCHANGED <<field, source, value, partial>>

(* LoadSerializer::run_one_json; _patched_loads only tries a fusable plan. *)
LoadJson ==
  /\ source = "json" /\ result = Pending
  /\ IsFusable(field)
  /\ result' = RunSpecJson(JsonElements[Levels], field, value, partial)
  /\ UNCHANGED <<field, source, value, partial>>

(* Any other plan: json.loads, then the dict path. *)
DecodeJson ==
  /\ source = "json" /\ result = Pending
  /\ ~IsFusable(field)
  /\ source' = "dict"
  /\ value' = JsonToPy(value)
  /\ UNCHANGED <<field, partial, result>>

Next == LoadValue \/ LoadJson \/ DecodeJson

Spec == Init /\ [][Next]_vars

-----------------------------------------------------------------------------
Done == result # Pending

(* The value as a Python program sees it. *)
PyInput == IF source = "dict" THEN value ELSE JsonToPy(value)

StockResult == DeserializeTo[Levels][field][PyInput][partial]

(* The result is one the per-field loop knows what to do with. *)
TypeOK ==
  /\ field \in Fields /\ source \in {"dict", "json"} /\ partial \in Partials
  /\ source = "json" => value \in JsonInputs
  /\ result.o \in {"pending", "ok", "defer", "raise", "interrupt"}
  /\ result.o # "ok" => result.v = NoneVal

(***************************************************************************)
(* A value the core converts is the value the field itself would have      *)
(* made of it, validators included, off the dict and off the JSON tree.    *)
(***************************************************************************)
ConvertsLikeStock == result.o = "ok" => result = StockResult

(***************************************************************************)
(* What leaves the core other than as an AccelFallback is an exception,    *)
(* and the field itself would not have returned or raised a                *)
(* ValidationError: to_fallback lets KeyboardInterrupt through, and the    *)
(* only other exception is that of an unhashable key.  Which of two comes  *)
(* first may differ: the core converts a Dict entry by entry, marshmallow  *)
(* all the keys first.                                                     *)
(***************************************************************************)
RaisesLikeStock == result.o \in Errors => StockResult.o \in Errors

(***************************************************************************)
(* "scalar parity holds by construction" (src/load/element.rs:440): off    *)
(* the JSON tree an element does what it does with json.loads's value,     *)
(* deferrals included, where no key is repeated.  Only an unknown key is   *)
(* seen before the fields are tried, and defers what they would raise.     *)
(***************************************************************************)
LikeDict(json, dict) == json = dict \/ (json = Defer /\ dict.o \in Errors)

JsonLikeDict ==
  source = "json" /\ Done /\ value \in Values => LikeDict(result, Loaded(field, JsonToPy(value), partial))

(***************************************************************************)
(* F4 (src/load/serializer.rs:161): an element for which derive is skipped *)
(* never reads partial.                                                    *)
(***************************************************************************)
PartialUnread ==
  source = "dict" /\ Done /\ ~Callback(Elements[Levels], field) /\ field \notin ConsumesPartial[Levels] =>
    Elements[Levels][field][value]["none"] = Elements[Levels][field][value]["all"]
-----------------------------------------------------------------------------
(***************************************************************************)
(* What LoadElementProofs assumes of the constants: where it fails, the    *)
(* core is not marshmallow; README.md, "Hypotheses".                       *)
(***************************************************************************)
(* The field of an Enum is not looked into by the core, which neither      *)
(* validates nor processes what it makes (src/load/element.rs:243).        *)
PlainEnum(f) == f.kind = "Enum" => f.inner[1].inner = <<>> /\ ~HasFieldProcessors(f.inner[1])

(* The post_load of an inner schema is not told the original data or partial. *)
PlainHook(f) == f.kind = "Nested" => f.opts \cap {"reads_original", "reads_partial"} = {}

(* A JSON bool is converted without the field's own truthy and falsy. *)
PlainBoolean(f) == f.kind = "Boolean" => "own_sets" \notin f.opts

PlainTo[n \in Nat] ==
  IF n = 0 THEN {}
  ELSE {f \in FieldsTo[n] : /\ PlainEnum(f) /\ PlainHook(f) /\ PlainBoolean(f)
                            /\ \A j \in DOMAIN f.inner : f.inner[j] \in PlainTo[n - 1]}

PlainFields == \A f \in Fields : f \in PlainTo[Levels]

(* Fields without a key field in them, and without a key field that makes dicts. *)
KeylessTo[n \in Nat] ==
  IF n = 0 THEN {}
  ELSE {f \in FieldsTo[n] : /\ f.kind = "Dict" => f.inner[1] = NoField
                            /\ \A j \in DOMAIN f.inner : f.inner[j] \in KeylessTo[n - 1]}

HashableKeysTo[n \in Nat] ==
  IF n = 0 THEN {}
  ELSE {f \in FieldsTo[n] : /\ f.kind = "Dict" => f.inner[1].kind # "Pluck"
                            /\ \A j \in DOMAIN f.inner : f.inner[j] \in HashableKeysTo[n - 1]}

(* The objects of a JSON value have distinct keys, or one key only that *)
(* is not the name of a NaN: in a dict every NaN is a key of its own.   *)
NamesNan(k) == \E row \in Results["float"] : row[1] = k /\ row[2].a = "nan"
UniformKeys(jv) ==
  \/ \A j, l \in DOMAIN jv.c : jv.c[j].k = jv.c[l].k => j = l
  \/ \A j, l \in DOMAIN jv.c : jv.c[j].k = jv.c[l].k /\ ~NamesNan(jv.c[j].k)

UniformTo[n \in Nat] ==
  IF n = 0 THEN {}
  ELSE {jv \in JsonTo[n] : /\ jv.t = "dict" => UniformKeys(jv)
                           /\ \A j \in DOMAIN jv.c : jv.c[j].v \in UniformTo[n - 1]}

(* The core converts every member of an object, json.loads drops those that *)
(* are overwritten: they may not move or stop what becomes of the last.     *)
HarmlessRepeats == \A f \in Fields : \A jv \in JsonInputs : f \in KeylessTo[Levels] \/ jv \in UniformTo[ValueDepth]
QuietRepeats == \A f \in Fields : \A jv \in JsonInputs : f \in HashableKeysTo[Levels] \/ jv \in Values
=============================================================================
