----------------------------- MODULE StockField -----------------------------
(***************************************************************************)
(* Field.deserialize of marshmallow, which is not in the repository: the   *)
(* reference the elements of the core are checked against.                 *)
(*                                                                         *)
(* A field is a record                                                     *)
(*   kind   its exact class ("Foreign" for a subclass the compiler does    *)
(*          not know, "None" for the key or value field a Dict is not      *)
(*          given)                                                         *)
(*   opts   its options, a set of words                                    *)
(*   inner  the fields in it; of a Nested or Pluck the one required field  *)
(*          "k" of the inner schema, whose unknown is RAISE; of an Enum    *)
(*          field.field; of a Dict the key field and the value field       *)
(*   vals   its validators                                                 *)
(*   none   allow_none                                                     *)
(*                                                                         *)
(* As in StockSerialize, what recurses through fields or values is a       *)
(* function of the number of levels it looks at: Something[n] is made with *)
(* Something[n - 1], which the definitions take as a parameter.            *)
(***************************************************************************)
EXTENDS PyValue, Integers

CONSTANTS
  Results,     \* what constructors and parsers make of which values, by their names
  Amounts,     \* the numbers that the numeric atoms stand for
  Validators,  \* the validators of the fields
  Levels,      \* how deep the fields of a schema nest
  ValueDepth   \* how deep the values nest that a field is given

Partials == {"none", "all"}

(* The values that nest in at most n levels; only a container has entries. *)
Formed(v) ==
  /\ v.t \notin {"list", "tuple", "dict"} => v.c = <<>>
  /\ v.t \in {"list", "tuple", "dict"} => v.a = ""
  /\ ListLike(v) => \A j \in DOMAIN v.c : v.c[j].k = Unkeyed
  /\ v.t = "NoneType" => v.a = "None"
  /\ v.t = "bool" => v.a \in {"0", "1"}

(* The keys of a dict are hashable, and no two are equal. *)
WellFormed(v) ==
  /\ Formed(v)
  /\ v.t = "dict" => \A j \in DOMAIN v.c : /\ Hashable(v.c[j].k)
                                           /\ \A l \in DOMAIN v.c : PyEq(v.c[j].k, v.c[l].k) => j = l

ValuesOf(inner) == {v \in [t: STRING, a: STRING, c: Seq([k: inner, v: inner])] : WellFormed(v)}

ValuesTo[n \in Nat] == IF n = 0 THEN {} ELSE ValuesOf(ValuesTo[n - 1])

Values == ValuesTo[ValueDepth]

(* Those of the JSON tree, where the keys of an object are strings. *)
JsonTypes == {"NoneType", "bool", "int", "float", "str", "list", "dict"}
Keys == [t: {"", "str"}, a: STRING, c: {<<>>}]

JsonOf(inner) ==
  {jv \in [t: JsonTypes, a: STRING, c: Seq([k: Keys, v: inner])] :
     Formed(jv) /\ (jv.t = "dict" => \A j \in DOMAIN jv.c : jv.c[j].k.t = "str")}

JsonTo[n \in Nat] == IF n = 0 THEN {} ELSE JsonOf(JsonTo[n - 1])

JsonValues == JsonTo[ValueDepth]

(* json_to_py, and json.loads: the last of the members with one key wins. *)
ToPy(toPy, jv) ==
  LET vals == [j \in DOMAIN jv.c |-> toPy[jv.c[j].v]]
  IN  CASE jv.t = "dict" -> Assigned([j \in DOMAIN jv.c |-> jv.c[j].k], vals).v
        [] jv.t = "list" -> ListOf("list", vals)
        [] OTHER -> jv

JsonToPyLevel(toPy, n) == [jv \in JsonTo[n] |-> ToPy(toPy, jv)]
JsonToPyTo[n \in Nat] == IF n = 0 THEN <<>> ELSE JsonToPyLevel(JsonToPyTo[n - 1], n)

JsonToPy(jv) == JsonToPyTo[ValueDepth][jv]

-----------------------------------------------------------------------------
FieldOf(kind, opts, inner, vals, none) ==
  [kind |-> kind, opts |-> opts, inner |-> inner, vals |-> vals, none |-> none]

(* The classes whose own _deserialize the core keeps and calls. *)
HeldKinds == {"Decimal", "TimeDelta", "AwareDateTime", "IP"}

Kinds ==
  {"None", "Raw", "String", "Integer", "Float", "Boolean", "UUID", "Temporal", "Constant", "Foreign", "Enum",
   "List", "Tuple", "Dict", "Nested", "Pluck"} \cup HeldKinds

NoField == FieldOf("None", {}, <<>>, <<>>, FALSE)

(* What a field class needs in it. *)
Furnished(f) ==
  /\ f.kind = "None" => f = NoField
  /\ f.kind \in {"List", "Enum", "Nested", "Pluck"} => Len(f.inner) = 1
  /\ f.kind = "Dict" => Len(f.inner) = 2

(* The fields that nest in at most n levels. *)
FieldsOf(inner) ==
  {f \in [kind: Kinds, opts: SUBSET STRING, inner: Seq(inner), vals: Seq(Validators), none: BOOLEAN] :
     Furnished(f)}

FieldsTo[n \in Nat] == IF n = 0 THEN {} ELSE FieldsOf(FieldsTo[n - 1])

InnerKey == Val("str", "k")

(***************************************************************************)
(* Constructors and parsers.  A number of the type itself is itself, and   *)
(* an int is a float of the same amount.                                   *)
(***************************************************************************)
Call(fn, v) ==
  IF v.t = "evil" THEN Interrupted
  ELSE IF fn \in {"int", "float"} /\ v.t = fn THEN Ok(v)
  ELSE IF fn = "float" /\ v.t = "int" THEN Ok(Val("float", v.a))
  ELSE IF \E row \in Results[fn] : row[1] = v
       THEN Ok((CHOOSE row \in Results[fn] : row[1] = v)[2])
       ELSE Invalid

-----------------------------------------------------------------------------
(***************************************************************************)
(* "value in choices", where a hashed container (set, dict) hashes first.  *)
(***************************************************************************)
In(v, choices) ==
  IF v.t = "evil" THEN "interrupt"
  ELSE IF choices.hashed /\ ~Hashable(v) THEN "typeerror"
  ELSE IF \E w \in choices.members : PyEq(w, v) THEN "yes" ELSE "no"

(* The truthy and falsy of a Boolean field: the class's, or its own. *)
ChoiceSet(hashed, members) == [hashed |-> hashed, members |-> members]
Truthy(f) ==
  ChoiceSet(TRUE, IF "own_sets" \in f.opts THEN {Val("str", "A")} ELSE {Val("int", "1"), Val("str", "1")})
Falsy(f) ==
  ChoiceSet(TRUE, IF "own_sets" \in f.opts THEN {Val("str", "x")} ELSE {Val("int", "0")})

(* Any other numeric atom than these and nan has the amount 0. *)
Number(a) == IF a \in DOMAIN Amounts THEN Amounts[a] ELSE 0
Numeric(v) == v.t \in {"bool", "int", "subint", "float"}
Sized(v) == v.t \in {"str", "substr", "bytes", "list", "tuple", "dict"}
Length(v) == IF v.t \in {"str", "substr", "bytes"} THEN 1 ELSE Len(v.c)

(***************************************************************************)
(* A validator of marshmallow.validate: "pass", "fail", "raise",           *)
(* "interrupt".  A bound or a length is a set, empty for None.             *)
(***************************************************************************)
ChoiceKinds == {"Equal", "OneOf", "NoneOf", "ContainsOnly", "Callable"}

ASSUME ValidatorsAssumption ==
  \A val \in Validators :
    \/ val.kind = "Range" /\ val.min \in SUBSET Int /\ val.max \in SUBSET Int
         /\ val.min_inclusive \in BOOLEAN /\ val.max_inclusive \in BOOLEAN
    \/ val.kind = "Length" /\ val.min \in SUBSET Int /\ val.max \in SUBSET Int /\ val.equal \in SUBSET Int
    \/ val.kind \in ChoiceKinds

(* The strings that types and atoms are written with are strings. *)
ASSUME WordsAssumption == JsonTypes \cup {""} \subseteq STRING

(* What is called by name makes scalars, and only float() makes a NaN. *)
ASSUME ResultsAssumption ==
  /\ {"int", "float", "decode", "bytes16", "uuid", "date", "held", "by_name", "by_value"} \subseteq DOMAIN Results
  /\ \A fn \in DOMAIN Results : \A row \in Results[fn] :
       /\ row[2].c = <<>> /\ Hashable(row[2]) /\ row[2].t # "evil"
       /\ fn # "float" => PyEq(row[2], row[2])

ASSUME DepthAssumption == Levels \in Nat \ {0} /\ ValueDepth \in Nat \ {0} /\ Amounts \in [DOMAIN Amounts -> Int]

RangeFails(val, n) ==
  \/ \E m \in val.min : n < m \/ (n = m /\ ~val.min_inclusive)
  \/ \E m \in val.max : n > m \/ (n = m /\ ~val.max_inclusive)

LengthFails(val, n) ==
  IF val.equal # {} THEN n \notin val.equal
  ELSE (\E m \in val.min : n < m) \/ (\E m \in val.max : n > m)

Verdict(ok) == IF ok THEN "pass" ELSE "fail"

Membership(in, yes, no, typeerror) ==
  CASE in = "yes" -> yes
    [] in = "no" -> no
    [] in = "typeerror" -> typeerror
    [] in = "interrupt" -> "interrupt"

(* The first item that is not among the choices decides. *)
Items_In(v, choices) == [j \in DOMAIN v.c |-> [o |-> In(v.c[j].v, choices)]]
NotIn == {"no", "typeerror", "interrupt"}
OnlyIn(v, choices) ==
  IF Some(Items_In(v, choices), NotIn)
  THEN Membership(FirstIn(Items_In(v, choices), NotIn).o, "pass", "fail", "raise") ELSE "pass"

StockValidate(val, v) ==
  CASE val.kind = "Range" ->
         IF val.min \cup val.max = {} THEN "pass"
         ELSE IF v.t = "evil" THEN "interrupt"
         ELSE IF ~Numeric(v) THEN "raise"
         ELSE Verdict(v.a = "nan" \/ ~RangeFails(val, Number(v.a)))
    [] val.kind = "Length" ->
         IF v.t = "evil" THEN "interrupt"
         ELSE IF ~Sized(v) THEN "raise" ELSE Verdict(~LengthFails(val, Length(v)))
    [] val.kind = "Equal" ->
         IF v.t = "evil" THEN "interrupt" ELSE Verdict(\E w \in val.choices.members : PyEq(w, v))
    [] val.kind = "OneOf" -> Membership(In(v, val.choices), "pass", "fail", "fail")
    [] val.kind = "NoneOf" -> Membership(In(v, val.choices), "fail", "pass", "pass")
    [] val.kind = "ContainsOnly" ->
         IF v.t = "evil" THEN "interrupt"
         ELSE IF ListLike(v) THEN OnlyIn(v, val.choices) ELSE "raise"
    [] val.kind = "Callable" ->
         IF v.t = "evil" THEN "interrupt" ELSE Verdict(v \notin val.choices.members)

(* Field._validate: every validator runs, unless one raises. *)
Stop(kind) == [o |-> kind, v |-> NoneVal]
Judge(verdicts, v) ==
  IF Some(verdicts, {"raise", "interrupt"}) THEN Stop(FirstIn(verdicts, {"raise", "interrupt"}).o)
  ELSE IF Some(verdicts, {"fail"}) THEN Invalid ELSE Ok(v)

StockValidated(vals, v) ==
  Judge([j \in DOMAIN vals |-> [o |-> StockValidate(vals[j], v)]], v)

-----------------------------------------------------------------------------
(* ValidationErrors are collected, any other exception stops. *)
Errors == {"raise", "interrupt"}
Collect(outs) ==
  IF Some(outs, Errors) THEN FirstIn(outs, Errors)
  ELSE IF Some(outs, {"invalid"}) THEN Invalid
  ELSE Ok(Vals(outs))

Collected(type, outs) == Then(Collect(outs), LAMBDA vals : Ok(ListOf(type, vals)))

(* result[keys[k]] = value for each entry, once all keys are deserialized. *)
StockSet(k, v) == IF k.o = "ok" /\ v.o = "ok" /\ ~Hashable(k.v) THEN Raise ELSE v
StockDict(keys, vals) ==
  LET sets == [j \in DOMAIN vals |-> StockSet(keys[j], vals[j])]
  IN  IF Some(keys, Errors) THEN FirstIn(keys, Errors)
      ELSE IF Some(sets, Errors) THEN FirstIn(sets, Errors)
      ELSE IF Some(keys, {"invalid"}) \/ Some(vals, {"invalid"}) THEN Invalid
      ELSE Assigned(Vals(keys), Vals(vals))

(* post_load of an inner schema; it may look at original_data or partial. *)
PostLoad(f, dict, original, partial) ==
  Container("posted", <<Entry(Unkeyed, dict)>>
     \o (IF "reads_original" \in f.opts THEN <<Entry(Unkeyed, original)>> ELSE <<>>)
     \o (IF "reads_partial" \in f.opts THEN <<Entry(Unkeyed, Val("bool", partial))>> ELSE <<>>))

(* A record of the one field of an inner schema. *)
Wrapped(v) == DictOf(<<Entry(InnerKey, v)>>)

(* Schema.load of one record, without post_load. *)
Record(des, f, v, p) ==
  IF v.t # "dict" THEN Invalid
  ELSE IF \E j \in DOMAIN v.c : v.c[j].k # InnerKey
  THEN Collect([j \in DOMAIN v.c |-> IF v.c[j].k = InnerKey THEN des[f.inner[1]][v.c[j].v][p] ELSE Invalid])
  ELSE IF v.c = <<>> THEN IF p = "all" THEN Ok(v) ELSE Invalid
  ELSE Then(des[f.inner[1]][v.c[1].v][p], LAMBDA x : Ok(Wrapped(x)))

(* Schema.load of the schema in a Nested or Pluck f, on one record or on those in items. *)
Posted(f, dict, original, p) == IF "post_load" \in f.opts THEN PostLoad(f, dict, original, p) ELSE dict

LoadOne(des, f, v, p) == Then(Record(des, f, v, p), LAMBDA d : Ok(Posted(f, d, v, p)))

LoadMany(des, f, items, p) ==
  Then(Collect([j \in DOMAIN items |-> Record(des, f, items[j], p)]), LAMBDA ds :
         Ok(ListOf("list", [j \in DOMAIN ds |-> Posted(f, ds[j], items[j], p)])))

(* int(v), float(v), but not of a bool. *)
NumberOf(fn, v) == IF v.t = "bool" THEN Invalid ELSE Call(fn, v)

(* A value of the type already, or what is made of it. *)
Instance(type, v, r) == IF v.t = type THEN Ok(v) ELSE r

DeserializeFloat(f, v) ==
  Then(NumberOf("float", v), LAMBDA x : IF x.a = "nan" /\ "allow_nan" \notin f.opts THEN Invalid ELSE Ok(x))

DeserializeBoolean(f, v) ==
  IF In(v, Truthy(f)) = "interrupt" THEN Interrupted
  ELSE IF In(v, Truthy(f)) = "yes" THEN Ok(Val("bool", "1"))
  ELSE IF In(v, Truthy(f)) = "no" /\ In(v, Falsy(f)) = "yes" THEN Ok(Val("bool", "0"))
  ELSE Invalid

UUIDCall(v) == IF <<v, Val("uuid", v.a)>> \in Results["bytes16"] THEN Call("bytes16", v) ELSE Call("uuid", v)

EnumCall(f, v) == Call(IF "by_value" \in f.opts THEN "by_value" ELSE "by_name", v)

(* Field._deserialize. *)
DeserializeRaw(des, f, v, p) ==
  CASE f.kind \in {"None", "Raw", "Foreign"} -> Ok(v)
    [] f.kind = "String" ->
         IF v.t \in {"str", "substr"} THEN Ok(Val("str", v.a))
         ELSE IF v.t = "bytes" THEN Call("decode", v) ELSE Invalid
    [] f.kind = "Integer" ->
         IF "strict" \in f.opts /\ v.t \notin {"int", "subint"} THEN Invalid ELSE NumberOf("int", v)
    [] f.kind = "Float" -> DeserializeFloat(f, v)
    [] f.kind = "Boolean" -> DeserializeBoolean(f, v)
    [] f.kind = "UUID" -> Instance("uuid", v, UUIDCall(v))
    [] f.kind = "Temporal" -> Instance("date", v, Call("date", v))
    [] f.kind \in HeldKinds -> Call("held", v)
    [] f.kind = "Constant" -> Ok(Val("str", "constant"))
    [] f.kind = "Enum" -> Instance("enum", v, Then(des[f.inner[1]][v][p], LAMBDA x : EnumCall(f, x)))
    [] f.kind = "List" ->
         IF ListLike(v) THEN Collected("list", [j \in DOMAIN v.c |-> des[f.inner[1]][v.c[j].v][p]]) ELSE Invalid
    [] f.kind = "Tuple" ->
         IF ListLike(v) /\ Len(v.c) = Len(f.inner)
         THEN Collected("tuple", [j \in DOMAIN v.c |-> des[f.inner[j]][v.c[j].v][p]]) ELSE Invalid
    [] f.kind = "Dict" ->
         IF v.t # "dict" THEN Invalid
         ELSE StockDict([j \in DOMAIN v.c |-> des[f.inner[1]][v.c[j].k][p]],
                        [j \in DOMAIN v.c |-> des[f.inner[2]][v.c[j].v][p]])
    [] f.kind = "Nested" ->
         IF "many" \notin f.opts THEN LoadOne(des, f, v, p)
         ELSE IF ListLike(v) THEN LoadMany(des, f, Items(v), p) ELSE Invalid
    [] f.kind = "Pluck" ->
         IF "many" \notin f.opts THEN LoadOne(des, f, Wrapped(v), p)
         ELSE IF ListLike(v) THEN LoadMany(des, f, [j \in DOMAIN v.c |-> Wrapped(v.c[j].v)], p) ELSE Invalid

(* The field's own pre_load or post_load, of marshmallow 4. *)
Processed(f) == "processor" \in f.opts

Process(f, v) == IF Processed(f) THEN Container("processed", <<Entry(Unkeyed, v)>>) ELSE v

(* Field.deserialize; without a field, a key or value of a Dict stays what it is. *)
DeserializeValue(des, f, v, p) ==
  IF f.kind = "None" THEN Ok(v)
  ELSE IF v = NoneVal THEN IF f.none THEN Ok(v) ELSE Invalid
  ELSE Then(Then(DeserializeRaw(des, f, v, p), LAMBDA x : StockValidated(f.vals, x)),
            LAMBDA x : Ok(Process(f, x)))

DeserializeLevel(des, n) ==
  [f \in FieldsTo[n] |-> [v \in Values |-> [p \in Partials |-> DeserializeValue(des, f, v, p)]]]
DeserializeTo[n \in Nat] == IF n = 0 THEN <<>> ELSE DeserializeLevel(DeserializeTo[n - 1], n)
=============================================================================
