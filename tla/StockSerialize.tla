--------------------------- MODULE StockSerialize ---------------------------
(***************************************************************************)
(* Field.serialize and Schema._serialize of marshmallow and json.dumps,    *)
(* which are not in the repository: the reference for the dump elements.   *)
(*                                                                         *)
(* A field is a record                                                     *)
(*   kind     its exact class ("Foreign" for a subclass the compiler does  *)
(*            not know, which makes a list of what it is given, "None" for *)
(*            the key or value field a Dict is not given)                  *)
(*   opts     its options, a set of words                                  *)
(*   inner    the fields in it; of a Nested or Pluck those of the inner    *)
(*            schema, whose own options are in opts too; of a Dict the key *)
(*            and the value field                                          *)
(*   name     the attribute it reads and the key it writes                 *)
(*   default  its dump_default, or its constant, or Missing                *)
(*                                                                         *)
(* "iter" is a one-shot iterator over its entries and "obj" an object with *)
(* attributes; a "raiser" raises when it is read by one of the names in    *)
(* Raising.                                                                *)
(*                                                                         *)
(* Fields and values nest, so what recurses through them is a function of  *)
(* the number of levels it looks at: Something[n] is made with             *)
(* Something[n - 1], which the definitions take as a parameter.            *)
(***************************************************************************)
EXTENDS PyValue, JsonWriter, Temporal, FiniteSets

CONSTANTS
  CodePoints,  \* the code points of the strings, by atom
  Moments,     \* the datetimes, dates and times, by atom
  Results,     \* what constructors and methods make of which values, by their names
  ConstantNames, \* the attributes a Constant may be declared under
  Raising,     \* the attributes whose reading may raise
  Levels,      \* how deep the fields of a schema nest
  ValueDepth,  \* how deep the values nest that a field is given
  PyDepth      \* the nesting at which json.dumps raises RecursionError

DateLike(v) == v.t \in {"datetime", "date", "time"}

(* What json.dumps and the writer take as it is. *)
Atomic(v) == v.t \in {"NoneType", "bool", "int", "float"}

(* A member of an Enum has one entry, its value. *)
WellFormed(v) ==
  /\ Atomic(v) => v.c = <<>>
  /\ v.t = "enum" => Len(v.c) = 1
  /\ DateLike(v) => v.a \in DOMAIN Moments /\ Moments[v.a].type = v.t

Entries(inner) == [k: inner, v: inner]

(* The values that nest in at most n levels. *)
ValuesOf(inner) == {v \in [t: STRING, a: STRING, c: Seq(Entries(inner))] : WellFormed(v)}

ValuesTo[n \in Nat] == IF n = 0 THEN {} ELSE ValuesOf(ValuesTo[n - 1])

Values == ValuesTo[ValueDepth]

Missing == Val("missing", "")
Skip == [o |-> "skip", v |-> NoneVal]

Kinds ==
  {"None", "Raw", "Boolean", "String", "Integer", "Float", "UUID", "IP", "Decimal", "TimeDelta", "Constant",
   "DateTime", "Date", "Time", "Enum", "Dict", "Tuple", "List", "Nested", "Pluck", "Foreign"}

FieldOf(kind, opts, inner, name, default) ==
  [kind |-> kind, opts |-> opts, inner |-> inner, name |-> Val("str", name), default |-> default]

NoField == FieldOf("None", {}, <<>>, "", Missing)

(* What a field class needs in it; of a Constant, the constant. *)
Furnished(f) ==
  /\ f.name.t = "str"
  /\ f.kind \in {"List", "Enum", "Pluck"} => f.inner # <<>>
  /\ f.kind = "Dict" => Len(f.inner) = 2
  /\ f.kind = "Constant" => f.default # Missing /\ f.name.a \in ConstantNames

(* The fields that nest in at most n levels. *)
FieldsOf(inner) ==
  {f \in [kind: Kinds, opts: SUBSET STRING, inner: Seq(inner), name: ValuesTo[1], default: Values] :
     Furnished(f)}

FieldsTo[n \in Nat] == IF n = 0 THEN {} ELSE FieldsOf(FieldsTo[n - 1])

(* What the model itself calls types and values. *)
Words ==
  {"", "missing", "NoneType", "None", "str", "repr", "got", "hooked", "list", "tuple", "dict", "ordered", "iter",
   "int", "key", "text"}

ASSUME WordsAssumption == Words \subseteq STRING

ConvertingCalls == {"int", "float", "decode", "strftime", "decimal", "total_seconds"}

ASSUME SerializeAssumption ==
  /\ Levels \in Nat \ {0} /\ ValueDepth \in Nat \ {0} /\ PyDepth \in Nat
  /\ \A a \in DOMAIN CodePoints : CodePoints[a] \in Seq(CodePoint)
  /\ \A a \in DOMAIN Moments : Moments[a].type = "date" =>
       Moments[a].date \in Seq(Nat) /\ Moments[a].time = <<>> /\ Moments[a].us = 0 /\ Moments[a].offset = {}
  /\ \A a \in DOMAIN Moments : \A delta \in Moments[a].offset : Offset(delta)
  /\ \A fn \in ConvertingCalls : \A row \in Results[fn] : row[2] \in Values
-----------------------------------------------------------------------------
(* Numbers that are exactly of the type are themselves. *)
Call(fn, v) ==
  IF fn \in {"int", "float", "decimal"} /\ v.t = fn THEN Ok(v)
  ELSE IF \E row \in Results[fn] : row[1] = v
  THEN Ok((CHOOSE row \in Results[fn] : row[1] = v)[2]) ELSE Raise

(* str(v): that of a string is the string, those of bytes and containers are their repr. *)
Str(v) ==
  IF v.t \in {"str", "substr", "int", "subint", "float", "uuid", "decimal"} THEN Val("str", v.a)
  ELSE Val("str", "repr")

IsoText(pieces) == Val("str", ToString(pieces))

Iterable(v) == v.t \in {"list", "tuple", "iter"} \/ Mapping(v)
Each(v) == IF Mapping(v) THEN [j \in DOMAIN v.c |-> v.c[j].k] ELSE Items(v)

(* [f(each) for each in value], of which outs are the outcomes. *)
Stops == {"raise", "defer"}
Collected(type, outs) == IF Some(outs, Stops) THEN FirstIn(outs, Stops) ELSE Ok(ListOf(type, Vals(outs)))
Comprehension(v, outs) == IF Iterable(v) THEN Collected("list", outs) ELSE Raise

(* dict(value), of a mapping or an iterable of pairs. *)
Pair(v) == v.t \in {"list", "tuple"} /\ Len(v.c) = 2
DictCall(v) ==
  IF Mapping(v) THEN Ok(DictOf(v.c))
  ELSE IF ~Iterable(v) \/ \E j \in DOMAIN v.c : ~Pair(v.c[j].v) THEN Raise
  ELSE Assigned([j \in DOMAIN v.c |-> v.c[j].v.c[1].v], [j \in DOMAIN v.c |-> v.c[j].v.c[2].v])

AsString(f, r) == IF r.o = "ok" /\ "as_string" \in f.opts THEN Ok(Str(r.v)) ELSE r

(* get_value(obj, name, missing): the item or attribute of that name. *)
GetValue(obj, name) ==
  IF ~HasKey(obj.c, name) THEN Ok(Missing)
  ELSE IF GetItem(obj.c, name).t = "raiser" /\ name.a \in Raising THEN Raise
  ELSE Ok(GetItem(obj.c, name))

(* What a field of an inner schema with its own get_attribute reads. *)
Got == Val("str", "got")
-----------------------------------------------------------------------------
(* Field.serialize in a schema with these options: a Constant does not read the attribute. *)
WithDefault(f, v) == IF v = Missing THEN f.default ELSE v

SerializeField(ser, opts, f, obj) ==
  IF f.kind = "Constant" THEN Ok(f.default)
  ELSE Then(IF "get_attribute" \in opts THEN Ok(Got) ELSE GetValue(obj, f.name), LAMBDA v :
         IF WithDefault(f, v) = Missing THEN Skip ELSE ser[f][WithDefault(f, v)])

(* A record of the fields that were not skipped, in their order. *)
Kept(outs) == InOrder({j \in DOMAIN outs : outs[j].o = "ok"})
KeptRecord(type, keys, outs) ==
  Container(type, [i \in DOMAIN Kept(outs) |-> Entry(keys[Kept(outs)[i]], outs[Kept(outs)[i]].v)])
RecordOf(type, keys, outs) ==
  IF Some(outs, Stops) THEN FirstIn(outs, Stops) ELSE Ok(KeptRecord(type, keys, outs))

Names(fields) == [j \in DOMAIN fields |-> fields[j].name]

SerializeFields(ser, f, obj) ==
  [j \in DOMAIN f.inner |-> SerializeField(ser, f.opts, f.inner[j], obj)]

SerializeRecord(ser, f, obj) ==
  RecordOf(IF "dict_class" \in f.opts THEN "ordered" ELSE "dict", Names(f.inner),
           SerializeFields(ser, f, obj))

(* Schema._serialize and Schema.dump of the schema in a Nested or Pluck f. *)
SerializeMany(ser, f, v) ==
  IF "many" \in f.opts
  THEN Comprehension(v, [j \in DOMAIN v.c |-> SerializeRecord(ser, f, Each(v)[j])])
  ELSE SerializeRecord(ser, f, v)

Dump(ser, f, v) ==
  IF f.opts \cap {"hooked", "overrides"} # {} THEN Ok(Val("str", "hooked")) ELSE SerializeMany(ser, f, v)

PluckKey(f, v) ==
  IF HasKey(v.c, f.inner[1].name) THEN Ok(GetItem(v.c, f.inner[1].name)) ELSE Raise

Pluck(f, v) ==
  IF "many" \in f.opts THEN Comprehension(v, [j \in DOMAIN v.c |-> PluckKey(f, Each(v)[j])])
  ELSE PluckKey(f, v)

TypedDict(keys, vals) ==
  IF Some(keys, Stops) \/ Some(vals, Stops) THEN Raise ELSE Assigned(Vals(keys), Vals(vals))

SerializeEnum(ser, f, v) ==
  IF v.t # "enum" THEN Raise
  ELSE ser[f.inner[1]][IF "by_value" \in f.opts THEN v.c[1].v ELSE Val("str", v.a)]

SerializeDict(ser, f, v) ==
  IF f.inner = <<NoField, NoField>> THEN DictCall(v)
  ELSE IF ~Mapping(v) THEN Raise
  ELSE TypedDict([j \in DOMAIN v.c |-> ser[f.inner[1]][v.c[j].k]],
                 [j \in DOMAIN v.c |-> ser[f.inner[2]][v.c[j].v]])

SerializeTuple(ser, f, v) ==
  IF ~Iterable(v) \/ Len(v.c) # Len(f.inner) THEN Raise
  ELSE Collected("tuple", [j \in DOMAIN v.c |-> ser[f.inner[j]][Each(v)[j]]])

SerializeTemporal(f, v) ==
  IF "iso" \notin f.opts THEN Call("strftime", v)
  ELSE IF DateLike(v) THEN Ok(IsoText(IsoFormat(Moments[v.a]))) ELSE Raise

SerializeSome(ser, f, v) ==
  CASE f.kind = "String" -> IF v.t = "bytes" THEN Call("decode", v) ELSE Ok(Str(v))
    [] f.kind \in {"UUID", "IP"} -> Ok(Str(v))
    [] f.kind = "Integer" -> AsString(f, Call("int", v))
    [] f.kind = "Float" -> AsString(f, Call("float", v))
    [] f.kind = "Decimal" -> AsString(f, Call("decimal", v))
    [] f.kind = "TimeDelta" -> Call("total_seconds", v)
    [] f.kind \in {"DateTime", "Date", "Time"} -> SerializeTemporal(f, v)
    [] f.kind = "Enum" -> SerializeEnum(ser, f, v)
    [] f.kind = "Dict" -> SerializeDict(ser, f, v)
    [] f.kind = "Tuple" -> SerializeTuple(ser, f, v)
    [] f.kind = "List" -> Comprehension(v, [j \in DOMAIN v.c |-> ser[f.inner[1]][Each(v)[j]]])
    [] f.kind = "Foreign" -> Comprehension(v, [j \in DOMAIN v.c |-> Ok(Each(v)[j])])
    [] f.kind = "Nested" -> Dump(ser, f, v)
    [] f.kind = "Pluck" -> Then(Dump(ser, f, v), LAMBDA ret : Pluck(f, ret))

(* Field._serialize; without a field, an entry of a Dict stays what it is. *)
SerializeValue(ser, f, v) ==
  IF f.kind \in {"None", "Raw", "Boolean"} THEN Ok(v)
  ELSE IF f.kind = "Constant" THEN Ok(f.default)
  ELSE IF v = NoneVal THEN Ok(NoneVal)
  ELSE SerializeSome(ser, f, v)

SerializeLevel(ser, n) == [f \in FieldsTo[n] |-> [v \in Values |-> SerializeValue(ser, f, v)]]
SerializeTo[n \in Nat] == IF n = 0 THEN <<>> ELSE SerializeLevel(SerializeTo[n - 1], n)

-----------------------------------------------------------------------------
(***************************************************************************)
(* json.dumps: a text is written as the value it is the text of, but for   *)
(* its strings, which are texts already.                                   *)
(***************************************************************************)
(* A string without CodePoints has clean characters only and is its own text. *)
Quoted(cps) == <<34>> \o FlattenSeq([j \in DOMAIN cps |-> EncodeAscii(cps[j])]) \o <<34>>
StringText(a) == Val("text", IF a \in DOMAIN CodePoints THEN ToString(Quoted(CodePoints[a])) ELSE a)

KeyTypes == {"int", "subint", "float", "bool", "NoneType"}
DumpsKey(k) ==
  IF k.t \in {"str", "substr"} THEN Ok(StringText(k.a))
  ELSE IF k.t \in KeyTypes THEN Ok(Val("key", k.a)) ELSE Raise

(* An object of members in order, each its key and then its value. *)
Member(k, v) == IF k.o \in Stops THEN k ELSE v
AllOk(outs, r) == IF Some(outs, Stops) THEN FirstIn(outs, Stops) ELSE r
Object(keys, vals) ==
  AllOk([j \in DOMAIN keys |-> Member(keys[j], vals[j])],
        Ok(DictOf([j \in DOMAIN keys |-> Entry(keys[j].v, vals[j].v)])))

(* What a field makes of a value nests in two more levels for each level of the field. *)
Outputs == ValuesTo[ValueDepth + 2 * Levels + 1]

JsonDumps(dumps, v) ==
  CASE Atomic(v) -> Ok(v)
    [] v.t = "subint" -> Ok(Val("int", v.a))
    [] v.t \in {"str", "substr"} -> Ok(StringText(v.a))
    [] v.t \in {"list", "tuple"} -> Collected("list", [j \in DOMAIN v.c |-> dumps[v.c[j].v]])
    [] Mapping(v) -> Object([j \in DOMAIN v.c |-> DumpsKey(v.c[j].k)], [j \in DOMAIN v.c |-> dumps[v.c[j].v]])
    [] OTHER -> Raise

(* n counts the levels down to where json.dumps gives up. *)
DumpsLevel(dumps, n) == [v \in Outputs |-> JsonDumps(dumps, v)]
DumpsTo[n \in Nat] == IF n = 0 THEN [v \in Outputs |-> Raise] ELSE DumpsLevel(DumpsTo[n - 1], n)
=============================================================================
