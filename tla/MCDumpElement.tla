--------------------------- MODULE MCDumpElement ---------------------------
(* DumpElement on schemas of one or two fields and a pool of values. *)
EXTENDS DumpElement

S(a) == Val("str", a)
I(a) == Val("int", a)
F(kind, opts) == FieldOf(kind, opts, <<>>, "k", Missing)
Of(kind, opts, inner) == FieldOf(kind, opts, inner, "k", Missing)
Named(name, f) == [f EXCEPT !.name = S(name)]
Schema_(opts, fields) == FieldOf("Nested", opts, fields, "", Missing)

(* One of each class of byte and each length of a char, runs around them. *)
AllCodePoints ==
  [mix |-> <<97, 34, 10, 98>>, ctl |-> <<7, 127>>, uni |-> <<97, 233, 8364, 128512, 97>>, k |-> <<107>>]
WithSurrogate == [lone |-> <<97, 55357>>] @@ AllCodePoints

Delta(days, seconds, us) == [days |-> days, seconds |-> seconds, us |-> us]
Moment(type, us, offset) ==
  [type |-> type, date |-> IF type = "time" THEN <<>> ELSE <<2024, 2, 29>>,
   time |-> IF type = "date" THEN <<>> ELSE <<23, 59, 7>>, us |-> us, offset |-> offset]
AllMoments ==
  [day |-> Moment("date", 0, {}), naive |-> Moment("datetime", 0, {}),
   west |-> Moment("datetime", 1, {Delta(-1, 68400, 0)}), odd |-> Moment("datetime", 0, {Delta(-1, 86399, 3)}),
   east |-> Moment("datetime", 3, {Delta(0, 19837, 0)}), tea |-> Moment("time", 2, {Delta(0, 0, 2)}),
   noon |-> Moment("time", 0, {})]
AtomsOf(type) == {a \in DOMAIN AllMoments : AllMoments[a].type = type}

Rows(from, type, atoms) == {<<Val(from, a), Val(type, a)>> : a \in atoms}
Calls == [
  int   |-> UNION {Rows(t, "int", {"0", "1"}) : t \in {"subint", "bool", "float", "str"}},
  float |-> UNION {Rows(t, "float", {"0", "1"}) : t \in {"int", "subint", "bool", "str"}},
  decode |-> Rows("bytes", "str", {"1"}),
  strftime |-> UNION {Rows(t, "str", DOMAIN AllMoments) : t \in {"datetime", "date", "time"}},
  decimal |-> UNION {Rows(t, "decimal", {"0", "1"}) : t \in {"int", "float", "str"}},
  total_seconds |-> Rows("timedelta", "float", {"1"})]

-----------------------------------------------------------------------------
Scalars ==
  {F(kind, {}) : kind \in {"Raw", "String", "Integer", "Float", "UUID", "Decimal", "TimeDelta", "Foreign"}}
  \cup {F(kind, opts) : kind \in {"DateTime", "Date", "Time"}, opts \in {{}, {"iso"}}}
  \cup {F(kind, {"as_string"}) : kind \in {"Integer", "Float", "Decimal"}}
  \cup {[F(kind, {}) EXCEPT !.default = I("1")] : kind \in {"Constant", "Integer"}}
  \cup {[F("Integer", {"callable_default"}) EXCEPT !.default = I("1")]}

Inner == {F("Raw", {}), F("Integer", {}), F("String", {}), F("Date", {"iso"}), F("Foreign", {})}

Schemas1 == {Of(kind, opts, <<f>>) : kind \in {"Nested", "Pluck"}, f \in Inner,
               opts \in {{}, {"many"}, {"hooked"}, {"overrides"}, {"get_attribute"}, {"dict_class", "many"}}}

Containers ==
  UNION {{Of("List", {}, <<f>>), Of("Tuple", {}, <<f, F("Raw", {})>>), Of("Dict", {}, <<NoField, f>>),
          Of("Dict", {}, <<f, NoField>>), Of("Dict", {}, <<f, f>>)} : f \in Inner}
  \cup {Of("Dict", opts, <<NoField, NoField>>) : opts \in {{}, {"mapping_type"}}}
  \cup {Of("Enum", {}, <<F("String", {})>>), Of("Enum", {"by_value"}, <<F("Integer", {})>>),
        Of("List", {}, <<Of("List", {}, <<F("Raw", {})>>)>>),
        Of("List", {}, <<Of("Nested", {}, <<F("Integer", {}), Named("l", F("Raw", {}))>>)>>)}

(* A schema in a schema, each with many. *)
Twice == Of("Nested", {"many"}, <<Of("Nested", {"many"}, <<F("Raw", {})>>)>>)

Fields == Scalars \cup Schemas1 \cup Containers \cup {Twice}

-----------------------------------------------------------------------------
RECURSIVE Nest(_, _, _)
Nest(type, n, v) ==
  IF n = 0 THEN v
  ELSE IF type = "dict" THEN DictOf(<<Entry(S("k"), Nest(type, n - 1, v))>>)
  ELSE ListOf("list", <<Nest(type, n - 1, v)>>)

Plain == {NoneVal, I("0"), I("1"), S("1"), S("k"), S("uni"), Val("subint", "1"), Val("bool", "1"),
          Val("float", "1"), Val("float", "nan"), Val("substr", "mix"), Val("uuid", "ctl"), Val("decimal", "1"),
          Val("timedelta", "1"), Container("enum", <<Entry(Unkeyed, I("1"))>>)}
         \cup UNION {{Val(type, a) : a \in AtomsOf(type)} : type \in {"datetime", "date", "time"}}

Few == {I("1"), S("uni"), S("k"), Val("bool", "1"), NoneVal, Val("date", "day")}
PairOf(k, v) == ListOf("tuple", <<k, v>>)
Rec(v) == DictOf(<<Entry(S("k"), v)>>)

Many(v) == ListOf("list", <<Rec(v)>>)

Iters == {ListOf("iter", <<>>), ListOf("iter", <<I("1"), S("1")>>), ListOf("iter", <<Rec(I("1"))>>)}

Composite ==
  {ListOf(t, s) : t \in {"list", "tuple"}, s \in UNION {[1..n -> Few] : n \in 0..2}}
  \cup {Rec(v) : v \in Few \cup {ListOf("list", <<I("1")>>)}}
  \cup {DictOf(<<Entry(k, I("1")), Entry(S("mix"), S("1"))>>) : k \in {I("1"), S("1"), NoneVal, Val("substr", "uni")}}
  \cup {ListOf("list", <<Rec(v), Rec(S("k"))>>) : v \in Few} \cup {ListOf("list", <<ListOf("list", <<I("1")>>)>>)}
  \cup {ListOf("list", <<PairOf(I("1"), I("0")), PairOf(I("1"), I("1"))>>), DictOf(<<Entry(PairOf(I("1"), I("0")), S("1"))>>)}
  \cup {Nest(t, n, I("1")) : t \in {"list", "dict"}, n \in 2..11} \cup {Many(Many(Nest("list", n, I("1")))) : n \in 0..3}
  \cup {Nest("list", n, ListOf("list", <<>>)) : n \in 2..4}
  \cup {[Rec(v) EXCEPT !.t = "ordered"] : v \in Few}

One(f) == Schema_({}, <<f>>)
Case(schemas, records) == [schemas |-> schemas, records |-> records]

(* A field that can make each attempt defer, after one with a value of its own. *)
Second == {Named("l", Of("Tuple", {}, <<F("Integer", {})>>)), Named("l", F("Raw", {}))}
Seconds == {ListOf("tuple", <<I("1")>>), I("1"), Val("uuid", "ctl")}
Two(v, w) == DictOf(<<Entry(S("k"), v), Entry(S("l"), w)>>)

(* Iterators only where the core does not read them before it defers. *)
Draining == {f \in Fields : f.kind \in {"Foreign", "Dict"} \/ (Iterates(f) /\ f \notin DOMAIN Elements[Levels])}
Guarded == Fields \ Draining

AllCases ==
  {Case({One(f) : f \in Fields}, {DictOf(<<>>)} \cup {Rec(v) : v \in Plain \cup Composite}),
   Case({One(f) : f \in Guarded}, {Rec(v) : v \in Iters}),
   Case({One(Named("r", f)) : f \in {g \in Fields : g.kind # "Constant"}},
        {DictOf(<<Entry(S("r"), Val("raiser", ""))>>)}),
   Case({Schema_(opts, <<f, g>>) : opts \in {{}, {"get_attribute"}, {"dict_class"}}, f \in Guarded, g \in Second},
        {Two(v, w) : v \in Iters \cup {I("1")}, w \in Seconds})}

-----------------------------------------------------------------------------
(* A plain Dict over an iterator of pairs. *)
Consumed ==
  {Case({One(Of("Dict", {}, <<NoField, NoField>>))},
        {Rec(ListOf("iter", <<PairOf(k, I("1"))>>)) : k \in {I("1"), S("1")}})}

(* A string json.dumps escapes and to_str refuses. *)
Surrogates == {Case({One(F("String", {})), One(F("Raw", {}))}, {Rec(S("lone"))})}

(* A Constant under an attribute whose reading raises. *)
Raisers ==
  {Case({One(Named("r", [F("Constant", {}) EXCEPT !.default = I("1")]))}, {DictOf(<<Entry(S("r"), Val("raiser", ""))>>)})}

(* The cases the theorems are about are those of the passing run. *)
ASSUME TheoremsApply ==
  /\ Cases # Raisers => QuietConstants
  /\ CodePoints = AllCodePoints => Encodable
  /\ Cases = AllCases => GuardedIterators
=============================================================================
