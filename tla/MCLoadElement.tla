--------------------------- MODULE MCLoadElement ---------------------------
EXTENDS LoadElement

S(a) == Val("str", a)
I(a) == Val("int", a)

F(kind, opts) == FieldOf(kind, opts, <<>>, <<>>, FALSE)
With(f, vals) == [f EXCEPT !.vals = vals]
Null(f) == [f EXCEPT !.none = TRUE]
Of(kind, opts, inner) == FieldOf(kind, opts, inner, <<>>, FALSE)

RangeV(min, max, incl) ==
  [kind |-> "Range", min |-> min, max |-> max, min_inclusive |-> incl, max_inclusive |-> incl]
LengthV(min, max, equal) == [kind |-> "Length", min |-> min, max |-> max, equal |-> equal]
ChoiceV(kind, hashed, members) == [kind |-> kind, choices |-> ChoiceSet(hashed, members)]

Rows(from, type, atoms) == {<<Val(from, a), Val(type, a)>> : a \in atoms}

Calls == [
  int     |-> UNION {Rows(t, "int", {"0", "1", "2"}) : t \in {"subint", "str", "bytes", "float"}}
              \cup {<<S("01"), I("1")>>},
  float   |-> UNION {Rows(t, "float", {"0", "1", "2"}) : t \in {"subint", "str", "bytes"}}
              \cup Rows("str", "float", {"nan"}) \cup {<<S("01"), Val("float", "1")>>},
  decode  |-> Rows("bytes", "str", {"1", "x", "u"}),
  uuid    |-> Rows("str", "uuid", {"u"}),
  bytes16 |-> Rows("bytes", "uuid", {"u"}),
  date    |-> Rows("str", "date", {"d"}),
  held    |-> UNION {Rows(t, "decimal", {"0", "1", "2"}) : t \in {"int", "str", "float", "decimal"}},
  by_name |-> {<<S("A"), Val("enum", "A")>>},
  by_value |-> {<<Val(t, "1"), Val("enum", "A")>> : t \in {"int", "subint", "bool", "float"}}]

NumericAtoms == [a \in {"0", "1", "2"} |-> CASE a = "0" -> 0 [] a = "1" -> 1 [] a = "2" -> 2]

AllValidators ==
  {RangeV({1}, {}, TRUE), RangeV({0}, {2}, FALSE), LengthV({2}, {}, {}), LengthV({}, {1}, {}),
   LengthV({}, {}, {1}), ChoiceV("OneOf", TRUE, {I("1"), S("x")}), ChoiceV("OneOf", FALSE, {I("1")}),
   ChoiceV("NoneOf", TRUE, {I("1"), S("x")}), ChoiceV("ContainsOnly", TRUE, {I("1"), S("x")}),
   ChoiceV("Equal", FALSE, {I("1")}), ChoiceV("Callable", FALSE, {I("2"), S("x")}), RangeV({}, {}, TRUE)}

Scalars ==
  {F("Raw", {}), F("String", {}), F("Integer", {}), F("Integer", {"strict"}), F("Float", {}),
   F("Float", {"allow_nan"}), F("Boolean", {}), F("UUID", {}), F("Temporal", {}),
   F("Decimal", {}), F("TimeDelta", {}), F("AwareDateTime", {}), F("IP", {}), F("Constant", {}), F("Foreign", {}), F("Integer", {"processor"}), Null(F("Integer", {})),
   With(F("Integer", {}), <<RangeV({1}, {}, TRUE)>>)}

(* The scalars that are put into containers. *)
Inner ==
  {F("Raw", {}), F("Integer", {}), F("String", {}), F("Foreign", {}), F("Integer", {"processor"}),
   Null(F("Integer", {})), With(F("Integer", {}), <<RangeV({1}, {}, TRUE)>>)}

Enums == {Of("Enum", {}, <<F("String", {})>>), Of("Enum", {"by_value"}, <<F("Raw", {})>>),
          Of("Enum", {"by_value"}, <<F("Integer", {})>>)}

Schemas1 ==
  {Of(kind, opts, <<f>>) :
     kind \in {"Nested", "Pluck"}, opts \in {{}, {"many"}, {"post_load"}}, f \in Inner}
  \cup {Of(kind, {"hooked"}, <<F("Integer", {})>>) : kind \in {"Nested", "Pluck"}}

Containers ==
  UNION {{Of("List", {}, <<f>>), Of("Tuple", {}, <<f, F("Integer", {})>>),
          Of("Dict", {}, <<NoField, f>>), Of("Dict", {}, <<f, NoField>>),
          Of("Dict", {}, <<f, f>>)} : f \in Inner}

NestedFew ==
  {f \in Schemas1 : f.inner[1] \in {F("Integer", {}), F("Foreign", {})}}

Deep ==
  {Of("List", {}, <<f>>) : f \in NestedFew \cup Enums \cup {Null(Of("List", {}, <<F("Integer", {})>>))}}
  \cup {Of("Nested", opts, <<f>>) : opts \in {{}, {"post_load"}},
          f \in {g \in Containers : F("Integer", {}) \in Range(g.inner)}}
  \cup {Of("Dict", {}, <<Of("List", {}, <<F("Raw", {})>>), NoField>>), Of("Dict", {}, <<NoField, NoField>>)}
  \cup {With(f, <<v>>) : v \in AllValidators,
          f \in {F("Raw", {}), F("Integer", {}), Of("List", {}, <<F("Raw", {})>>)}}
  \cup {Of("Dict", {}, <<With(F("Raw", {}), <<RangeV({1}, {}, TRUE)>>), F("Integer", {})>>)}

AllFields == Scalars \cup Enums \cup Schemas1 \cup Containers \cup Deep

-----------------------------------------------------------------------------
JsonAtoms == {S("1"), S("01"), S("x"), S("nan"), S("u"), S("d"), S("A"), I("0"), I("1"), I("2"),
              Val("float", "1"), Val("float", "nan"), Val("bool", "1"), Val("bool", "0"), NoneVal}
Atoms == JsonAtoms \cup
  {Val("bytes", "1"), Val("bytes", "bad"), Val("bytes", "u"), Val("subint", "1"), Val("substr", "x"),
   Val("uuid", "u"), Val("date", "d"), Val("enum", "A"), Val("evil", "")}

Few == {I("1"), S("x"), S("01"), NoneVal}
Items_ == {I("1"), I("0"), S("x"), NoneVal, Val("evil", "")}

Lists(type, items) == {ListOf(type, s) : s \in UNION {[1..n -> items] : n \in 0..2}}
Dicts(keys, items) ==
  {DictOf(<<>>)} \cup {DictOf(<<Entry(k, v)>>) : k \in keys, v \in items}
  \cup {DictOf(<<Entry(k, v), Entry(l, w)>>) : k \in keys, l \in keys, v \in items, w \in items}
Unrepeated(dicts) == {d \in dicts : \A j, l \in DOMAIN d.c : PyEq(d.c[j].k, d.c[l].k) => j = l}

AllDictInputs ==
  LET flat == Atoms \cup Lists("list", Items_) \cup {ListOf("tuple", <<I("1"), S("x")>>)}
              \cup Unrepeated(Dicts({InnerKey, S("1"), NoneVal}, {I("1"), S("x")}))
              \cup {DictOf(<<Entry(S("1"), I("0")), Entry(S("01"), v)>>) : v \in {I("1"), S("x")}}
      records == {DictOf(<<>>)} \cup {Wrapped(v) : v \in Items_ \cup Lists("list", {I("1"), S("x")})
                                    \cup Unrepeated(Dicts({S("1"), S("x")}, {I("1"), S("x")}))}
  IN  flat \cup records
      \cup {ListOf("list", <<r, Wrapped(v)>>) : r \in records, v \in {I("1"), Val("evil", "")}}
      \cup {ListOf("list", <<l>>) : l \in Lists("list", {I("1"), S("x")})}
      \cup {DictOf(<<Entry(ListOf("tuple", <<I("1")>>), I("1"))>>),
            DictOf(<<Entry(I("1"), Val("evil", "")), Entry(S("x"), I("2"))>>)}

(* Objects that repeat a key, if only one field key can come of it. *)
AllJsonInputs ==
  LET flat == JsonAtoms \cup Lists("list", Few)
              \cup Dicts({InnerKey, S("1")}, {I("1"), S("x"), NoneVal})
              \cup Unrepeated(Dicts({S("1"), S("01")}, {I("1"), S("x")}))
      records == {Wrapped(v) : v \in Few \cup Lists("list", {I("1"), S("x")})
                                    \cup Dicts({S("1"), S("x")}, {I("1"), S("x")})}
  IN  flat \cup records
      \cup {ListOf("list", <<r, Wrapped(v)>>) : r \in records, v \in {I("1")}}
      \cup {ListOf("list", <<l>>) : l \in Lists("list", {I("1"), S("x")})}

-----------------------------------------------------------------------------
(***************************************************************************)
(* Fields and inputs the run above leaves out, where the core is not       *)
(* marshmallow: an option of the field, or an object that repeats a key.   *)
(***************************************************************************)
OwnSets == {F("Boolean", {"own_sets"})}
KeyedDict == {Of("Dict", {}, <<F("Integer", {}), F("Integer", {})>>)}
ValidatedEnum ==
  {Of("Enum", {"by_value"}, <<With(F("Integer", {}), <<ChoiceV("NoneOf", TRUE, {I("1"), S("x")})>>)>>)}
HookArguments ==
  {Of("Nested", {"post_load", "reads_original", "reads_partial"}, <<F("Integer", {})>>)}
NanKeys == {Of("Dict", {}, <<F("Float", {"allow_nan"}), NoField>>)}
UnlikeFields == OwnSets \cup KeyedDict \cup ValidatedEnum \cup HookArguments \cup NanKeys

(* A bool, a member's value, records for the hook, three keys of which two are one, *)
(* and the name of a NaN twice.                                                     *)
UnlikeInputs ==
  {Val("bool", "1"), I("1"), Wrapped(S("1")),
   DictOf(<<Entry(S("1"), I("0")), Entry(S("01"), I("1")), Entry(S("1"), I("2"))>>),
   DictOf(<<Entry(S("nan"), I("0")), Entry(S("nan"), I("1"))>>)}
UnlikeDicts == UnlikeInputs \cap Values

(* The hypotheses of the theorems hold of the fields and inputs of the run. *)
ASSUME TheoremsApply == Fields = AllFields => PlainFields /\ HarmlessRepeats /\ QuietRepeats
=============================================================================
