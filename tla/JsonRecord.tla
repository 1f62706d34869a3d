----------------------------- MODULE JsonRecord -----------------------------
(***************************************************************************)
(* LoadSerializer::run_one_json (src/load/serializer.rs), the fused loads: *)
(* one object of the parsed JSON tree, its members bucketed by data key in *)
(* a first pass, the fields applied to the buckets in a second, unknown    *)
(* keys copied in a third.  It "mirrors run_one exactly", on the dict that *)
(* json.loads would have made of the object.                               *)
(*                                                                         *)
(* Here Apply of LoadStep is LoadElement::apply_json.  What LoadRecord has  *)
(* too is named Json here.                                                 *)
(***************************************************************************)
EXTENDS LoadStep

CONSTANT Objects  \* the objects offered, as the sequences of their members

Member == [key: Keys, value: Values \cup {None}]

ASSUME ObjectsType == Objects \subseteq Seq(Member)

VARIABLES
  obj,     \* the object: fixed, as isObject is, for the whole record
  isObject,  \* the JSON value is an object
  at,      \* the member that the first or the third pass is at
  slots,   \* of each spec, its bucket: a value or Missing
  held     \* the unknown members, for INCLUDE

jsonCall == <<specs, obj, partial, unknown, isObject>>
buckets == <<at, slots, held>>
jsonVars == <<specs, obj, partial, unknown, isObject, at, slots, held, i, out, status>>

JsonStatuses ==
  {"entry", "bucket", "fields", "include", "done", "fallback", "interrupted"}

JsonInit ==
  /\ specs \in Schemas /\ obj \in Objects
  /\ partial \in PartialArgs /\ unknown \in Unknowns /\ isObject \in BOOLEAN
  /\ at = 1 /\ slots = [k \in 1..Len(specs) |-> Missing] /\ held = <<>>
  /\ i = 1 /\ out = <<>> /\ status = "entry"

(* parse_load_serializer: two specs with one data key cannot share a slot, *)
(* data_key_index has the last of them.                                    *)
DistinctDataKeys ==
  \A j, k \in 1..Len(specs) : specs[j].dataKey = specs[k].dataKey => j = k

Slot(key) ==
  CHOOSE k \in 1..Len(specs) :
    specs[k].dataKey = key /\ \A j \in (k + 1)..Len(specs) : specs[j].dataKey # key

AtNative == status = "fields" /\ i <= Len(specs) /\ field.native

JsonStop(s) == status' = s /\ UNCHANGED <<jsonCall, buckets, i, out>>

JsonSkip == i' = i + 1 /\ UNCHANGED <<jsonCall, buckets, out, status>>

JsonSetLoadValue(v) ==
  \/ Blocked(out, field.path) /\ JsonStop("fallback")
  \/ /\ ~Blocked(out, field.path)
     /\ out' = Put(out, field.path, v)
     /\ i' = i + 1
     /\ UNCHANGED <<jsonCall, buckets, status>>

-----------------------------------------------------------------------------
(* Mutant of JsonEnter: distinct_data_keys is not tested. *)
JsonEnterUntested ==
  /\ status = "entry"
  /\ IF isObject THEN JsonStop("bucket") ELSE JsonStop("fallback")

JsonEnter ==
  /\ status = "entry"
  /\ IF isObject /\ DistinctDataKeys THEN JsonStop("bucket") ELSE JsonStop("fallback")

(* Pass 1. *)
AtMember == status = "bucket" /\ at <= Len(obj)

(* Mutant of BucketKnown: of a repeated key the first value is kept. *)
BucketKnownFirst ==
  /\ AtMember /\ obj[at].key \in KnownKeys(specs)
  /\ slots' = IF slots[Slot(obj[at].key)] = Missing
              THEN [slots EXCEPT ![Slot(obj[at].key)] = obj[at].value] ELSE slots
  /\ at' = at + 1
  /\ UNCHANGED <<jsonCall, held, i, out, status>>

BucketKnown ==
  /\ AtMember /\ obj[at].key \in KnownKeys(specs)
  /\ slots' = [slots EXCEPT ![Slot(obj[at].key)] = obj[at].value]
  /\ at' = at + 1
  /\ UNCHANGED <<jsonCall, held, i, out, status>>

BucketUnknown ==
  /\ AtMember /\ obj[at].key \notin KnownKeys(specs)
  /\ \/ unknown = "raise" /\ JsonStop("fallback")
     \/ /\ unknown # "raise"
        /\ held' = IF unknown = "include" THEN Append(held, obj[at]) ELSE held
        /\ at' = at + 1
        /\ UNCHANGED <<jsonCall, slots, i, out, status>>

BucketDone == status = "bucket" /\ at = Len(obj) + 1 /\ JsonStop("fields")

(* Pass 2. *)
DeferCallback ==
  /\ status = "fields" /\ i <= Len(specs) /\ ~field.native
  /\ JsonStop("fallback")

JsonPartialSkip ==
  /\ AtNative /\ slots[i] = Missing /\ AllowsMissing(corePartial, field.attr)
  /\ JsonSkip

JsonNativeRequired ==
  /\ AtNative /\ slots[i] = Missing /\ ~AllowsMissing(corePartial, field.attr)
  /\ field.required
  /\ JsonStop("fallback")

(* Mutant of JsonNativeDefault: default.is(missing) is not tested. *)
JsonNativeDefaultUntested ==
  /\ AtNative /\ slots[i] = Missing /\ ~AllowsMissing(corePartial, field.attr)
  /\ ~field.required
  /\ JsonSetLoadValue(field.default)

JsonNativeDefault ==
  /\ AtNative /\ slots[i] = Missing /\ ~AllowsMissing(corePartial, field.attr)
  /\ ~field.required
  /\ \/ field.default = Missing /\ JsonSkip
     \/ field.default # Missing /\ JsonSetLoadValue(field.default)

JsonNativeNull ==
  /\ AtNative /\ slots[i] = None
  /\ \/ field.allowNone /\ JsonSetLoadValue(None)
     \/ ~field.allowNone /\ JsonStop("fallback")

(* Mutant of JsonNativeConvert: to_fallback turns every exception into a   *)
(* deferral, KeyboardInterrupt included.                                   *)
JsonNativeConvertSwallows ==
  /\ AtNative /\ slots[i] \in Values
  /\ LET r == Apply(field, slots[i], FieldPartial(field, corePartial))
     IN  \/ r \in {Fail, Interrupt} /\ JsonStop("fallback")
         \/ /\ r \notin Outcomes
            /\ \/ Check(field, r) = "pass" /\ JsonSetLoadValue(r)
               \/ Check(field, r) \in {"fail", "interrupt"} /\ JsonStop("fallback")

JsonNativeConvert ==
  /\ AtNative /\ slots[i] \in Values
  /\ LET r == Apply(field, slots[i], FieldPartial(field, corePartial))
     IN  \/ r = Fail /\ JsonStop("fallback")
         \/ r = Interrupt /\ JsonStop("interrupted")
         \/ /\ r \notin Outcomes
            /\ \/ Check(field, r) = "pass" /\ JsonSetLoadValue(r)
               \/ Check(field, r) = "fail" /\ JsonStop("fallback")
               \/ Check(field, r) = "interrupt" /\ JsonStop("interrupted")

FieldsDone ==
  /\ status = "fields" /\ i = Len(specs) + 1
  /\ status' = "include" /\ at' = 1
  /\ UNCHANGED <<jsonCall, slots, held, i, out>>

(* Pass 3: PyDict::set_item under the literal key. *)
CopyHeld ==
  /\ status = "include" /\ at <= Len(held)
  /\ out' = Put(out, <<held[at].key>>, held[at].value)
  /\ at' = at + 1
  /\ UNCHANGED <<jsonCall, slots, held, i, status>>

Finish == status = "include" /\ at = Len(held) + 1 /\ JsonStop("done")

JsonNext ==
  \/ JsonEnter
  \/ BucketKnown \/ BucketUnknown \/ BucketDone
  \/ DeferCallback \/ JsonPartialSkip \/ JsonNativeRequired \/ JsonNativeDefault \/ JsonNativeNull
  \/ JsonNativeConvert \/ FieldsDone
  \/ CopyHeld \/ Finish

JsonSpec == JsonInit /\ [][JsonNext]_jsonVars

-----------------------------------------------------------------------------
(* json.loads of the first n members: a repeated key keeps its last value. *)
LastOf(members, n, key) ==
  CHOOSE j \in 1..n : /\ members[j].key = key
                      /\ \A k \in (j + 1)..n : members[k].key # key

JsonLoads(members, n) ==
  [key \in {members[j].key : j \in 1..n} |-> members[LastOf(members, n, key)].value]

loaded == JsonLoads(obj, Len(obj))

(* Every variable keeps its type: in particular the output only ever holds *)
(* values under non-empty paths, never Missing or an error outcome.        *)
JsonTypeOK ==
  /\ specs \in Schemas /\ obj \in Objects
  /\ partial \in PartialArgs /\ unknown \in Unknowns /\ isObject \in BOOLEAN
  /\ at \in Nat \ {0}
  /\ slots \in [1..Len(specs) -> Values \cup {None, Missing}]
  /\ held \in Seq(Member)
  /\ i \in 1..(Len(specs) + 1)
  /\ DOMAIN out \subseteq Paths
  /\ out \in [DOMAIN out -> Values \cup {None}]
  /\ status \in JsonStatuses

(* An object the fused loop completes is one that stock's json.loads and   *)
(* load accept, with the same output, repeated keys and unknown keys       *)
(* included ("mirrors run_one exactly"), as long as the core tells every    *)
(* field what stock tells it of partial.                                   *)
JsonDoneMatchesStock ==
  status = "done" /\ partialsKept =>
    /\ ~StockRaises(specs, loaded, partial, unknown)
    /\ out = StockResult(specs, loaded, partial, unknown)

(* KeyboardInterrupt leaves the fused loop only where stock would be       *)
(* interrupted too, with no field before it that stock treats differently. *)
JsonInterruptMatchesStock ==
  status = "interrupted" /\ partialsKept =>
    /\ i <= Len(specs)
    /\ StockField(field, loaded, partial) = Interrupt
    /\ \A k \in 1..(i - 1) :
         /\ StockField(specs[k], loaded, partial) \notin {Fail, Interrupt}
         /\ ~Clash(specs, loaded, partial, k)

(* The fused loop defers only for a reason: the value is not an object,    *)
(* the schema shares a data key or has a callback field, there is an       *)
(* unknown key to reject, stock has an error at the very field the loop    *)
(* stopped at, or the element or validators of that field do not model the *)
(* value.  No interrupt of user code becomes a deferral (to_fallback).     *)
JsonFallbackJustified ==
  status = "fallback" /\ partialsKept =>
    \/ ~isObject \/ ~DistinctDataKeys
    \/ \E k \in 1..Len(specs) : ~specs[k].native
    \/ RaisesUnknown(specs, loaded, unknown)
    \/ StockErrs(specs, loaded, partial, i)
    \/ /\ i <= Len(specs) /\ slots[i] \in Values
       /\ LET r == Apply(field, slots[i], FieldPartial(field, corePartial))
          IN  r = Fail \/ (r \notin Outcomes /\ Check(field, r) = "fail")

-----------------------------------------------------------------------------
(* The inductive invariant of RecordProofs, of objects with partialsKept:  *)
(* after n members the buckets hold what json.loads of those members gives *)
(* each field, and held the unknown rest of it.                            *)
HasLast(members, n) ==
  \A j \in 1..n : \E k \in 1..n :
    /\ members[k].key = members[j].key
    /\ \A l \in (k + 1)..n : members[l].key # members[j].key

UnknownPart(d) == [key \in UnknownKeys(specs, d) |-> d[key]]

Learned(n) ==
  LET d == JsonLoads(obj, n)
  IN  /\ DistinctDataKeys
      /\ HasLast(obj, n)
      /\ \A k \in 1..Len(specs) : slots[k] = Raw(specs[k], d)
      /\ unknown = "raise" => UnknownKeys(specs, d) = {}
      /\ unknown # "include" => held = <<>>
      /\ unknown = "include" => /\ HasLast(held, Len(held))
                                /\ JsonLoads(held, Len(held)) = UnknownPart(d)

(* The output when the third pass has copied the first n held members. *)
Copied(n) ==
  LET d == JsonLoads(held, n)
  IN  WithUnknown(StockOut(specs, loaded, partial, Len(specs)), d, DOMAIN d)

JsonIInv ==
  /\ JsonTypeOK
  /\ status \in {"entry", "bucket"} => i = 1 /\ out = <<>>
  /\ status = "entry" =>
       /\ at = 1 /\ held = <<>>
       /\ \A k \in 1..Len(specs) : slots[k] = Missing
  /\ status = "bucket" => Learned(at - 1)
  /\ status \in {"fields", "include", "done", "interrupted"} =>
       Learned(Len(obj)) /\ Accepted(loaded, i - 1)
  /\ status = "fields" => out = StockOut(specs, loaded, partial, i - 1)
  /\ status = "include" =>
       /\ i = Len(specs) + 1 /\ at <= Len(held) + 1
       /\ HasLast(held, at - 1) /\ out = Copied(at - 1)
  /\ status = "done" =>
       i = Len(specs) + 1 /\ out = StockResult(specs, loaded, partial, unknown)
  /\ status = "interrupted" =>
       i <= Len(specs) /\ StockField(field, loaded, partial) = Interrupt
  /\ JsonFallbackJustified
=============================================================================
