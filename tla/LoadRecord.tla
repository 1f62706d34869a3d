----------------------------- MODULE LoadRecord -----------------------------
(***************************************************************************)
(* LoadSerializer::run_one (src/load/serializer.rs): one record through    *)
(* the accelerated per-field loop.  The loop handles only the happy path:  *)
(* it stops in "fallback" (AccelFallback) at the first thing it does not   *)
(* model, and in "interrupted" when user code raised KeyboardInterrupt or  *)
(* SystemExit, which to_fallback lets through.                             *)
(*                                                                         *)
(* An element's conversion is the constant Apply of LoadStep, here         *)
(* LoadElement::apply.                                                     *)
(***************************************************************************)
EXTENDS LoadStep

CONSTANT Inputs  \* the records offered: functions from keys to values

Statuses == {"entry", "fields", "include", "done", "fallback", "interrupted"}

ASSUME InputsType == \A d \in Inputs : IsRecord(d)

VARIABLES
  data,    \* the record: fixed, as isDict is, for the whole loop
  isDict,  \* data is a plain dict and not another Mapping or a non-mapping
  extra    \* unknown keys the INCLUDE pass has still to copy

call == <<specs, data, partial, unknown, isDict>>
vars == <<specs, data, partial, unknown, isDict, i, out, extra, status>>

Init ==
  /\ specs \in Schemas /\ data \in Inputs
  /\ partial \in PartialArgs /\ unknown \in Unknowns /\ isDict \in BOOLEAN
  /\ i = 1 /\ out = <<>> /\ extra = {} /\ status = "entry"

raw == Raw(field, data)

AtField(native) ==
  status = "fields" /\ i <= Len(specs) /\ field.native = native

Skip == i' = i + 1 /\ UNCHANGED <<call, out, extra, status>>

Stop(s) == status' = s /\ UNCHANGED <<call, i, out, extra>>

SetLoadValue(v) ==
  \/ Blocked(out, field.path) /\ Stop("fallback")
  \/ /\ ~Blocked(out, field.path)
     /\ out' = Put(out, field.path, v)
     /\ i' = i + 1
     /\ UNCHANGED <<call, extra, status>>

-----------------------------------------------------------------------------
(* data.cast::<PyDict>(): another Mapping is left to stock marshmallow. *)
Enter ==
  /\ status = "entry"
  /\ IF isDict THEN Stop("fields") ELSE Stop("fallback")

(* The arms of LoadFieldSpec::Native and ::Callback, in the code's order.  *)
PartialSkip ==
  /\ status = "fields" /\ i <= Len(specs)
  /\ raw = Missing /\ AllowsMissing(corePartial, field.attr)
  /\ Skip

(* Mutant of NativeRequired: a missing required field is skipped. *)
NativeRequiredSkipped ==
  /\ AtField(TRUE) /\ raw = Missing /\ ~AllowsMissing(corePartial, field.attr)
  /\ field.required
  /\ Skip

NativeRequired ==
  /\ AtField(TRUE) /\ raw = Missing /\ ~AllowsMissing(corePartial, field.attr)
  /\ field.required
  /\ Stop("fallback")

(* Mutant of NativeDefault: default.is(missing) is not tested. *)
NativeDefaultUntested ==
  /\ AtField(TRUE) /\ raw = Missing /\ ~AllowsMissing(corePartial, field.attr)
  /\ ~field.required
  /\ SetLoadValue(field.default)

NativeDefault ==
  /\ AtField(TRUE) /\ raw = Missing /\ ~AllowsMissing(corePartial, field.attr)
  /\ ~field.required
  /\ \/ field.default = Missing /\ Skip
     \/ field.default # Missing /\ SetLoadValue(field.default)

NativeNull ==
  /\ AtField(TRUE) /\ raw = None
  /\ \/ field.allowNone /\ SetLoadValue(None)
     \/ ~field.allowNone /\ Stop("fallback")

NativeConvert ==
  /\ AtField(TRUE) /\ raw \in Values
  /\ LET r == Apply(field, raw, FieldPartial(field, corePartial))
     IN  \/ r = Fail /\ Stop("fallback")
         \/ r = Interrupt /\ Stop("interrupted")
         \/ /\ r \notin Outcomes
            /\ \/ Check(field, r) = "pass" /\ SetLoadValue(r)
               \/ Check(field, r) = "fail" /\ Stop("fallback")
               \/ Check(field, r) = "interrupt" /\ Stop("interrupted")

(* Mutant of CallbackField: to_fallback turns every exception into a       *)
(* deferral, KeyboardInterrupt included.                                   *)
CallbackFieldSwallows ==
  /\ AtField(FALSE) /\ ~(raw = Missing /\ AllowsMissing(corePartial, field.attr))
  /\ LET r == Deserialize(field, raw, CoreSub(field, partial))
     IN  \/ r \in {Fail, Interrupt} /\ Stop("fallback")
         \/ r = Missing /\ Skip
         \/ r \notin Outcomes /\ SetLoadValue(r)

CallbackField ==
  /\ AtField(FALSE) /\ ~(raw = Missing /\ AllowsMissing(corePartial, field.attr))
  /\ LET r == Deserialize(field, raw, CoreSub(field, partial))
     IN  \/ r = Fail /\ Stop("fallback")
         \/ r = Interrupt /\ Stop("interrupted")
         \/ r = Missing /\ Skip
         \/ r \notin Outcomes /\ SetLoadValue(r)

(* After the loop: unknown-key handling against the payload's known_keys.  *)
UnknownPass ==
  /\ status = "fields" /\ i = Len(specs) + 1
  /\ LET rest == UnknownKeys(specs, data)
     IN  \/ unknown = "raise" /\ rest # {} /\ Stop("fallback")
         \/ unknown = "raise" /\ rest = {} /\ Stop("done")
         \/ unknown = "exclude" /\ Stop("done")
         \/ /\ unknown = "include"
            /\ status' = "include" /\ extra' = rest
            /\ UNCHANGED <<call, i, out>>

(* One turn of the INCLUDE loop: PyDict::set_item under the literal key. *)
CopyUnknown ==
  /\ status = "include"
  /\ \E k \in extra :
       /\ out' = Put(out, <<k>>, data[k])
       /\ extra' = extra \ {k}
  /\ UNCHANGED <<call, i, status>>

FinishInclude == status = "include" /\ extra = {} /\ Stop("done")

Next ==
  \/ Enter
  \/ PartialSkip \/ NativeRequired \/ NativeDefault \/ NativeNull
  \/ NativeConvert \/ CallbackField
  \/ UnknownPass \/ CopyUnknown \/ FinishInclude

Spec == Init /\ [][Next]_vars

-----------------------------------------------------------------------------
(* Every variable keeps its type: in particular the output only ever holds *)
(* values under non-empty paths, never Missing or an error outcome.        *)
TypeOK ==
  /\ specs \in Schemas /\ data \in Inputs
  /\ partial \in PartialArgs /\ unknown \in Unknowns /\ isDict \in BOOLEAN
  /\ i \in 1..(Len(specs) + 1)
  /\ DOMAIN out \subseteq Paths
  /\ out \in [DOMAIN out -> Values \cup {None}]
  /\ extra \subseteq UnknownKeys(specs, data)
  /\ status \in Statuses

Matches ==
  /\ ~StockRaises(specs, data, partial, unknown)
  /\ out = StockResult(specs, data, partial, unknown)

(* A record the loop completes is one stock accepts, with the same output: *)
(* the same leaves and values whatever the fields' order, defaults,        *)
(* partial names, dotted keys and unknown keys (the promise of README.md   *)
(* "producing identical results", for one record), as long as the core     *)
(* tells every field what stock tells it of partial.                       *)
DoneMatchesStock == status = "done" /\ partialsKept => Matches

(* The same of every True or collection of names: "Mirrors marshmallow's   *)
(* `_deserialize` handling" (validators.rs, Partial).  It does not for a   *)
(* nested schema whose field has a data key other than its name.           *)
CollectionLikeStock == status = "done" /\ ~Falsy(partial) => Matches

(* The same of partial=False and [], for which as_kwarg omits the argument        *)
(* "matching marshmallow for a non-partial load" (validators.rs).  It does *)
(* not for a nested schema with a partial of its own.                      *)
NotPartialLikeStock == status = "done" /\ Falsy(partial) => Matches

(* KeyboardInterrupt leaves the loop only at a field where stock would be  *)
(* interrupted too, with no field before it that stock treats differently. *)
InterruptMatchesStock ==
  status = "interrupted" /\ partialsKept =>
    /\ i <= Len(specs)
    /\ StockField(field, data, partial) = Interrupt
    /\ \A k \in 1..(i - 1) :
         /\ StockField(specs[k], data, partial) \notin {Fail, Interrupt}
         /\ ~Clash(specs, data, partial, k)

(* The loop defers only for a reason: data is not a plain dict, stock has  *)
(* an error at the very field the loop stopped at, or that field has a     *)
(* value its element or validators do not model, or every field is through *)
(* and there is an unknown key to reject.  No record is re-run for nothing *)
(* and no interrupt of user code becomes a deferral (to_fallback).         *)
FallbackJustified ==
  status = "fallback" /\ partialsKept =>
    \/ ~isDict
    \/ StockErrs(specs, data, partial, i)
    \/ /\ i <= Len(specs) /\ field.native /\ raw \in Values
       /\ LET r == Apply(field, raw, FieldPartial(field, corePartial))
          IN  r = Fail \/ (r \notin Outcomes /\ Check(field, r) = "fail")
    \/ i = Len(specs) + 1 /\ RaisesUnknown(specs, data, unknown)

-----------------------------------------------------------------------------
(* The inductive invariant of RecordProofs, of records with partialsKept:  *)
(* while the loop runs, stock accepts every field behind it, and the       *)
(* output is the one stock has after the same fields and the unknown keys  *)
(* copied so far.                                                          *)
IInv ==
  /\ TypeOK
  /\ Accepted(data, i - 1)
  /\ status \in {"entry", "fields"} => out = StockOut(specs, data, partial, i - 1)
  /\ status = "include" =>
       /\ i = Len(specs) + 1 /\ unknown = "include"
       /\ out = WithUnknown(StockOut(specs, data, partial, Len(specs)), data,
                            UnknownKeys(specs, data) \ extra)
  /\ status = "done" =>
       /\ i = Len(specs) + 1
       /\ unknown = "raise" => UnknownKeys(specs, data) = {}
       /\ out = StockResult(specs, data, partial, unknown)
  /\ status = "interrupted" =>
       i <= Len(specs) /\ StockField(field, data, partial) = Interrupt
  /\ FallbackJustified
=============================================================================
