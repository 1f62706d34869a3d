---------------------------- MODULE StockRecord ----------------------------
(***************************************************************************)
(* What stock marshmallow's Schema._deserialize computes for one record.   *)
(* marshmallow is a library outside this repository: its behaviour is      *)
(* taken from how src/load/serializer.rs reproduces it and is stated here  *)
(* declaratively, so that the accelerated loops (LoadRecord) are compared  *)
(* with a description of the result and not with a second loop.            *)
(*                                                                         *)
(* An output dict, with the nested dicts that dotted keys build, is a      *)
(* function from the paths of its leaves to their values: the dict         *)
(* {"a": {"b": 1}} is the function << "a", "b" >> :> 1.  Values are atoms: *)
(* a dict-valued leaf that a later dotted path writes into is left out.    *)
(***************************************************************************)
EXTENDS Naturals, Sequences, SequencesExt

CONSTANTS
  Keys,           \* attribute names, data keys and the parts of dotted keys
  Values,         \* values other than None, of inputs and of outputs
  Elements,       \* what distinguishes the conversions of two fields
  None,           \* Python's None
  Missing,        \* marshmallow.missing
  Fail,           \* the outcome "raised an Exception"
  Interrupt,      \* the outcome "raised KeyboardInterrupt or SystemExit"
  Stock(_, _, _)  \* Stock(f, v, p): f._deserialize(v, partial=p), then
                  \* f._validate of its result: a value, Fail or Interrupt

Outcomes == {Missing, Fail, Interrupt}

ASSUME Sentinels ==
  /\ None \notin Values /\ Outcomes \cap (Values \cup {None}) = {}
  /\ Missing # Fail /\ Missing # Interrupt /\ Fail # Interrupt

Paths == Seq(Keys) \ {<<>>}

(***************************************************************************)
(* One entry of the compiled payload: parse_load_field_spec.  native tells *)
(* LoadFieldSpec::Native from ::Callback; of a callback the accelerated    *)
(* loop reads only dataKey, attr and path, the rest is the Field object.   *)
(* consumes: partial reaches a schema nested in the field, of a native     *)
(* element the flag consumes_partial; own: that schema has a partial of    *)
(* its own, which keeps it from being compiled.                            *)
(***************************************************************************)
FieldSpec ==
  {f \in [attr: Keys, dataKey: Keys, path: Paths,
          default: Values \cup {None, Missing}, required: BOOLEAN,
          allowNone: BOOLEAN, native: BOOLEAN, consumes: BOOLEAN, own: BOOLEAN,
          el: Elements] :
     f.own => f.consumes /\ ~f.native}

(***************************************************************************)
(* load(partial=...), the schema's own put in for an absent argument: none *)
(* is Python's None, false is False, all is True, and a collection holds   *)
(* its dotted names as paths.                                              *)
(***************************************************************************)
Partials == [kind: {"none", "false", "all"}, names: {{}}]
            \cup [kind: {"coll"}, names: SUBSET Paths]

AllowsMissing(p, attr) ==
  \/ p.kind = "all"
  \/ p.kind = "coll" /\ <<attr>> \in p.names

(* The names below a prefix: "<name>." stripped off those that start so. *)
Derive(p, name) ==
  IF p.kind = "coll"
  THEN [kind |-> "coll",
        names |-> {Tail(q) : q \in {r \in p.names : Len(r) > 1 /\ Head(r) = name}}]
  ELSE p

(* What stock hands a field as partial=: the names below its data key, any *)
(* other partial as it is, False included; for None it hands nothing, and  *)
(* a nested schema then has its own partial to go by.                      *)
StockPartial(f, p) == Derive(p, f.dataKey)

(***************************************************************************)
(* Field.deserialize(value, attr, data, partial=p), value possibly missing *)
(***************************************************************************)
Deserialize(f, v, p) ==
  CASE v = Missing -> IF f.required THEN Fail ELSE f.default
    [] v = None    -> IF f.allowNone THEN None ELSE Fail
    [] OTHER       -> Stock(f, v, p)

Raw(f, data) == IF f.dataKey \in DOMAIN data THEN data[f.dataKey] ELSE Missing

(* The outcome of one field of _deserialize: a value to store, Missing for *)
(* nothing to store, Fail for an entry in the ErrorStore.                  *)
StockField(f, data, p) ==
  IF Raw(f, data) = Missing /\ AllowsMissing(p, f.attr)
  THEN Missing
  ELSE Deserialize(f, Raw(f, data), StockPartial(f, p))

-----------------------------------------------------------------------------
(***************************************************************************)
(* The output of the first n fields.  Field k stores unless its outcome is *)
(* one of Outcomes; what it stored is live after field n when no later     *)
(* store at its path, or at a prefix of it, replaced it.                   *)
(***************************************************************************)
Stores(specs, data, p, k) == StockField(specs[k], data, p) \notin Outcomes

Live(specs, data, p, n) ==
  {k \in 1..n :
     /\ Stores(specs, data, p, k)
     /\ \A j \in (k + 1)..n :
          Stores(specs, data, p, j) => ~IsPrefix(specs[j].path, specs[k].path)}

StockOut(specs, data, p, n) ==
  LET live == Live(specs, data, p, n)
  IN  [q \in {specs[k].path : k \in live} |->
         StockField(specs[CHOOSE k \in live : specs[k].path = q], data, p)]

(* set_value: a store below a live leaf raises ValueError. *)
Clash(specs, data, p, n) ==
  /\ Stores(specs, data, p, n)
  /\ \E k \in Live(specs, data, p, n - 1) :
       IsStrictPrefix(specs[k].path, specs[n].path)

KnownKeys(specs) == {specs[k].dataKey : k \in 1..Len(specs)}

UnknownKeys(specs, data) == DOMAIN data \ KnownKeys(specs)

(* INCLUDE copies unknown keys last, so they replace what a field stored. *)
WithUnknown(out, data, extra) ==
  [q \in {r \in DOMAIN out : Head(r) \notin extra} \cup {<<u>> : u \in extra} |->
     IF q \in {<<u>> : u \in extra} THEN data[Head(q)] ELSE out[q]]

StockResult(specs, data, p, unknown) ==
  LET out == StockOut(specs, data, p, Len(specs))
  IN  IF unknown = "include"
      THEN WithUnknown(out, data, UnknownKeys(specs, data))
      ELSE out

(* An unknown key that RAISE objects to. *)
RaisesUnknown(specs, data, unknown) ==
  unknown = "raise" /\ UnknownKeys(specs, data) # {}

(* Stock raises something for this record: an error in the store, a        *)
(* ValueError of set_value, or an interrupt.                               *)
StockRaises(specs, data, p, unknown) ==
  \/ \E k \in 1..Len(specs) :
       \/ StockField(specs[k], data, p) \in {Fail, Interrupt}
       \/ Clash(specs, data, p, k)
  \/ RaisesUnknown(specs, data, unknown)

(* The error, no interrupt, that stock has at field n. *)
StockErrs(specs, data, p, n) ==
  /\ n \in 1..Len(specs)
  /\ StockField(specs[n], data, p) = Fail \/ Clash(specs, data, p, n)
=============================================================================
