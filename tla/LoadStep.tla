------------------------------ MODULE LoadStep ------------------------------
(***************************************************************************)
(* What the two per-field loops of src/load/serializer.rs share: run_one,  *)
(* over a Python dict (LoadRecord), and run_one_json, over a parsed JSON   *)
(* object (JsonRecord).                                                    *)
(***************************************************************************)
EXTENDS StockRecord

CONSTANTS
  Schemas,         \* the compiled schema levels: sequences of FieldSpec
  PartialArgs,     \* the values of partial=
  Apply(_, _, _),  \* Apply(f, v, p): the element of f converts v
  Check(_, _)      \* Check(f, r): the validators of f on the result r

VARIABLES
  specs, partial, unknown,  \* the call: fixed for the whole record
  i,       \* the spec the loop is at
  out,     \* the output dict built so far
  status   \* where the loop is, or how it ended

field == specs[i]

Unknowns == {"raise", "exclude", "include"}

ASSUME SchemasType == Schemas \subseteq Seq(FieldSpec)
ASSUME PartialArgsType == PartialArgs \subseteq Partials

(* A record, as a dict: keys with values, possibly None. *)
IsRecord(d) == DOMAIN d \subseteq Keys /\ d \in [DOMAIN d -> Values \cup {None}]

(***************************************************************************)
(* _core_partial: run() and run_json() are handed False for every falsy    *)
(* partial, which Partial::from_arg takes for Partial::None.               *)
(***************************************************************************)
NoPartial == [kind |-> "none", names |-> {}]

Falsy(p) == p.kind \in {"none", "false"} \/ (p.kind = "coll" /\ p.names = {})

CorePartial(p) == IF Falsy(p) THEN NoPartial ELSE p

corePartial == CorePartial(partial)

(* What the core hands a callback field as partial=, nothing for None. *)
CoreSub(f, p) == Derive(CorePartial(p), f.attr)

(* What it hands an element, of which p is the core's: derive is skipped   *)
(* where nothing is forwarded to a nested schema (consumes_partial).       *)
FieldPartial(f, p) == IF f.consumes THEN Derive(p, f.attr) ELSE p

(***************************************************************************)
(* The field is told of this partial what stock tells it, or it cannot     *)
(* tell the difference: no schema nested in it reads partial, or all that  *)
(* was changed is which falsy partial it gets.  The core goes by the       *)
(* attribute name where stock goes by the data key, and drops False.       *)
(***************************************************************************)
PartialKept(f, p) ==
  \/ ~f.consumes
  \/ CoreSub(f, p) = StockPartial(f, p)
  \/ Falsy(CoreSub(f, p)) /\ Falsy(StockPartial(f, p)) /\ ~f.own

partialsKept == \A k \in 1..Len(specs) : PartialKept(specs[k], partial)

(***************************************************************************)
(* The Field objects: what they do with partial.  Nested passes it on to   *)
(* its schema, any other field ignores it, and falsy partials differ only  *)
(* for a schema with a partial of its own.                                 *)
(***************************************************************************)
Handed(f) == {CoreSub(f, p) : p \in PartialArgs} \cup {StockPartial(f, p) : p \in PartialArgs}

ASSUME FieldsTyped ==
  \A s \in Schemas, v \in Values : \A k \in 1..Len(s) : \A p \in Handed(s[k]) :
    Stock(s[k], v, p) \in Values \cup {None, Fail, Interrupt}

ASSUME FieldsReadPartial ==
  \A s \in Schemas, v \in Values : \A k \in 1..Len(s) : \A p, q \in Handed(s[k]) :
    ~s[k].consumes \/ (Falsy(p) /\ Falsy(q) /\ ~s[k].own) =>
      Stock(s[k], v, p) = Stock(s[k], v, q)

(***************************************************************************)
(* The duty of an element and of its field's validators: where they do not *)
(* defer they agree with the Field that is handed the same partial.        *)
(***************************************************************************)
ElementContract(f, v, p) ==
  LET r == Apply(f, v, FieldPartial(f, CorePartial(p)))
      s == Stock(f, v, CoreSub(f, p))
  IN  /\ r \in Values \cup {None, Fail, Interrupt}
      /\ r = Interrupt => s = Interrupt
      /\ r \notin Outcomes =>
           /\ Check(f, r) \in {"pass", "fail", "interrupt"}
           /\ Check(f, r) = "pass" => s = r
           /\ Check(f, r) = "interrupt" => s = Interrupt

ASSUME ElementsSound ==
  \A s \in Schemas, v \in Values, p \in PartialArgs :
    \A k \in 1..Len(s) : s[k].native => ElementContract(s[k], v, p)

-----------------------------------------------------------------------------
(***************************************************************************)
(* set_load_value: a path with a leaf above it defers, any other store     *)
(* replaces what was at the path or below it.                              *)
(***************************************************************************)
Blocked(o, path) == \E q \in DOMAIN o : IsStrictPrefix(q, path)

(* Mutant of Put: the subtree below a replaced leaf survives. *)
PutKeepsBelow(o, path, v) ==
  [q \in DOMAIN o \cup {path} |-> IF q = path THEN v ELSE o[q]]

Put(o, path, v) ==
  [q \in {r \in DOMAIN o : ~IsPrefix(path, r)} \cup {path} |->
     IF q = path THEN v ELSE o[q]]

-----------------------------------------------------------------------------
(* Of both inductive invariants: stock accepts the first n fields of d.    *)
Accepted(d, n) ==
  \A k \in 1..n : /\ StockField(specs[k], d, partial) \notin {Fail, Interrupt}
                  /\ ~Clash(specs, d, partial, k)
=============================================================================
