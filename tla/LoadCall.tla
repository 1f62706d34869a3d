------------------------------ MODULE LoadCall ------------------------------
(***************************************************************************)
(* A call of Schema.load, and what stock marshmallow's Schema._do_load     *)
(* answers to it.  marshmallow is a library outside this repository; its   *)
(* stages are the ones _accelerated_load (_patch.py) transcribes.          *)
(*                                                                         *)
(* The user's code is in the call: what its hooks and validators do with   *)
(* this data.  A verdict is "ok", "invalid" (ValidationError) or "error"   *)
(* (any other Exception).  A KeyboardInterrupt may arrive at any time.     *)
(***************************************************************************)
EXTENDS Naturals, Sequences, FiniteSets

Verdicts == {"absent", "ok", "invalid", "error"}
DataStates == {"fresh", "touched"}   \* the caller's data, as given or mutated

(***************************************************************************)
(* pre[d]: what the pre_load hooks do when they run on data in state d:    *)
(* their verdict, the state they leave the caller's data in, and whether   *)
(* the core and the validators see the same records or spoiled ones.       *)
(* items: each record of the data: stock and core load an "ok" one, only   *)
(* stock an "odd" one, an "invalid" one fails a field, an "error" one      *)
(* makes user code raise.                                                  *)
(***************************************************************************)
PreLoad ==
  [DataStates -> [verdict: Verdicts, left: DataStates, view: {"same", "spoiled"}]]

(***************************************************************************)
(* refusal: what of _patched_do_load's conditions the call fails: the      *)
(* unknown= is not the schema's own, the partial= is of an unsupported     *)
(* kind, the schema has no plan, or the running marshmallow is not the one *)
(* _accelerated_load transcribes.                                          *)
(***************************************************************************)
Refusals == {"nothing", "unknown", "partial", "plan", "transcription"}

CallType ==
  [refusal: Refusals, postprocess: BOOLEAN, skipOnFieldErrors: BOOLEAN,
   pre: PreLoad, items: Seq({"ok", "odd", "invalid", "error"}),
   fields: Verdicts, schema: Verdicts, post: Verdicts,
   handler: {"returns", "raises"}]

(* A schema without pre_load hooks leaves its data alone. *)
NoPreLoad == [d \in DataStates |-> [verdict |-> "absent", left |-> d, view |-> "same"]]

WellFormed(c) ==
  /\ c \in CallType
  /\ (\E d \in DataStates : c.pre[d].verdict = "absent") => c.pre = NoPreLoad

Records(c, d) ==
  IF c.pre[d].view = "same" THEN c.items ELSE [k \in DOMAIN c.items |-> "invalid"]

(* Schema._deserialize: an Exception ends it, ValidationErrors accumulate. *)
Deserialized(c, d) ==
  LET kinds == {Records(c, d)[k] : k \in DOMAIN c.items}
  IN  IF "error" \in kinds THEN "error"
      ELSE IF "invalid" \in kinds THEN "invalid" ELSE "ok"

SchemaRuns(c, earlier) ==
  c.schema # "absent" /\ ~(c.skipOnFieldErrors /\ earlier # {})

PostRuns(c, errors) == c.post # "absent" /\ c.postprocess /\ errors = {}

FieldErrors(c, d) ==
  {s \in {"deserialize"} : Deserialized(c, d) = "invalid"}
  \cup {s \in {"fields"} : c.fields = "invalid"}

BodyErrors(c, d) ==
  FieldErrors(c, d)
  \cup {s \in {"schema"} : c.schema = "invalid" /\ SchemaRuns(c, FieldErrors(c, d))}

Errors(c, d) ==
  IF c.pre[d].verdict = "invalid" THEN {"pre"}
  ELSE IF PostRuns(c, BodyErrors(c, d)) /\ c.post = "invalid" THEN {"post"}
  ELSE BodyErrors(c, d)

Raises(c, d) ==
  \/ c.pre[d].verdict = "error"
  \/ /\ c.pre[d].verdict # "invalid"
     /\ \/ Deserialized(c, d) = "error" \/ c.fields = "error"
        \/ c.schema = "error" /\ SchemaRuns(c, FieldErrors(c, d))
        \/ c.post = "error" /\ PostRuns(c, BodyErrors(c, d))

Pending == [kind |-> "pending", errors |-> {}]
Interrupted == [kind |-> "interrupt", errors |-> {}]
Raised == [kind |-> "error", errors |-> {}]
Returned == [kind |-> "result", errors |-> {}]

(* handle_error sees the errors once, then they are raised unless the      *)
(* handler raised something of its own.                                    *)
Reported(c, errors) ==
  [kind |-> IF c.handler = "raises" THEN "custom" ELSE "invalid", errors |-> errors]

StockOutcome(c, d) ==
  IF Raises(c, d) THEN Raised
  ELSE IF Errors(c, d) # {} THEN Reported(c, Errors(c, d)) ELSE Returned
=============================================================================
