------------------------------- MODULE DoLoad -------------------------------
(***************************************************************************)
(* Schema.load with the core installed: _patched_do_load, the transcribed  *)
(* _accelerated_load around the core's run over the records, and the       *)
(* re-run of the saved _orig_do_load after an AccelFallback                *)
(* (python/marshmallow_core/_patch.py).  One call from entry to outcome.   *)
(***************************************************************************)
EXTENDS LoadCall

CONSTANT Calls   \* the calls of load

VARIABLES
  call,         \* the call and the user code it meets
  dataState,    \* the state of the caller's data
  phase,        \* where the call is
  item,         \* the record the core is at
  errors,       \* the stages whose errors were collected
  ran,          \* how often each kind of user hook has run
  attempts,     \* how often each record's fields have been loaded
  interrupted,  \* a KeyboardInterrupt has arrived
  outcome

vars == <<call, dataState, phase, item, errors, ran, attempts, interrupted, outcome>>

Promise == INSTANCE StockLoad WITH
  call <- call, outcome <- outcome, interrupted <- interrupted

ASSUME CallsWellFormed == \A c \in Calls : WellFormed(c)

Hooks == {"pre", "fields", "schema", "post", "handler"}
Phases == Hooks \cup {"dispatch", "core", "orig", "returned"}

Init ==
  /\ call \in Calls
  /\ dataState = "fresh" /\ phase = "dispatch" /\ item = 1 /\ errors = {}
  /\ ran = [h \in Hooks |-> 0] /\ attempts = [k \in DOMAIN call.items |-> 0]
  /\ interrupted = FALSE /\ outcome = Pending

HasHooks ==
  \/ call.pre["fresh"].verdict # "absent"
  \/ \E v \in {call.fields, call.schema, call.post} : v # "absent"

(* An unverified transcription matters only to schemas with load hooks. *)
Accelerable ==
  \/ call.refusal = "nothing"
  \/ call.refusal = "transcription" /\ ~HasHooks

Goto(p) == phase' = p /\ UNCHANGED outcome

Return(o) == phase' = "returned" /\ outcome' = o

(* The records whose fields are deserialized now: native validators,       *)
(* Callback fields and Python validators run for them.                     *)
Loaded(ks) ==
  attempts' = [k \in DOMAIN attempts |-> IF k \in ks THEN attempts[k] + 1 ELSE attempts[k]]

Ran(hs) == ran' = [h \in Hooks |-> IF h \in hs THEN ran[h] + 1 ELSE ran[h]]

-----------------------------------------------------------------------------
Dispatch ==
  /\ phase = "dispatch"
  /\ Goto(IF ~Accelerable THEN "orig" ELSE IF HasHooks THEN "pre" ELSE "core")
  /\ UNCHANGED <<call, dataState, item, errors, ran, attempts, interrupted>>

(* pre_load, in the accelerated path: only ValidationError is caught.      *)
RunPreLoad ==
  /\ phase = "pre"
  /\ LET pre == call.pre[dataState]
     IN  /\ dataState' = pre.left
         /\ Ran(IF pre.verdict = "absent" THEN {} ELSE {"pre"})
         /\ \/ pre.verdict \in {"absent", "ok"} /\ Goto("core") /\ UNCHANGED errors
            \/ pre.verdict = "invalid" /\ errors' = {"pre"} /\ Goto("handler")
            \/ pre.verdict = "error" /\ Return(Raised) /\ UNCHANGED errors
  /\ UNCHANGED <<call, item, attempts, interrupted>>

(* Mutant of CoreItem: the fallback calls the patched method again.        *)
CoreItemRetried ==
  /\ phase = "core" /\ item <= Len(call.items)
  /\ IF Records(call, "fresh")[item] = "ok"
     THEN item' = item + 1 /\ Goto("core")
     ELSE item' = 1 /\ Goto("dispatch")
  /\ Loaded({item})
  /\ UNCHANGED <<call, dataState, errors, ran, interrupted>>

(* One record of ld.run: pre_load saw the data as it was given.  Whatever  *)
(* the record's trouble, the core gives up the records before it too.      *)
CoreItem ==
  /\ phase = "core" /\ item <= Len(call.items)
  /\ IF Records(call, "fresh")[item] = "ok"
     THEN item' = item + 1 /\ Goto("core")
     ELSE item' = 1 /\ Goto("orig")
  /\ Loaded({item})
  /\ UNCHANGED <<call, dataState, errors, ran, interrupted>>

(* Mutant of CoreDone: an empty result is taken for none. *)
CoreDoneFalsy ==
  /\ phase = "core" /\ item > Len(call.items)
  /\ IF HasHooks THEN Goto("fields")
     ELSE IF call.items = <<>> THEN Goto("dispatch") ELSE Return(Returned)
  /\ UNCHANGED <<call, dataState, item, errors, ran, attempts, interrupted>>

CoreDone ==
  /\ phase = "core" /\ item > Len(call.items)
  /\ IF HasHooks THEN Goto("fields") ELSE Return(Returned)
  /\ UNCHANGED <<call, dataState, item, errors, ran, attempts, interrupted>>

(* _invoke_field_validators: ValidationErrors go to the error store. *)
FieldValidators ==
  /\ phase = "fields"
  /\ Ran(IF call.fields = "absent" THEN {} ELSE {"fields"})
  /\ \/ call.fields \in {"absent", "ok"} /\ Goto("schema") /\ UNCHANGED errors
     \/ call.fields = "invalid" /\ errors' = errors \cup {"fields"} /\ Goto("schema")
     \/ call.fields = "error" /\ Return(Raised) /\ UNCHANGED errors
  /\ UNCHANGED <<call, dataState, item, attempts, interrupted>>

(* Mutant of SchemaValidators: field_errors is taken before the field      *)
(* validators run.                                                         *)
SchemaValidatorsEarly ==
  /\ phase = "schema"
  /\ LET verdict == IF SchemaRuns(call, {}) THEN call.schema ELSE "absent"
     IN  /\ Ran(IF verdict = "absent" THEN {} ELSE {"schema"})
         /\ \/ verdict \in {"absent", "ok"} /\ Goto("post") /\ UNCHANGED errors
            \/ verdict = "invalid" /\ errors' = errors \cup {"schema"} /\ Goto("post")
            \/ verdict = "error" /\ Return(Raised) /\ UNCHANGED errors
  /\ UNCHANGED <<call, dataState, item, attempts, interrupted>>

SchemaValidators ==
  /\ phase = "schema"
  /\ LET verdict == IF SchemaRuns(call, errors) THEN call.schema ELSE "absent"
     IN  /\ Ran(IF verdict = "absent" THEN {} ELSE {"schema"})
         /\ \/ verdict \in {"absent", "ok"} /\ Goto("post") /\ UNCHANGED errors
            \/ verdict = "invalid" /\ errors' = errors \cup {"schema"} /\ Goto("post")
            \/ verdict = "error" /\ Return(Raised) /\ UNCHANGED errors
  /\ UNCHANGED <<call, dataState, item, attempts, interrupted>>

(* Mutant of RunPostLoad: an error of the hook re-runs the load.           *)
RunPostLoadRetried ==
  /\ phase = "post"
  /\ LET verdict == IF PostRuns(call, errors) THEN call.post ELSE "absent"
     IN  /\ Ran(IF verdict = "absent" THEN {} ELSE {"post"})
         /\ \/ verdict = "absent" /\ errors # {} /\ Goto("handler")
            \/ verdict \in {"absent", "ok"} /\ errors = {} /\ Return(Returned)
            \/ verdict \in {"invalid", "error"} /\ Goto("orig")
  /\ UNCHANGED <<call, dataState, item, errors, attempts, interrupted>>

RunPostLoad ==
  /\ phase = "post"
  /\ LET verdict == IF PostRuns(call, errors) THEN call.post ELSE "absent"
     IN  /\ Ran(IF verdict = "absent" THEN {} ELSE {"post"})
         /\ \/ verdict = "absent" /\ errors # {} /\ Goto("handler") /\ UNCHANGED errors
            \/ verdict \in {"absent", "ok"} /\ errors = {}
               /\ Return(Returned) /\ UNCHANGED errors
            \/ verdict = "invalid" /\ errors' = {"post"} /\ Goto("handler")
            \/ verdict = "error" /\ Return(Raised) /\ UNCHANGED errors
  /\ UNCHANGED <<call, dataState, item, attempts, interrupted>>

HandleError ==
  /\ phase = "handler"
  /\ Ran({"handler"})
  /\ Return(Reported(call, errors))
  /\ UNCHANGED <<call, dataState, item, errors, attempts, interrupted>>

(* The records stock's own loop comes to: pre_load let it start, and an    *)
(* exception in a record ends it.                                          *)
Reached(c, d) ==
  {k \in DOMAIN c.items : /\ c.pre[d].verdict \notin {"invalid", "error"}
                          /\ \A j \in 1..(k - 1) : Records(c, d)[j] # "error"}

(* The saved original, on the caller's data as the attempt left it.        *)
OrigDoLoad ==
  /\ phase = "orig"
  /\ LET pre == call.pre[dataState]
         field == FieldErrors(call, dataState)
         runsBody == pre.verdict \notin {"invalid", "error"}
                     /\ Deserialized(call, dataState) # "error"
         o == StockOutcome(call, dataState)
     IN  /\ Ran({h \in Hooks :
                  \/ h = "pre" /\ pre.verdict # "absent"
                  \/ h = "fields" /\ runsBody /\ call.fields # "absent"
                  \/ h = "schema" /\ runsBody /\ call.fields # "error"
                     /\ SchemaRuns(call, field)
                  \/ h = "post" /\ runsBody /\ call.fields # "error"
                     /\ ~(call.schema = "error" /\ SchemaRuns(call, field))
                     /\ PostRuns(call, BodyErrors(call, dataState))
                  \/ h = "handler" /\ o.kind \in {"invalid", "custom"}})
         /\ Loaded(Reached(call, dataState))
         /\ dataState' = pre.left
         /\ Return(o)
  /\ UNCHANGED <<call, item, errors, interrupted>>

(* KeyboardInterrupt or SystemExit in any user code; to_fallback re-raises *)
(* it and no except clause on the way catches it.                          *)
Interrupt ==
  /\ phase # "returned"
  /\ interrupted' = TRUE
  /\ Return(Interrupted)
  /\ UNCHANGED <<call, dataState, item, errors, ran, attempts>>

Next ==
  \/ Dispatch \/ RunPreLoad \/ CoreItem \/ CoreDone
  \/ FieldValidators \/ SchemaValidators \/ RunPostLoad \/ HandleError
  \/ OrigDoLoad \/ Interrupt

Spec == Init /\ [][Next]_vars /\ WF_vars(Next)

-----------------------------------------------------------------------------
Stages == {"pre", "deserialize", "fields", "schema", "post"}
Kinds == {"pending", "result", "invalid", "custom", "error", "interrupt"}

TypeOK ==
  /\ call \in Calls /\ dataState \in DataStates /\ phase \in Phases
  /\ item \in 1..(Len(call.items) + 1)
  /\ errors \in SUBSET Stages
  /\ ran \in [Hooks -> 0..2] /\ attempts \in [DOMAIN call.items -> 0..2]
  /\ interrupted \in BOOLEAN
  /\ outcome \in [kind: Kinds, errors: SUBSET Stages]

(* No hook runs more often than in stock, except pre_load, and pre_load    *)
(* twice only when the core deferred a record (README.md: "marshmallow     *)
(* re-runs the unchanged pure-Python path"): an error of a validator, of   *)
(* post_load or of handle_error is reported and never starts a re-run.     *)
HooksRunAgainOnlyAfterDeferral ==
  /\ \A h \in Hooks \ {"pre"} : ran[h] <= 1
  /\ ran["pre"] = 2 =>
       \E k \in DOMAIN call.items : Records(call, "fresh")[k] # "ok"

(* The first n records load in the core. *)
AllOk(n) == \A k \in 1..n : Records(call, "fresh")[k] = "ok"

(* A record's Callback fields and Python validators run a second time only *)
(* when the core gave up at that record or at a later one: stock's re-run  *)
(* repeats what the core had loaded, once, and the core itself stops at    *)
(* the first record in trouble.  Nothing that went wrong after the records *)
(* (a validator, post_load) loads them again.                              *)
RecordsLoadAgainOnlyAfterDeferral ==
  \A k \in DOMAIN call.items :
    attempts[k] >= 2 =>
      attempts[k] = 2 /\ AllOk(k - 1) /\ ~AllOk(Len(call.items))

(* pre_load hooks that do the same when they run again on the data they    *)
(* left: what the re-run needs.                                            *)
Replayable(c) ==
  LET first == c.pre["fresh"]
      again == c.pre[first.left]
  IN  first.verdict \in {"absent", "ok"} =>
        again.verdict = first.verdict /\ again.view = first.view

(* The accelerated call keeps the promise of the stock one: it never does  *)
(* anything but return the outcome stock has: the result, the same stages' *)
(* errors through handle_error once, the exception, or the interrupt that  *)
(* came.                                                                   *)
RefinesPromise == Promise!Safety

(* And it does return, whatever deferred and was run again on the way.     *)
CallReturns == Promise!Returns

(* README.md: the core raises AccelFallback on any edge case, "so          *)
(* marshmallow re-runs the unchanged pure-Python path and every error      *)
(* message and value matches exactly".                                     *)
IdenticalOutcome ==
  outcome \notin {Pending, Interrupted} =>
    outcome = StockOutcome(call, "fresh")

-----------------------------------------------------------------------------
(* The inductive invariant of DoLoadProofs: at each stage the errors       *)
(* collected are the ones stock has there, and a re-run starts either from *)
(* the data as given or from what accepting pre_load hooks left of it.     *)
Accepted == call.pre["fresh"].verdict \in {"absent", "ok"}

LeftByPreLoad == Accepted /\ dataState = call.pre["fresh"].left

SchemaError == call.schema = "error" /\ SchemaRuns(call, FieldErrors(call, "fresh"))

StageInv ==
  /\ phase # "returned" => outcome = Pending
  /\ phase \in {"dispatch", "pre"} => dataState = "fresh" /\ item = 1 /\ errors = {}
  /\ phase \in {"core", "fields", "schema", "post"} => LeftByPreLoad
  /\ phase = "orig" => dataState = "fresh" \/ LeftByPreLoad
  /\ phase = "core" => errors = {} /\ AllOk(item - 1)
  /\ phase \in {"fields", "schema", "post"} => AllOk(Len(call.items))
  /\ phase = "fields" => errors = {}
  /\ phase = "schema" => call.fields # "error" /\ errors = FieldErrors(call, "fresh")
  /\ phase = "post" =>
       call.fields # "error" /\ ~SchemaError /\ errors = BodyErrors(call, "fresh")
  /\ phase = "handler" =>
       ~Raises(call, "fresh") /\ errors = Errors(call, "fresh") /\ errors # {}

(* The hooks that a call in a phase may have run. *)
MayHaveRun(p) ==
  CASE p \in {"dispatch", "pre"}          -> {}
    [] p \in {"core", "fields", "orig"}   -> {"pre"}
    [] p = "schema"                       -> {"pre", "fields"}
    [] p = "post"                         -> {"pre", "fields", "schema"}
    [] p = "handler"                      -> Hooks \ {"handler"}
    [] OTHER                              -> Hooks

RanInv ==
  /\ HooksRunAgainOnlyAfterDeferral
  /\ \A h \in Hooks \ MayHaveRun(phase) : ran[h] = 0
  /\ phase # "returned" => ran["pre"] <= 1
  /\ phase = "orig" /\ ran["pre"] = 1 => ~AllOk(Len(call.items))

(* How often each record was loaded when the call is in each phase. *)
AttemptsInv ==
  /\ RecordsLoadAgainOnlyAfterDeferral
  /\ \A k \in DOMAIN call.items :
       /\ phase \in {"dispatch", "pre"} => attempts[k] = 0
       /\ phase = "core" => attempts[k] = IF k < item THEN 1 ELSE 0
       /\ phase # "returned" => attempts[k] <= 1
       /\ phase = "orig" /\ attempts[k] = 1 => AllOk(k - 1) /\ ~AllOk(Len(call.items))

LoadInv == TypeOK /\ StageInv /\ RanInv /\ AttemptsInv
=============================================================================
