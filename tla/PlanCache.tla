----------------------------- MODULE PlanCache -----------------------------
(***************************************************************************)
(* The plans the core keeps on a schema instance: built by the first call, *)
(* used by every later one, dropped by invalidate() (_patch.py), and what  *)
(* a plan holds of the instances nested in it (_compiler.py).  A nested    *)
(* instance is either compiled into the plan or called back, and then it   *)
(* answers with a plan of its own.                                         *)
(***************************************************************************)
CONSTANTS
  Schemas,      \* schema instances
  Inner,        \* of each, the instances its Nested fields hold
  Configs,      \* what fields, validators and options can be set to
  UnknownOf,    \* of each configuration, the option unknown
  Compilable,   \* those the compiler makes a plan of
  Fusable,      \* those without a callback field
  Hooks,        \* what classes can be: [load, dump], the instances whose class
                \* has hooks (or overrides, if nested) there
  Unknowns,     \* values of unknown
  Partials,     \* values of partial=
  OwnPartials,  \* those that self.partial is given
  Supported,    \* those the core can model
  Falsy,        \* those it takes for partial=None: None, False, []
  NoPartial,    \* partial=None
  Default,      \* the caller passed no unknown
  Unset,        \* no plan was built yet
  None,         \* the schema was found uncompilable
  Called,       \* in a plan: an instance that is called back
  Nothing,      \* no load under way, no answer yet
  ReconfigureInHooks   \* BOOLEAN: user code under a load changes the schema

Parts(s) == {s} \cup Inner[s]

(* Nesting is one level deep: an inner instance's own inner ones are to it *)
(* what it is to the outer one.                                            *)
ASSUME InnerAssumption ==
  /\ Inner \in [Schemas -> SUBSET Schemas]
  /\ \A s \in Schemas : \A q \in Inner[s] : q # s /\ Inner[q] = {}
(* Unset is neither a plan nor the verdict that there is none. *)
ASSUME UnsetIsNoPlan ==
  /\ Unset # None
  /\ \A s \in Schemas : Unset \notin [Parts(s) -> Configs \cup {Called}]
ASSUME PartialAssumption ==
  /\ Falsy \subseteq Supported /\ Supported \subseteq Partials /\ NoPartial \in Falsy
  /\ OwnPartials \subseteq Partials
ASSUME ReconfigureAssumption == ReconfigureInHooks \in BOOLEAN

Caches == {"dump", "json", "load"}

VARIABLES
  hooked,   \* which instances have hooks; a class keeps its hooks
  config,   \* the present configuration of each instance
  partial,  \* its present self.partial
  plans,    \* _mc_dump_serializer, _mc_dump_json, _mc_load_plan of each
  dirty,    \* instances with a part that changed since their invalidate()
  loading,  \* the load under way: the schema, its arguments, the plan in hand
  answer    \* what the last answer was made from, what stock's would be, and
            \* the schema and partial of the call

vars == <<hooked, config, partial, plans, dirty, loading, answer>>

Init ==
  /\ hooked \in Hooks
  /\ config \in [Schemas -> Configs]
  /\ partial \in [Schemas -> OwnPartials]
  /\ plans = [s \in Schemas |-> [k \in Caches |-> Unset]]
  /\ dirty = {} /\ loading = Nothing /\ answer = Nothing

-----------------------------------------------------------------------------
(* _build_payload and _build_load_payload: a nested instance with a        *)
(* partial of its own ("if not is_root and schema.partial") is called back. *)
Inlines(q, k) ==
  /\ config[q] \in Compilable
  /\ IF k = "load" THEN q \notin hooked.load /\ partial[q] \in Falsy ELSE q \notin hooked.dump

(* Mutant of Build: the schema's own refusals are not looked at. *)
BuildAny(s, k) ==
  [q \in Parts(s) |-> IF q = s \/ Inlines(q, k) THEN config[q] ELSE Called]

Build(s, k) ==
  IF config[s] \notin Compilable THEN None
  ELSE [q \in Parts(s) |-> IF q = s \/ Inlines(q, k) THEN config[q] ELSE Called]

Cached(s, k) == IF plans[s][k] = Unset THEN Build(s, k) ELSE plans[s][k]

(* A called back instance goes through its own dump or load. *)
Through(k) == IF k = "load" THEN "load" ELSE "dump"

CalledBack(s, plan) ==
  IF plan = None THEN Inner[s] ELSE {q \in Inner[s] : plan[q] = Called}

(* _core_partial: what run() gets for a partial. *)
CorePartial(part) == IF part \in Falsy THEN NoPartial ELSE part

(* A record is loaded with a configuration, an unknown and a partial, of   *)
(* which no falsy one exempts a field.                                     *)
Used(f, unknown, part) ==
  [config |-> f, unknown |-> unknown, partial |-> CorePartial(part)]

(* What an instance that is called back is handed of the load's partial:   *)
(* marshmallow hands over what it has, the core what run() got, for None   *)
(* nothing (as_kwarg).                                                     *)
Handed(plan, eff) == IF plan = None THEN eff ELSE CorePartial(eff)

(* The partial the instance then goes by: handed nothing, its own. *)
Received(q, k, handed) == IF k = "load" /\ handed = NoPartial THEN partial[q] ELSE handed

(* It asks for its own plan, unless partial forbids it. *)
Asks(q, k, handed) == k = "load" => Received(q, k, handed) \in Supported

OwnConfig(q, k, handed) ==
  LET own == Cached(q, Through(k))
  IN  IF own = None \/ ~Asks(q, k, handed) THEN config[q] ELSE own[q]

AnswerOf(q, k, handed) ==
  LET f == OwnConfig(q, k, handed) IN Used(f, UnknownOf[f], Received(q, k, handed))

(* What a call's answer is made from, when the plan gives it, or when      *)
(* marshmallow does (plan = None) and calls every inner instance.          *)
Made(s, k, plan, unknown, eff) ==
  [q \in Parts(s) |->
     IF q \in CalledBack(s, plan)
     THEN AnswerOf(q, k, Handed(plan, eff))
     ELSE IF plan = None THEN Used(config[q], unknown, eff)
     ELSE Used(plan[q], UnknownOf[plan[q]], eff)]

(* What marshmallow's own dump or load would make it from. *)
Stock(s, k, unknown, eff) ==
  [q \in Parts(s) |->
     IF q = s THEN Used(config[s], unknown, eff)
     ELSE Used(config[q], UnknownOf[config[q]], Received(q, k, eff))]

(* The plans that are there after a call of s: of the caches it asked, and *)
(* of the instances called back.                                           *)
Keep(s, ks, asking, k) ==
  plans' = [r \in Schemas |-> [j \in Caches |->
              IF (r = s /\ j \in ks) \/ (r \in asking /\ j = Through(k))
              THEN Cached(r, j) ELSE plans[r][j]]]

(* A call is answered; ks are the caches it asked itself. *)
Answer(s, k, plan, ks, unknown, eff) ==
  /\ answer' = [made |-> Made(s, k, plan, unknown, eff),
                stock |-> Stock(s, k, unknown, eff), schema |-> s, partial |-> eff]
  /\ Keep(s, ks, {q \in CalledBack(s, plan) : Asks(q, k, Handed(plan, eff))}, k)

-----------------------------------------------------------------------------
(* A schema is changed, and the caller owes an invalidate() of it and of   *)
(* every schema it is nested in, before they are called again.             *)
Busy(s) == loading # Nothing /\ s \in Parts(loading.schema) /\ ~ReconfigureInHooks

Reconfigure(s) ==
  /\ ~Busy(s)
  /\ \E f \in Configs \ {config[s]} : config' = [config EXCEPT ![s] = f]
  /\ dirty' = dirty \cup {r \in Schemas : s \in Parts(r)}
  /\ answer' = Nothing
  /\ UNCHANGED <<hooked, partial, plans, loading>>

(* R4: self.partial is read by every call, and by no plan but those that   *)
(* the instance is nested in.                                              *)
SetPartial(s) ==
  /\ ~Busy(s)
  /\ \E p \in OwnPartials \ {partial[s]} : partial' = [partial EXCEPT ![s] = p]
  /\ dirty' = dirty \cup {r \in Schemas : s \in Inner[r]}
  /\ answer' = Nothing
  /\ UNCHANGED <<hooked, config, plans, loading>>

(* Mutant of Dropped: a cache is forgotten. *)
DroppedPlans == {"dump", "load"}

Dropped == Caches

Invalidate(s) ==
  /\ plans' = [plans EXCEPT ![s] = [k \in Caches |-> IF k \in Dropped THEN Unset ELSE @[k]]]
  /\ dirty' = dirty \ {s}
  /\ answer' = Nothing
  /\ UNCHANGED <<hooked, config, partial, loading>>

-----------------------------------------------------------------------------
Callable(s) == Parts(s) \cap dirty = {} /\ loading = Nothing

(* _patched_serialize: the plan answers, or is given up for marshmallow.   *)
DumpAnswer(s, plan, ks) == Answer(s, "dump", plan, ks, UnknownOf[config[s]], NoPartial)

Dump(s) ==
  /\ Callable(s)
  /\ \E plan \in {Cached(s, "dump"), None} : DumpAnswer(s, plan, {"dump"})
  /\ UNCHANGED <<hooked, config, partial, dirty, loading>>

(* _patched_dumps without arguments: what the writer defers goes to dump.  *)
Dumps(s) ==
  /\ Callable(s) /\ s \notin hooked.dump
  /\ \/ Cached(s, "json") # None /\ DumpAnswer(s, Cached(s, "json"), {"json"})
     \/ \E plan \in {Cached(s, "dump"), None} : DumpAnswer(s, plan, {"json", "dump"})
  /\ UNCHANGED <<hooked, config, partial, dirty, loading>>

(* The arguments of a load, with what None stands for. *)
EffUnknown(s, arg) == IF arg = Default THEN UnknownOf[config[s]] ELSE arg
EffPartial(s, arg) == IF arg = NoPartial THEN partial[s] ELSE arg

Accelerable(s, unknown, eff) == unknown = UnknownOf[config[s]] /\ eff \in Supported

(* _patched_loads: the plan reads JSON itself.  What it does not take goes *)
(* to load, which asks for the same plan: BeginLoad.                       *)
FusedLoads(s, unknown, eff) ==
  /\ Callable(s) /\ s \notin hooked.load
  /\ Accelerable(s, unknown, eff)
  /\ LET plan == Cached(s, "load") IN
     /\ plan # None /\ \A q \in Parts(s) : plan[q] \in Fusable
     /\ Answer(s, "load", plan, {"load"}, unknown, eff)
  /\ UNCHANGED <<hooked, config, partial, dirty, loading>>

(* _patched_do_load takes the plan, and then user code runs: hooks around  *)
(* the core, callback fields and validators under it.                      *)
BeginLoad(s, unknown, eff) ==
  /\ Callable(s)
  /\ LET asks == Accelerable(s, unknown, eff) IN
     /\ loading' = [schema |-> s, unknown |-> unknown, partial |-> eff,
                    plan |-> IF asks THEN Cached(s, "load") ELSE None]
     /\ Keep(s, IF asks THEN {"load"} ELSE {}, {}, "load")
  /\ answer' = Nothing
  /\ UNCHANGED <<hooked, config, partial, dirty>>

(* The core answers, or, after an AccelFallback, marshmallow.              *)
EndLoad ==
  /\ loading # Nothing
  /\ \E plan \in {loading.plan, None} :
       Answer(loading.schema, "load", plan, {}, loading.unknown, loading.partial)
  /\ loading' = Nothing
  /\ UNCHANGED <<hooked, config, partial, dirty>>

Load(s) ==
  \E u \in Unknowns \cup {Default}, p \in Partials :
    LET unknown == EffUnknown(s, u)
        eff == EffPartial(s, p)
    IN  FusedLoads(s, unknown, eff) \/ BeginLoad(s, unknown, eff)

Next ==
  \/ \E s \in Schemas : Reconfigure(s) \/ SetPartial(s) \/ Invalidate(s)
  \/ \E s \in Schemas : Dump(s) \/ Dumps(s) \/ Load(s)
  \/ EndLoad

Spec == Init /\ [][Next]_vars

-----------------------------------------------------------------------------
(* A plan is of configurations that compile. *)
PlanType(s) ==
  {Unset, None} \cup
  {plan \in [Parts(s) -> Compilable \cup {Called}] : plan[s] \in Compilable}

TypeOK ==
  /\ hooked \in Hooks /\ config \in [Schemas -> Configs] /\ partial \in [Schemas -> OwnPartials]
  /\ DOMAIN plans = Schemas
  /\ \A s \in Schemas, k \in Caches : plans[s][k] \in PlanType(s)
  /\ dirty \subseteq Schemas
  /\ loading # Nothing =>
       loading.schema \in Schemas /\ loading.plan \in PlanType(loading.schema) \ {Unset}

(* A load was told that it is not partial, by False or [], and the         *)
(* instance, nested in the schema, has a partial of its own to go by when  *)
(* it is told nothing.                                                     *)
FalseDropped(q) ==
  /\ q # answer.schema
  /\ answer.partial \in Falsy \ {NoPartial} /\ partial[q] \notin Falsy

(* Whatever was changed before, and whichever plans of it and of its parts *)
(* were built when: a call of a schema whose changes were followed by      *)
(* invalidate() is answered from what the schema, and every instance       *)
(* nested in it, is now, and with the unknown that stock would use; with   *)
(* its partial too, but where a False is dropped on the way to an instance *)
(* with a partial of its own (invalidate(): "force a recompile on the next *)
(* call"; R4: "mutations between calls silently skip validation").         *)
AnswersLive ==
  answer # Nothing => \A q \in Parts(answer.schema) :
    LET made == answer.made[q]
        stock == answer.stock[q]
    IN  /\ made.config = stock.config /\ made.unknown = stock.unknown
        /\ FalseDropped(q) \/ made.partial = stock.partial

-----------------------------------------------------------------------------
(* The inductive invariant of CacheProofs: what invalidate() was paid      *)
(* for has no plan but the one it would be given now, and a load under way *)
(* holds such a plan.                                                      *)
PlansFresh ==
  \A s \in Schemas \ dirty, k \in Caches : plans[s][k] \in {Unset, Build(s, k)}

LoadFresh ==
  loading # Nothing =>
    LET s == loading.schema IN
    /\ Parts(s) \cap dirty = {}
    /\ loading.plan \in {None, Build(s, "load")}
    /\ loading.plan # None => loading.unknown = UnknownOf[config[s]]

CacheInv == TypeOK /\ PlansFresh /\ LoadFresh /\ AnswersLive
=============================================================================
