---------------------------- MODULE CacheProofs ----------------------------
(***************************************************************************)
(* Proofs about what the package keeps between calls.  PlanCache: while    *)
(* user code under a load leaves the schemas alone, every answer is made   *)
(* from what they are now.  AttrAccess: however deep runs nest, what is    *)
(* remembered of a type was said by an object of that type in this run.    *)
(***************************************************************************)
EXTENDS PlanCache, AttrAccess, SequenceTheorems, TLAPS

-----------------------------------------------------------------------------
(* PlanCache *)

(* A schema and those nested in it; nesting is one level deep. *)
LEMMA PartsTyped ==
  ASSUME NEW s \in Schemas
  PROVE  /\ s \in Parts(s) /\ Parts(s) \subseteq Schemas /\ Inner[s] \subseteq Schemas
         /\ \A q \in Inner[s] : q \in Parts(s) /\ q # s /\ q \in Schemas /\ Parts(q) = {q}
BY InnerAssumption DEF Parts

(* What is built and what is cached are plans. *)
LEMMA BuildTyped ==
  ASSUME TypeOK, NEW s \in Schemas, NEW k \in Caches
  PROVE  Build(s, k) \in PlanType(s) /\ Cached(s, k) \in PlanType(s)
<1>1. CASE config[s] \notin Compilable
  BY <1>1 DEF Build, Cached, PlanType, TypeOK
<1>2. CASE config[s] \in Compilable
  <2> DEFINE plan == [q \in Parts(s) |-> IF q = s \/ Inlines(q, k) THEN config[q] ELSE Called]
  <2>1. plan \in [Parts(s) -> Compilable \cup {Called}] /\ plan[s] \in Compilable
    BY <1>2, PartsTyped DEF Inlines
  <2>2. Build(s, k) = plan
    BY <1>2 DEF Build
  <2>3. plans[s][k] \in PlanType(s)
    BY DEF TypeOK
  <2> QED
    BY <2>1, <2>2, <2>3 DEF Cached, PlanType
<1> QED
  BY <1>1, <1>2

(* The plan a schema that is not dirty is answered from is what would be built now. *)
LEMMA CachedIsFresh ==
  ASSUME PlansFresh, NEW s \in Schemas \ dirty, NEW k \in Caches
  PROVE  Cached(s, k) = Build(s, k)
BY DEF PlansFresh, Cached

(* An instance called back answers from what it is now. *)
LEMMA OwnIsLive ==
  ASSUME PlansFresh, NEW q \in Schemas \ dirty, NEW k \in Caches, NEW handed
  PROVE  OwnConfig(q, k, handed) = config[q]
<1>1. Cached(q, Through(k)) = Build(q, Through(k))
  BY CachedIsFresh DEF Through, Caches
<1>2. Build(q, Through(k)) = None \/ Build(q, Through(k))[q] = config[q]
  BY DEF Build, Parts
<1> QED
  BY <1>1, <1>2 DEF OwnConfig

(* What becomes of a partial on its way to an instance that is called      *)
(* back: it arrives as marshmallow would have handed it over, unless it is *)
(* a False and the instance has a partial of its own.                      *)
LEMMA PartialArrives ==
  ASSUME NEW q, NEW k, NEW plan, NEW eff,
         ~(eff \in Falsy \ {NoPartial} /\ partial[q] \notin Falsy)
  PROVE  CorePartial(Received(q, k, Handed(plan, eff))) = CorePartial(Received(q, k, eff))
<1>1. CASE eff \notin Falsy \/ eff = NoPartial \/ plan = None
  BY <1>1, PartialAssumption DEF Handed, CorePartial
<1>2. CASE eff \in Falsy \ {NoPartial} /\ plan # None
  <2>1. Handed(plan, eff) = NoPartial /\ partial[q] \in Falsy
    BY <1>2 DEF Handed, CorePartial
  <2>2. Received(q, k, NoPartial) \in Falsy
    BY <2>1, PartialAssumption DEF Received
  <2>3. Received(q, k, eff) \in Falsy
    BY <1>2 DEF Received
  <2> QED
    BY <2>1, <2>2, <2>3 DEF CorePartial
<1> QED
  BY <1>1, <1>2

(* The heart of the matter: a present plan makes the answer that stock     *)
(* would make, but where a False is dropped.                               *)
LEMMA FreshPlanAnswersLive ==
  ASSUME PlansFresh, NEW s \in Schemas, Parts(s) \cap dirty = {}, NEW k \in Caches,
         NEW plan \in {None, Build(s, k)}, NEW unknown, NEW eff,
         plan # None => unknown = UnknownOf[config[s]],
         NEW q \in Parts(s)
  PROVE  LET made == Made(s, k, plan, unknown, eff)[q]
             stock == Stock(s, k, unknown, eff)[q]
         IN  /\ made.config = stock.config /\ made.unknown = stock.unknown
             /\ \/ q # s /\ eff \in Falsy \ {NoPartial} /\ partial[q] \notin Falsy
                \/ made.partial = stock.partial
<1> DEFINE made == Made(s, k, plan, unknown, eff)[q]
           stock == Stock(s, k, unknown, eff)[q]
           dropped == eff \in Falsy \ {NoPartial} /\ partial[q] \notin Falsy
<1> SUFFICES /\ made.config = stock.config /\ made.unknown = stock.unknown
             /\ (q # s /\ dropped) \/ made.partial = stock.partial
  OBVIOUS
<1>1. made = IF q \in CalledBack(s, plan) THEN AnswerOf(q, k, Handed(plan, eff))
             ELSE IF plan = None THEN Used(config[q], unknown, eff)
             ELSE Used(plan[q], UnknownOf[plan[q]], eff)
  BY DEF Made
<1>2. stock = IF q = s THEN Used(config[s], unknown, eff)
              ELSE Used(config[q], UnknownOf[config[q]], Received(q, k, eff))
  BY DEF Stock
<1> HIDE DEF made, stock
<1>3. CASE q \in CalledBack(s, plan)
  <2> DEFINE handed == Handed(plan, eff)
  <2>1. q # s /\ q \in Schemas \ dirty
    BY <1>3, PartsTyped DEF CalledBack
  <2>2. OwnConfig(q, k, handed) = config[q]
    BY <2>1, OwnIsLive
  <2>3. made = Used(config[q], UnknownOf[config[q]], Received(q, k, handed))
    BY <1>1, <1>3, <2>2 DEF AnswerOf
  <2>4. stock = Used(config[q], UnknownOf[config[q]], Received(q, k, eff))
    BY <1>2, <2>1
  <2>5. dropped \/ CorePartial(Received(q, k, handed)) = CorePartial(Received(q, k, eff))
    BY PartialArrives
  <2> QED
    BY <2>1, <2>3, <2>4, <2>5 DEF Used
<1>4. CASE q \notin CalledBack(s, plan) /\ plan = None
  <2>1. q = s
    BY <1>4 DEF CalledBack, Parts
  <2> QED
    BY <1>1, <1>2, <1>4, <2>1
<1>5. CASE q \notin CalledBack(s, plan) /\ plan # None
  <2>1. config[s] \in Compilable
        /\ plan = [r \in Parts(s) |-> IF r = s \/ Inlines(r, k) THEN config[r] ELSE Called]
    BY <1>5 DEF Build
  <2>2. made = Used(plan[q], UnknownOf[plan[q]], eff)
    BY <1>1, <1>5
  <2>3. CASE q = s
    BY <1>2, <1>5, <2>1, <2>2, <2>3
  <2>4. CASE q # s
    <3>1. q \in Inner[s] /\ plan[q] # Called
      BY <1>5, <2>4 DEF Parts, CalledBack
    <3>2. Inlines(q, k) /\ plan[q] = config[q]
      BY <2>1, <2>4, <3>1
    <3>3. CorePartial(Received(q, k, eff)) = CorePartial(eff)
      BY <3>2, PartialAssumption DEF Received, Inlines, CorePartial
    <3> QED
      BY <1>2, <2>2, <2>4, <3>2, <3>3 DEF Used
  <2> QED
    BY <2>3, <2>4
<1> QED
  BY <1>3, <1>4, <1>5

(* Keeping the plans of a call keeps them typed and fresh. *)
LEMMA KeepStep ==
  ASSUME CacheInv, NEW s, NEW ks, NEW asking, NEW k, Keep(s, ks, asking, k),
         UNCHANGED <<hooked, config, partial, dirty>>
  PROVE  /\ DOMAIN plans' = Schemas
         /\ \A r \in Schemas, j \in Caches : plans'[r][j] \in PlanType(r)
         /\ PlansFresh'
<1>1. \A r \in Schemas, j \in Caches : plans'[r][j] \in {Cached(r, j), plans[r][j]}
  BY DEF Keep
<1>2. \A r \in Schemas, j \in Caches : plans'[r][j] \in PlanType(r)
  BY <1>1, BuildTyped DEF CacheInv, TypeOK
<1>3. \A r \in Schemas, j \in Caches : Build(r, j)' = Build(r, j)
  BY DEF Build, Inlines
<1>4. \A r \in Schemas \ dirty, j \in Caches : plans'[r][j] \in {Unset, Build(r, j)}
  BY <1>1, CachedIsFresh DEF CacheInv, PlansFresh
<1> QED
  BY <1>2, <1>3, <1>4 DEF PlansFresh, Keep

(* Any answered call. *)
LEMMA AnswerStep ==
  ASSUME CacheInv, NEW s \in Schemas, Parts(s) \cap dirty = {}, NEW k \in Caches,
         NEW plan \in {None, Build(s, k)}, NEW ks, NEW unknown, NEW eff,
         plan # None => unknown = UnknownOf[config[s]],
         Answer(s, k, plan, ks, unknown, eff),
         UNCHANGED <<hooked, config, partial, dirty>>, loading' \in {loading, Nothing}
  PROVE  CacheInv'
<1>1. AnswersLive'
  <2>1. /\ answer'.made = Made(s, k, plan, unknown, eff) /\ answer'.schema = s
        /\ answer'.stock = Stock(s, k, unknown, eff) /\ answer'.partial = eff
    BY DEF Answer
  <2>2. PlansFresh
    BY DEF CacheInv
  <2> QED
    BY <2>1, <2>2, FreshPlanAnswersLive DEF AnswersLive, FalseDropped
<1>2. /\ DOMAIN plans' = Schemas
      /\ \A r \in Schemas, j \in Caches : plans'[r][j] \in PlanType(r)
      /\ PlansFresh'
  BY KeepStep DEF Answer
<1>3. LoadFresh'
  BY DEF CacheInv, LoadFresh, Build, Inlines
<1>4. TypeOK'
  BY <1>2 DEF CacheInv, TypeOK, PlanType
<1> QED
  BY <1>1, <1>2, <1>3, <1>4 DEF CacheInv

(* A plan is what it would be as long as its parts are what they were.     *)
LEMMA BuildOfParts ==
  ASSUME NEW r \in Schemas, NEW k \in Caches, UNCHANGED hooked,
         \A q \in Parts(r) : config'[q] = config[q],
         \A q \in Inner[r] : partial'[q] = partial[q]
  PROVE  Build(r, k)' = Build(r, k)
<1>1. r \in Parts(r) /\ \A q \in Parts(r) : q = r \/ q \in Inner[r]
  BY DEF Parts
<1>2. \A q \in Parts(r) : q # r => (Inlines(q, k)' <=> Inlines(q, k))
  BY <1>1 DEF Inlines
<1> QED
  BY <1>1, <1>2 DEF Build

(* A change of s, paid for by invalidate() before the next call.           *)
LEMMA ChangeStep ==
  ASSUME CacheInv, ~ReconfigureInHooks, NEW s \in Schemas, ~Busy(s),
         config' \in [Schemas -> Configs], partial' \in [Schemas -> OwnPartials],
         \A q \in Schemas : q # s => config'[q] = config[q] /\ partial'[q] = partial[q],
         NEW R \in SUBSET Schemas, dirty' = dirty \cup R,
         \A r \in R : s \in Parts(r), \A r \in Schemas : s \in Inner[r] => r \in R,
         s \in R \/ config'[s] = config[s],
         answer' = Nothing, UNCHANGED <<hooked, plans, loading>>
  PROVE  CacheInv'
<1>1. ASSUME NEW r \in Schemas \ R, NEW k \in Caches PROVE Build(r, k)' = Build(r, k)
  <2>1. \A q \in Parts(r) : q \in Schemas /\ config'[q] = config[q]
    <3>1. \A q \in Inner[r] : q # s
      BY <1>1
    <3> QED
      BY <3>1, PartsTyped DEF Parts
  <2>2. \A q \in Inner[r] : partial'[q] = partial[q]
    BY <1>1, PartsTyped
  <2> QED
    BY <2>1, <2>2, BuildOfParts
<1>2. PlansFresh'
  BY <1>1 DEF CacheInv, PlansFresh
<1>3. TypeOK'
  BY DEF CacheInv, TypeOK, PlanType
<1>4. ASSUME loading # Nothing PROVE LoadFresh'
  <2> DEFINE l == loading.schema
  <2>1. l \in Schemas /\ Parts(l) \cap dirty = {}
    BY <1>4 DEF CacheInv, TypeOK, LoadFresh
  <2>2. s \notin Parts(l)
    BY <1>4 DEF Busy
  <2>3. \A q \in Parts(l) : q \in Schemas /\ (q = l \/ Parts(q) = {q})
    BY <2>1, PartsTyped DEF Parts
  <2>4. \A q \in Parts(l) : s \notin Parts(q)
    BY <2>2, <2>3
  <2>5. Parts(l) \cap (dirty \cup R) = {} /\ l \notin R /\ config'[l] = config[l]
    BY <2>1, <2>2, <2>4, PartsTyped
  <2>6. Build(l, "load")' = Build(l, "load")
    BY <1>1, <2>1, <2>5 DEF Caches
  <2> QED
    BY <1>4, <2>5, <2>6 DEF CacheInv, LoadFresh
<1>5. LoadFresh'
  BY <1>4 DEF LoadFresh
<1> QED
  BY <1>2, <1>3, <1>5 DEF CacheInv, AnswersLive

(* A change of a schema makes every schema around it dirty. *)
LEMMA ReconfigureStep ==
  ASSUME CacheInv, ~ReconfigureInHooks, NEW s \in Schemas, Reconfigure(s)
  PROVE  CacheInv'
<1> DEFINE R == {r \in Schemas : s \in Parts(r)}
<1>1. config' \in [Schemas -> Configs] /\ \A q \in Schemas : q # s => config'[q] = config[q]
  BY DEF Reconfigure, CacheInv, TypeOK
<1>2. partial' \in [Schemas -> OwnPartials] /\ partial' = partial
  BY DEF Reconfigure, CacheInv, TypeOK
<1>3. /\ R \in SUBSET Schemas /\ s \in R
      /\ \A r \in R : s \in Parts(r)
      /\ \A r \in Schemas : s \in Inner[r] => r \in R
  BY PartsTyped DEF Parts
<1>4. dirty' = dirty \cup R /\ ~Busy(s) /\ answer' = Nothing /\ UNCHANGED <<hooked, plans, loading>>
  BY DEF Reconfigure
<1> HIDE DEF R
<1> QED
  BY <1>1, <1>2, <1>3, <1>4, ChangeStep

(* A change of partial makes what it is part of dirty. *)
LEMMA SetPartialStep ==
  ASSUME CacheInv, ~ReconfigureInHooks, NEW s \in Schemas, SetPartial(s)
  PROVE  CacheInv'
<1> DEFINE R == {r \in Schemas : s \in Inner[r]}
<1>1. partial' \in [Schemas -> OwnPartials] /\ \A q \in Schemas : q # s => partial'[q] = partial[q]
  BY DEF SetPartial, CacheInv, TypeOK
<1>2. config' \in [Schemas -> Configs] /\ config' = config
  BY DEF SetPartial, CacheInv, TypeOK
<1>3. /\ R \in SUBSET Schemas
      /\ \A r \in R : s \in Parts(r)
      /\ \A r \in Schemas : s \in Inner[r] => r \in R
  BY DEF Parts
<1>4. dirty' = dirty \cup R /\ ~Busy(s) /\ answer' = Nothing /\ UNCHANGED <<hooked, plans, loading>>
  BY DEF SetPartial
<1> HIDE DEF R
<1> QED
  BY <1>1, <1>2, <1>3, <1>4, ChangeStep

(* invalidate() drops the plans that were stale. *)
LEMMA InvalidateStep ==
  ASSUME CacheInv, NEW s \in Schemas, Invalidate(s)
  PROVE  CacheInv'
<1>1. \A r \in Schemas, k \in Caches :
        /\ Build(r, k)' = Build(r, k)
        /\ plans'[r][k] = IF r = s THEN Unset ELSE plans[r][k]
  <2>1. \A r \in Schemas, k \in Caches : Build(r, k)' = Build(r, k)
    BY DEF Invalidate, Build, Inlines
  <2>2. plans' = [plans EXCEPT ![s] = [k \in Caches |-> Unset]]
    BY DEF Invalidate, Dropped
  <2>3. DOMAIN plans = Schemas
    BY DEF CacheInv, TypeOK
  <2> QED
    BY <2>1, <2>2, <2>3
<1>2. PlansFresh'
  BY <1>1 DEF Invalidate, CacheInv, PlansFresh
<1>3. TypeOK'
  BY <1>1 DEF Invalidate, CacheInv, TypeOK, PlanType
<1>4. LoadFresh'
  BY <1>1 DEF Invalidate, CacheInv, TypeOK, LoadFresh, Caches
<1> QED
  BY <1>2, <1>3, <1>4 DEF Invalidate, CacheInv, AnswersLive


(* A dump builds no stale plan. *)
LEMMA DumpStep ==
  ASSUME CacheInv, NEW s \in Schemas, Dump(s)
  PROVE  CacheInv'
<1>1. PICK plan \in {Cached(s, "dump"), None} :
        Answer(s, "dump", plan, {"dump"}, UnknownOf[config[s]], NoPartial)
  BY DEF Dump, DumpAnswer
<1>2. Parts(s) \cap dirty = {} /\ UNCHANGED <<hooked, config, partial, dirty, loading>>
  BY DEF Dump, Callable
<1>3. plan \in {None, Build(s, "dump")}
  BY <1>2, PartsTyped, CachedIsFresh DEF CacheInv, Caches
<1> QED
  BY <1>1, <1>2, <1>3, AnswerStep DEF Caches

(* A plan for dumps and one for dump are the same plan. *)
LEMMA DumpsStep ==
  ASSUME CacheInv, NEW s \in Schemas, Dumps(s)
  PROVE  CacheInv'
<1>1. PICK plan \in {Cached(s, "json"), Cached(s, "dump"), None}, ks \in SUBSET Caches :
        Answer(s, "dump", plan, ks, UnknownOf[config[s]], NoPartial)
  BY DEF Dumps, DumpAnswer, Caches
<1>2. Parts(s) \cap dirty = {} /\ UNCHANGED <<hooked, config, partial, dirty, loading>>
  BY DEF Dumps, Callable
<1>3. Build(s, "json") = Build(s, "dump")
  BY DEF Build, Inlines
<1>4. plan \in {None, Build(s, "dump")}
  BY <1>2, <1>3, PartsTyped, CachedIsFresh DEF CacheInv, Caches
<1> QED
  BY <1>1, <1>2, <1>4, AnswerStep DEF Caches

(* A fused loads builds no stale plan. *)
LEMMA FusedLoadsStep ==
  ASSUME CacheInv, NEW s \in Schemas, NEW unknown, NEW eff, FusedLoads(s, unknown, eff)
  PROVE  CacheInv'
<1>1. /\ Parts(s) \cap dirty = {} /\ UNCHANGED <<hooked, config, partial, dirty, loading>>
      /\ unknown = UnknownOf[config[s]]
      /\ Answer(s, "load", Cached(s, "load"), {"load"}, unknown, eff)
  BY DEF FusedLoads, Callable, Accelerable
<1>2. Cached(s, "load") \in {None, Build(s, "load")}
  BY <1>1, PartsTyped, CachedIsFresh DEF CacheInv, Caches
<1> QED
  BY <1>1, <1>2, AnswerStep DEF Caches

(* A load takes a plan that is not stale. *)
LEMMA BeginLoadStep ==
  ASSUME CacheInv, NEW s \in Schemas, NEW unknown, NEW eff, BeginLoad(s, unknown, eff)
  PROVE  CacheInv'
<1> DEFINE asks == Accelerable(s, unknown, eff)
           plan == IF asks THEN Cached(s, "load") ELSE None
<1>1. /\ Parts(s) \cap dirty = {} /\ UNCHANGED <<hooked, config, partial, dirty>>
      /\ answer' = Nothing
      /\ loading' = [schema |-> s, unknown |-> unknown, partial |-> eff, plan |-> plan]
      /\ Keep(s, IF asks THEN {"load"} ELSE {}, {}, "load")
  BY DEF BeginLoad, Callable
<1>2. /\ DOMAIN plans' = Schemas
      /\ \A r \in Schemas, j \in Caches : plans'[r][j] \in PlanType(r)
      /\ PlansFresh'
  BY <1>1, KeepStep
<1>3. plan \in {None, Build(s, "load")}
  BY <1>1, PartsTyped, CachedIsFresh DEF CacheInv, Caches
<1>4. plan # None => unknown = UnknownOf[config[s]]
  BY DEF Accelerable
<1>5. Build(s, "load")' = Build(s, "load")
  BY <1>1 DEF Build, Inlines
<1>6. plan \in PlanType(s) \ {Unset}
  <2>1. plan \in PlanType(s)
    BY BuildTyped DEF CacheInv, PlanType, Caches
  <2>2. Build(s, "load") = None \/ Build(s, "load") \in [Parts(s) -> Configs \cup {Called}]
    BY PartsTyped DEF Build, CacheInv, TypeOK
  <2> QED
    BY <1>3, <2>1, <2>2, UnsetIsNoPlan
<1> HIDE DEF plan
<1>7. LoadFresh'
  BY <1>1, <1>3, <1>4, <1>5 DEF LoadFresh
<1>8. TypeOK'
  BY <1>1, <1>2, <1>6 DEF CacheInv, TypeOK, PlanType
<1> QED
  BY <1>1, <1>2, <1>7, <1>8 DEF CacheInv, AnswersLive

(* A load ends with the plan it has. *)
LEMMA EndLoadStep ==
  ASSUME CacheInv, EndLoad
  PROVE  CacheInv'
<1>1. loading # Nothing /\ UNCHANGED <<hooked, config, partial, dirty>> /\ loading' = Nothing
  BY DEF EndLoad
<1>2. PICK plan \in {loading.plan, None} :
        Answer(loading.schema, "load", plan, {}, loading.unknown, loading.partial)
  BY DEF EndLoad
<1>3. /\ loading.schema \in Schemas /\ Parts(loading.schema) \cap dirty = {}
      /\ plan \in {None, Build(loading.schema, "load")}
      /\ plan # None => loading.unknown = UnknownOf[config[loading.schema]]
  BY <1>1, <1>2 DEF CacheInv, TypeOK, LoadFresh
<1> QED
  BY <1>1, <1>2, <1>3, AnswerStep DEF Caches

(* CacheInv is an invariant, if no user code changes a schema under its load. *)
LEMMA Invariance ==
  ASSUME ~ReconfigureInHooks
  PROVE  Spec => []CacheInv
<1>1. Init => CacheInv
  BY DEF Init, CacheInv, TypeOK, PlanType, PlansFresh, LoadFresh, AnswersLive
<1>2. CacheInv /\ [Next]_vars => CacheInv'
  <2> SUFFICES ASSUME CacheInv, [Next]_vars PROVE CacheInv'
    OBVIOUS
  <2>1. CASE \E s \in Schemas : Reconfigure(s) \/ SetPartial(s) \/ Invalidate(s)
    BY <2>1, ReconfigureStep, SetPartialStep, InvalidateStep
  <2>2. CASE \E s \in Schemas : Dump(s) \/ Dumps(s)
    BY <2>2, DumpStep, DumpsStep
  <2>3. CASE \E s \in Schemas : Load(s)
    BY <2>3, FusedLoadsStep, BeginLoadStep DEF Load
  <2>4. CASE EndLoad
    BY <2>4, EndLoadStep
  <2>5. CASE UNCHANGED vars
    BY <2>5 DEF vars, CacheInv, TypeOK, PlanType, PlansFresh, LoadFresh, AnswersLive, FalseDropped,
                Build, Inlines
  <2> QED
    BY <2>1, <2>2, <2>3, <2>4, <2>5 DEF Next
<1> QED
  BY <1>1, <1>2, PTL DEF Spec

(* Every cache holds a plan of its own schema, of configurations the       *)
(* compiler makes plans of; a load never starts with a cache that was not  *)
(* asked (_patch.py 197-200, 229-236).                                     *)
THEOREM TypeCorrect ==
  ASSUME ~ReconfigureInHooks
  PROVE  Spec => []TypeOK
<1>1. CacheInv => TypeOK
  BY DEF CacheInv
<1> QED
  BY <1>1, Invariance, PTL

(* However many schemas there are, however they are nested, changed,       *)
(* invalidated and called: a call whose changes were paid for is answered  *)
(* from what the schema and the instances nested in it are now, each with  *)
(* the unknown and the partial that marshmallow gives it; but a partial of *)
(* False does not reach a nested instance with a partial of its own, which *)
(* is called back without it (_patch.py 132-139, invalidate).              *)
THEOREM AnswersStayLive ==
  ASSUME ~ReconfigureInHooks
  PROVE  Spec => []AnswersLive
<1>1. CacheInv => AnswersLive
  BY DEF CacheInv
<1> QED
  BY <1>1, Invariance, PTL

-----------------------------------------------------------------------------
(* AttrAccess *)

(* The stack of runs. *)
LEMMA RunStack ==
  ASSUME NEW s \in Seq(Probes)
  PROVE  /\ \A r \in Probes : /\ Append(s, r) \in Seq(Probes) /\ Len(Append(s, r)) = Len(s) + 1
                              /\ Append(s, r) # <<>>
         /\ s # <<>> => /\ Front(s) \in Seq(Probes) /\ Len(Front(s)) = Len(s) - 1
                        /\ Last(s) \in Probes
<1>1. ASSUME s # <<>>
      PROVE  Front(s) \in Seq(Probes) /\ Len(Front(s)) = Len(s) - 1 /\ Last(s) \in Probes
  <2>1. Len(s) \in Nat /\ Len(s) > 0 /\ s[Len(s)] \in Probes
    BY <1>1
  <2>2. SubSeq(s, 1, Len(s) - 1) \in Seq(Probes) /\ Len(SubSeq(s, 1, Len(s) - 1)) = Len(s) - 1
    <3>1. \A j \in 1..Len(s) - 1 : s[j] \in Probes
      BY <2>1
    <3>2. Len(s) - 1 \in Int /\ 1 \in Int
      BY <2>1
    <3>3. SubSeq(s, 1, Len(s) - 1) \in Seq(Probes)
      BY <3>1, <3>2, SubSeqProperties
    <3>4. Len(SubSeq(s, 1, Len(s) - 1)) = IF 1 <= Len(s) - 1 THEN (Len(s) - 1) - 1 + 1 ELSE 0
      BY <3>1, <3>2, SubSeqProperties
    <3>5. \A n \in Nat : n > 0 => (IF 1 <= n - 1 THEN (n - 1) - 1 + 1 ELSE 0) = n - 1
      OBVIOUS
    <3> QED
      BY ONLY <2>1, <3>3, <3>4, <3>5
  <2> QED
    BY <2>1, <2>2 DEF Front, Last
<1> QED
  BY <1>1

(* The slot is empty before the first run. *)
LEMMA AttrStarts == AttrInit => AttrInv
<1> SUFFICES ASSUME AttrInit  PROVE AttrInv
  OBVIOUS
<1>1. AttrTypeOK
  BY AttrAssumption DEF AttrInit, AttrTypeOK, Empty, Untold, NoReading
<1> QED
  BY <1>1 DEF AttrInit, AttrInv, SlotTold, LookupLikeStock, NoReading

(* What an object says, and what the history keeps of it. *)
LEMMA ReadTold ==
  ASSUME AttrTypeOK, NEW o \in Objects, NEW kind, ReadAs(o, kind)
  PROVE  /\ HasGetItem(o) \in Answers /\ told' \in [Addresses -> SUBSET Answers]
         /\ \A a \in Addresses : told[a] \subseteq told'[a]
         /\ o.type \in Addresses /\ HasGetItem(o) \in told'[o.type]
         /\ reading'.type = o.type /\ reading'.core = GetOne(o, kind)
         /\ reading'.stock = GetOne(o, HasGetItem(o))
<1>1. o.type \in Addresses /\ o.own \in Answers \cup {"class"}
  BY DEF Objects
<1>2. HasGetItem(o) \in Answers
  BY <1>1 DEF HasGetItem, AttrTypeOK, Answers
<1>3. told' = [told EXCEPT ![o.type] = @ \cup {HasGetItem(o)}] /\ told \in [Addresses -> SUBSET Answers]
  BY DEF ReadAs, AttrTypeOK
<1>4. /\ told' \in [Addresses -> SUBSET Answers]
      /\ \A a \in Addresses : told[a] \subseteq told'[a]
      /\ HasGetItem(o) \in told'[o.type]
  BY <1>1, <1>2, <1>3
<1> QED
  BY <1>1, <1>2, <1>4 DEF ReadAs, GetValueForKey

(* A reading on the strength of an answer that was told: if the objects    *)
(* are alike, it is this object's own.                                     *)
LEMMA AnswerAlike ==
  ASSUME AttrTypeOK, NEW o \in Objects, NEW kind, ReadAs(o, kind),
         kind \in told[o.type] \/ kind = HasGetItem(o)
  PROVE  LookupLikeStock'
<1>1. ASSUME Alike(o.type)' PROVE kind = HasGetItem(o)
  BY <1>1, ReadTold DEF Alike
<1> QED
  BY <1>1 DEF ReadAs, GetValueForKey, LookupLikeStock

(* A dict is indexable, whatever the slot says. *)
LEMMA ReadDictAlike ==
  ASSUME AttrInv, NEW o \in Objects, ReadDict(o)
  PROVE  LookupLikeStock'
<1>1. o.item \in {"value", "caught"} /\ types[o.type] = "indexable" /\ HasGetItem(o) = "indexable"
  BY DEF AttrInv, ReadDict, Objects, HasGetItem
<1>2. GetValueForKey(o) = IF o.item = "value" THEN "item" ELSE ByAttribute(o)
  BY <1>1 DEF GetValueForKey, GetOne, ByItem, Item
<1> QED
  BY <1>2 DEF ReadDict, LookupLikeStock

(* Every step keeps the invariant: one case per action of Next. *)
LEMMA AttrSteps == AttrInv /\ [AttrNext]_attrVars => AttrInv'
<1> SUFFICES ASSUME AttrInv, [AttrNext]_attrVars  PROVE AttrInv'
  OBVIOUS
<1> USE DEF AttrInv
<1>1. CASE StartRun
  <2>1. Idle \in Probes /\ runs \in Seq(Probes) /\ Len(runs) \in Nat
    BY DEF AttrTypeOK, Probes
  <2>2. runs' \in Seq(Probes) /\ Len(runs') <= MaxRuns
    BY <1>1, <2>1, RunStack, AttrAssumption DEF StartRun
  <2>3. AttrTypeOK'
    BY <1>1, <2>2 DEF StartRun, AttrTypeOK, Cleared, Untold, NoReading
  <2> QED
    BY <1>1, <2>3 DEF StartRun, SlotTold, Cleared, LookupLikeStock, NoReading
<1>2. CASE EndRun
  <2>1. runs \in Seq(Probes) /\ Len(runs) \in Nat /\ Len(runs) <= MaxRuns
    BY DEF AttrTypeOK
  <2>2. runs' \in Seq(Probes) /\ Len(runs') <= MaxRuns
    BY <1>2, <2>1, RunStack, AttrAssumption DEF EndRun
  <2>3. AttrTypeOK'
    BY <1>2, <2>2 DEF EndRun, AttrTypeOK
  <2> QED
    BY <1>2, <2>3 DEF EndRun, SlotTold, LookupLikeStock, Alike
<1>3. ASSUME NEW o \in Objects, ReadProbed(o)  PROVE AttrInv'
  <2>1. Last(runs) \in Probes /\ Last(runs) = <<[type |-> o.type, own |-> o.own]>>
    BY <1>3, RunStack DEF ReadProbed, AttrTypeOK
  <2>2. o.type # DictType
    BY <2>1 DEF Probes, Idle
  <2>3. /\ ReadAs(o, HasGetItem(o)) /\ slot' = Remembered(o)
        /\ runs' = Append(Front(runs), Idle) /\ types' = types
    BY <1>3 DEF ReadProbed
  <2>4. runs' \in Seq(Probes) /\ Len(runs') <= MaxRuns /\ runs # <<>>
    BY <1>3, RunStack DEF ReadProbed, AttrTypeOK, Probes
  <2>5. /\ HasGetItem(o) \in Answers /\ told' \in [Addresses -> SUBSET Answers]
        /\ \A a \in Addresses : told[a] \subseteq told'[a]
        /\ o.type \in Addresses /\ HasGetItem(o) \in told'[o.type] /\ reading'.type = o.type
    BY <2>3, ReadTold
  <2>6. \/ slot' = slot
        \/ slot' = [type |-> o.type, kind |-> HasGetItem(o)] /\ HasGetItem(o) \in Kinds
    BY <2>3, <2>5 DEF Remembered, Answers
  <2>7. slot' \in [type: Addresses \ {DictType}, kind: Kinds] \cup {Empty}
    BY <2>2, <2>5, <2>6 DEF AttrTypeOK
  <2>8. AttrTypeOK'
    BY <2>3, <2>4, <2>5, <2>7 DEF AttrTypeOK
  <2>9. SlotTold'
    <3>1. CASE slot' = slot
      BY <2>5, <3>1 DEF SlotTold, AttrTypeOK
    <3>2. CASE slot' = [type |-> o.type, kind |-> HasGetItem(o)]
      BY <2>5, <3>2 DEF SlotTold
    <3> QED
      BY <2>6, <3>1, <3>2
  <2>10. LookupLikeStock'
    BY <2>3, AnswerAlike
  <2> QED
    BY <2>3, <2>8, <2>9, <2>10
<1>4. ASSUME NEW o \in Objects, ReadDict(o)  PROVE AttrInv'
  <2>1. reading'.type \in Addresses
    BY <1>4 DEF ReadDict, Objects
  <2> QED
    BY <1>4, <2>1, ReadDictAlike DEF ReadDict, AttrTypeOK, SlotTold
<1>5. ASSUME NEW o \in Objects, ReadCached(o)  PROVE AttrInv'
  <2>1. slot # Empty /\ ReadAs(o, slot.kind) /\ slot.type = o.type
        /\ UNCHANGED <<types, slot, runs>>
    BY <1>5, AttrAssumption DEF ReadCached, Empty, Objects
  <2>2. slot.kind \in told[o.type]
    BY <2>1 DEF SlotTold
  <2>3. LookupLikeStock'
    BY <2>1, <2>2, AnswerAlike
  <2>4. /\ told' \in [Addresses -> SUBSET Answers] /\ o.type \in Addresses
        /\ told[o.type] \subseteq told'[o.type] /\ reading'.type = o.type
    BY <2>1, ReadTold
  <2> QED
    BY <2>1, <2>2, <2>3, <2>4 DEF AttrTypeOK, SlotTold
<1>6. ASSUME NEW q \in Probed, Probe(q)  PROVE AttrInv'
  <2>1. <<q>> \in Probes
    BY <1>6 DEF Probes, Probe
  <2>2. runs' \in Seq(Probes) /\ Len(runs') <= MaxRuns /\ runs # <<>>
    BY <1>6, <2>1, RunStack DEF Probe, AttrTypeOK, Probes
  <2> QED
    BY <1>6, <2>2 DEF Probe, AttrTypeOK, SlotTold, LookupLikeStock, Alike, Probes
<1>7. ASSUME NEW a \in Addresses, Retype(a)  PROVE AttrInv'
  <2>1. types' \in [Addresses -> Kinds] /\ types'[DictType] = "indexable"
    BY <1>7, AttrAssumption DEF Retype, AttrTypeOK
  <2>2. LookupLikeStock'
    BY <1>7 DEF Retype, LookupLikeStock, NoReading
  <2> QED
    BY <1>7, <2>1, <2>2 DEF Retype, AttrTypeOK, SlotTold, NoReading
<1>8. CASE UNCHANGED attrVars
  BY <1>8 DEF attrVars, AttrTypeOK, SlotTold, LookupLikeStock, Alike
<1> QED
  BY <1>1, <1>2, <1>3, <1>4, <1>5, <1>6, <1>7, <1>8 DEF AttrNext

(* AttrInv is an invariant. *)
LEMMA AttrInvariant == AttrSpec => []AttrInv
BY AttrStarts, AttrSteps, PTL DEF AttrSpec

(* The slot never holds a probe that raised, nor dict. *)
THEOREM SlotTyped == AttrSpec => []AttrTypeOK
<1>1. AttrInv => AttrTypeOK
  BY DEF AttrInv
<1> QED
  BY <1>1, AttrInvariant, PTL

(* However deep runs nest and whatever becomes of the classes under them,  *)
(* and although each object has an answer of its own: a reading takes the  *)
(* way that marshmallow's takes, as long as the objects of its type that   *)
(* were read since the slot was cleared answered alike                     *)
(* (attr_access.rs 69-85).                                                 *)
THEOREM LookupsLikeStock == AttrSpec => []LookupLikeStock
<1>1. AttrInv => LookupLikeStock
  BY DEF AttrInv
<1> QED
  BY <1>1, AttrInvariant, PTL
=============================================================================
