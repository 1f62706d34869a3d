---------------------------- MODULE DoLoadProofs ----------------------------
(***************************************************************************)
(* Proofs about DoLoad, for every call: whatever the hooks, validators and *)
(* records are.  That the accelerated call keeps stock's promise needs     *)
(* pre_load hooks that can run again; the rest needs nothing.              *)
(***************************************************************************)
EXTENDS DoLoad, TLAPS

-----------------------------------------------------------------------------
(* What the calls and stock's answers are made of.                         *)

(* The shape of a well-formed call, as the later proofs use it. *)
LEMMA CallTyped ==
  ASSUME call \in Calls
  PROVE  /\ call \in CallType
         /\ call.items \in Seq({"ok", "odd", "invalid", "error"})
         /\ Len(call.items) \in Nat /\ DOMAIN call.items = 1..Len(call.items)
         /\ {call.fields, call.schema, call.post} \subseteq Verdicts
         /\ call.handler \in {"returns", "raises"}
         /\ \A d \in DataStates : /\ call.pre[d].verdict \in Verdicts
                                  /\ call.pre[d].left \in DataStates
         /\ (\E d \in DataStates : call.pre[d].verdict = "absent") => call.pre = NoPreLoad
<1>1. WellFormed(call)
  BY CallsWellFormed
<1>2. call \in CallType
  BY <1>1 DEF WellFormed
<1>3. call.pre \in PreLoad
  BY <1>2 DEF CallType
<1> QED
  BY <1>1, <1>2, <1>3 DEF WellFormed, CallType, PreLoad

(* Records the core loads are records stock loads. *)
LEMMA AllOkDeserialized ==
  ASSUME call \in Calls, AllOk(Len(call.items))
  PROVE  Deserialized(call, "fresh") = "ok"
<1>1. DOMAIN call.items = 1..Len(call.items)
  BY CallTyped
<1> QED
  BY <1>1 DEF AllOk, Deserialized

(* The abstract module's answer is the one of LoadCall. *)
LEMMA SameAnswer ==
  ASSUME NEW c, NEW d
  PROVE  Promise!StockOutcome(c, d) = StockOutcome(c, d)
BY DEF StockOutcome, Promise!StockOutcome, Raises, Promise!Raises, Errors, Promise!Errors,
       BodyErrors, Promise!BodyErrors, FieldErrors, Promise!FieldErrors,
       Deserialized, Promise!Deserialized, Records, Promise!Records,
       SchemaRuns, Promise!SchemaRuns, PostRuns, Promise!PostRuns,
       Reported, Promise!Reported, Raised, Promise!Raised, Returned, Promise!Returned

(* The instantiated StockLoad means the same by a well-formed call. *)
LEMMA SameWellFormed ==
  ASSUME NEW c
  PROVE  Promise!WellFormed(c) <=> WellFormed(c)
BY DEF WellFormed, Promise!WellFormed, CallType, Promise!CallType, NoPreLoad, Promise!NoPreLoad,
       PreLoad, Promise!PreLoad, DataStates, Promise!DataStates, Verdicts, Promise!Verdicts,
       Refusals, Promise!Refusals

(* Replayable hooks: the data they left gives the same answer. *)
LEMMA ReplaySame ==
  ASSUME NEW c, Replayable(c), c.pre["fresh"].verdict \in {"absent", "ok"}
  PROVE  StockOutcome(c, c.pre["fresh"].left) = StockOutcome(c, "fresh")
<1> DEFINE d == c.pre["fresh"].left
<1>1. c.pre[d].verdict = c.pre["fresh"].verdict /\ c.pre[d].view = c.pre["fresh"].view
  BY DEF Replayable
<1> HIDE DEF d
<1>2. Records(c, d) = Records(c, "fresh")
  BY <1>1 DEF Records
<1>3. Deserialized(c, d) = Deserialized(c, "fresh")
  BY <1>2 DEF Deserialized
<1>4. FieldErrors(c, d) = FieldErrors(c, "fresh")
  BY <1>3 DEF FieldErrors
<1>5. BodyErrors(c, d) = BodyErrors(c, "fresh")
  BY <1>4 DEF BodyErrors
<1>6. Errors(c, d) = Errors(c, "fresh")
  BY <1>1, <1>5 DEF Errors
<1>7. Raises(c, d) = Raises(c, "fresh")
  BY <1>1, <1>3, <1>4, <1>5 DEF Raises
<1>8. StockOutcome(c, d) = StockOutcome(c, "fresh")
  BY <1>6, <1>7 DEF StockOutcome
<1> QED
  BY <1>8 DEF d

(* Stock's outcome is typed, and is an outcome. *)
LEMMA OutcomeTyped ==
  ASSUME NEW c, NEW d
  PROVE  StockOutcome(c, d) \in [kind: Kinds, errors: SUBSET Stages] /\ StockOutcome(c, d) # Pending
<1>1. Errors(c, d) \subseteq Stages
  BY DEF Errors, BodyErrors, FieldErrors, Stages
<1> HIDE DEF Errors
<1>2. \A e \in SUBSET Stages : Reported(c, e) \in [kind: Kinds, errors: SUBSET Stages]
  BY DEF Reported, Kinds
<1> QED
  BY <1>1, <1>2 DEF StockOutcome, Raised, Returned, Pending, Reported, Kinds

-----------------------------------------------------------------------------
(* Type correctness, and how often the hooks run.                          *)

(* Counting hooks that cannot have run yet keeps the counters typed. *)
LEMMA RanTyped ==
  ASSUME TypeOK, RanInv, phase # "returned", NEW hs \in SUBSET Hooks, Ran(hs),
         hs \subseteq Hooks \ (MayHaveRun(phase) \ {"pre"})
  PROVE  /\ ran' \in [Hooks -> 0..2]
         /\ \A h \in Hooks : ran'[h] = IF h \in hs THEN ran[h] + 1 ELSE ran[h]
         /\ \A h \in Hooks \ {"pre"} : ran'[h] <= 1
<1>1. ran \in [Hooks -> 0..2] /\ \A h \in Hooks : ran[h] \in 0..2
  BY DEF TypeOK
<1>2. \A h \in Hooks : ran'[h] = IF h \in hs THEN ran[h] + 1 ELSE ran[h]
  BY DEF Ran
<1>3. \A h \in hs : ran[h] <= 1 /\ (h # "pre" => ran[h] = 0)
  BY <1>1 DEF RanInv
<1>4. \A h \in Hooks \ {"pre"} : ran[h] <= 1
  BY DEF RanInv, HooksRunAgainOnlyAfterDeferral
<1>5. \A h \in Hooks : ran'[h] \in 0..2
  BY <1>1, <1>2, <1>3
<1>6. ran' = [h \in Hooks |-> ran'[h]]
  BY DEF Ran
<1>7. \A h \in Hooks \ {"pre"} : ran'[h] <= 1
  <2> SUFFICES ASSUME NEW h \in Hooks \ {"pre"} PROVE ran'[h] <= 1
    OBVIOUS
  <2> QED
    BY <1>1, <1>2, <1>3, <1>4
<1> QED
  BY <1>2, <1>5, <1>6, <1>7

(* A step that leaves the counters alone runs no hook. *)
LEMMA RanNothing == TypeOK /\ UNCHANGED ran => Ran({})
BY DEF TypeOK, Ran

(* A step that runs hooks which have not run yet, and starts no re-run. *)
LEMMA RanForward ==
  ASSUME TypeOK, RanInv, phase # "returned", phase' # "orig", UNCHANGED call,
         NEW hs \in SUBSET Hooks, Ran(hs), hs \cap MayHaveRun(phase) = {},
         hs \cup MayHaveRun(phase) \subseteq MayHaveRun(phase')
  PROVE  RanInv' /\ ran' \in [Hooks -> 0..2]
<1>1. /\ ran' \in [Hooks -> 0..2]
      /\ \A h \in Hooks : ran'[h] = IF h \in hs THEN ran[h] + 1 ELSE ran[h]
      /\ \A h \in Hooks \ {"pre"} : ran'[h] <= 1
  BY RanTyped
<1>2. "pre" \in Hooks
  BY DEF Hooks
<1>3. ran'["pre"] \in 0..1
  <2>1. ran["pre"] \in 0..2 /\ ran["pre"] <= 1
    BY <1>2 DEF TypeOK, RanInv
  <2>2. "pre" \in hs => ran["pre"] = 0
    BY <1>2 DEF RanInv
  <2> QED
    BY <1>1, <1>2, <2>1, <2>2
<1>4. \A h \in Hooks \ MayHaveRun(phase') : ran'[h] = 0
  <2> SUFFICES ASSUME NEW h \in Hooks \ MayHaveRun(phase') PROVE ran'[h] = 0
    OBVIOUS
  <2>1. h \notin hs /\ h \in Hooks \ MayHaveRun(phase)
    OBVIOUS
  <2> QED
    BY <1>1, <2>1 DEF RanInv
<1>5. HooksRunAgainOnlyAfterDeferral'
  BY <1>1, <1>3 DEF HooksRunAgainOnlyAfterDeferral
<1> QED
  BY <1>1, <1>3, <1>4, <1>5 DEF RanInv, MayHaveRun

(* The re-run itself. *)
LEMMA RanAgain ==
  ASSUME TypeOK, RanInv, phase = "orig", phase' = "returned", UNCHANGED call,
         NEW hs \in SUBSET Hooks, Ran(hs)
  PROVE  RanInv' /\ ran' \in [Hooks -> 0..2]
<1>1. /\ ran' \in [Hooks -> 0..2]
      /\ \A h \in Hooks : ran'[h] = IF h \in hs THEN ran[h] + 1 ELSE ran[h]
      /\ \A h \in Hooks \ {"pre"} : ran'[h] <= 1
  BY RanTyped DEF MayHaveRun
<1>2. "pre" \in Hooks /\ ran["pre"] \in 0..1
  BY DEF Hooks, TypeOK, RanInv
<1>3. ran'["pre"] = 2 => ran["pre"] = 1
  BY <1>1, <1>2
<1>4. DOMAIN call.items = 1..Len(call.items)
  BY CallTyped DEF TypeOK
<1>5. ran'["pre"] = 2 => \E k \in DOMAIN call.items : Records(call, "fresh")[k] # "ok"
  BY <1>3, <1>4 DEF RanInv, AllOk
<1>6. HooksRunAgainOnlyAfterDeferral'
  BY <1>1, <1>5 DEF HooksRunAgainOnlyAfterDeferral
<1> QED
  BY <1>1, <1>6 DEF RanInv, MayHaveRun

(* Every step keeps RanInv: one case per action of Next. *)
LEMMA RanStep ==
  ASSUME TypeOK, StageInv, RanInv, [Next]_vars
  PROVE  RanInv' /\ ran' \in [Hooks -> 0..2]
<1> USE DEF Goto, Return
<1> DEFINE forward(hs) ==
             /\ phase # "returned" /\ phase' # "orig" /\ UNCHANGED call
             /\ hs \in SUBSET Hooks /\ Ran(hs)
             /\ hs \cap MayHaveRun(phase) = {}
             /\ hs \cup MayHaveRun(phase) \subseteq MayHaveRun(phase')
<1>0. ASSUME NEW hs, forward(hs) PROVE RanInv' /\ ran' \in [Hooks -> 0..2]
  BY <1>0, RanForward
<1>1. ASSUME UNCHANGED <<call, ran>>, phase # "returned", phase' = "orig",
             ran["pre"] = 1 => ~AllOk(Len(call.items)),
             MayHaveRun(phase) \subseteq {"pre"}
      PROVE  RanInv' /\ ran' \in [Hooks -> 0..2]
  <2>1. MayHaveRun(phase') = {"pre"}
    BY <1>1 DEF MayHaveRun
  <2>2. HooksRunAgainOnlyAfterDeferral'
    BY <1>1 DEF RanInv, HooksRunAgainOnlyAfterDeferral
  <2>3. \A h \in Hooks \ {"pre"} : ran[h] = 0
    BY <1>1 DEF RanInv
  <2>4. AllOk(Len(call.items))' <=> AllOk(Len(call.items))
    BY <1>1 DEF AllOk
  <2> QED
    BY <1>1, <2>1, <2>2, <2>3, <2>4 DEF RanInv, TypeOK
<1>2. CASE Dispatch
  <2>1. phase = "dispatch" /\ Ran({}) /\ UNCHANGED <<call, ran>> /\ phase' \in {"orig", "pre", "core"}
    BY <1>2, RanNothing DEF Dispatch
  <2>2. CASE phase' = "orig"
    <3>1. ran["pre"] = 0
      BY <2>1 DEF RanInv, MayHaveRun, Hooks
    <3> QED
      BY <1>1, <2>1, <2>2, <3>1 DEF MayHaveRun
  <2>3. CASE phase' # "orig"
    BY <1>0, <2>1, <2>3 DEF MayHaveRun
  <2> QED
    BY <2>2, <2>3
<1>3. CASE RunPreLoad
  <2>1. PICK hs \in {{}, {"pre"}} : Ran(hs)
    BY <1>3 DEF RunPreLoad
  <2>2. phase = "pre" /\ UNCHANGED call /\ phase' \in {"core", "handler", "returned"}
    BY <1>3 DEF RunPreLoad
  <2>3. forward(hs)
    BY <2>1, <2>2 DEF MayHaveRun, Hooks
  <2> HIDE DEF forward
  <2> QED
    BY <1>0, <2>3
<1>4. CASE CoreItem
  <2>1. phase = "core" /\ Ran({}) /\ UNCHANGED <<call, ran>>
    BY <1>4, RanNothing DEF CoreItem
  <2>2. CASE Records(call, "fresh")[item] = "ok"
    <3>1. phase' = "core"
      BY <1>4, <2>2 DEF CoreItem
    <3> QED
      BY <1>0, <2>1, <3>1 DEF MayHaveRun
  <2>3. CASE Records(call, "fresh")[item] # "ok"
    <3>1. item \in 1..Len(call.items)
      BY <1>4, CallTyped DEF CoreItem, TypeOK
    <3>2. ~AllOk(Len(call.items)) /\ phase' = "orig"
      BY <1>4, <2>3, <3>1 DEF AllOk, CoreItem
    <3> QED
      BY <1>1, <2>1, <3>2 DEF MayHaveRun
  <2> QED
    BY <2>2, <2>3
<1>5. CASE CoreDone
  <2>1. phase = "core" /\ Ran({}) /\ UNCHANGED call /\ phase' \in {"fields", "returned"}
    BY <1>5, RanNothing DEF CoreDone
  <2> QED
    BY <1>0, <2>1 DEF MayHaveRun, Hooks
<1>6. CASE FieldValidators
  <2>1. PICK hs \in {{}, {"fields"}} : Ran(hs)
    BY <1>6 DEF FieldValidators
  <2>2. phase = "fields" /\ UNCHANGED call /\ phase' \in {"schema", "returned"}
    BY <1>6 DEF FieldValidators
  <2>3. forward(hs)
    BY <2>1, <2>2 DEF MayHaveRun, Hooks
  <2> HIDE DEF forward
  <2> QED
    BY <1>0, <2>3
<1>7. CASE SchemaValidators
  <2>1. PICK hs \in {{}, {"schema"}} : Ran(hs)
    BY <1>7 DEF SchemaValidators
  <2>2. phase = "schema" /\ UNCHANGED call /\ phase' \in {"post", "returned"}
    BY <1>7 DEF SchemaValidators
  <2>3. forward(hs)
    BY <2>1, <2>2 DEF MayHaveRun, Hooks
  <2> HIDE DEF forward
  <2> QED
    BY <1>0, <2>3
<1>8. CASE RunPostLoad
  <2>1. PICK hs \in {{}, {"post"}} : Ran(hs)
    BY <1>8 DEF RunPostLoad
  <2>2. phase = "post" /\ UNCHANGED call /\ phase' \in {"handler", "returned"}
    BY <1>8 DEF RunPostLoad
  <2>3. forward(hs)
    BY <2>1, <2>2 DEF MayHaveRun, Hooks
  <2> HIDE DEF forward
  <2> QED
    BY <1>0, <2>3
<1>9. CASE HandleError
  <2>1. phase = "handler" /\ Ran({"handler"}) /\ UNCHANGED call /\ phase' = "returned"
    BY <1>9 DEF HandleError
  <2> QED
    BY <1>0, <2>1 DEF MayHaveRun, Hooks
<1>10. CASE OrigDoLoad
  <2>1. PICK hs \in SUBSET Hooks : Ran(hs)
    BY <1>10, Zenon DEF OrigDoLoad
  <2>2. phase = "orig" /\ UNCHANGED call /\ phase' = "returned"
    BY <1>10 DEF OrigDoLoad
  <2> QED
    BY <2>1, <2>2, RanAgain
<1>11. CASE Interrupt
  <2>1. phase # "returned" /\ Ran({}) /\ UNCHANGED call /\ phase' = "returned"
    BY <1>11, RanNothing DEF Interrupt
  <2>2. MayHaveRun(phase) \subseteq Hooks /\ MayHaveRun(phase') = Hooks
    BY <2>1 DEF MayHaveRun, Hooks
  <2>3. forward({})
    BY <2>1, <2>2
  <2> HIDE DEF forward
  <2> QED
    BY <1>0, <2>3
<1>12. CASE UNCHANGED vars
  BY <1>12 DEF vars, TypeOK, RanInv, HooksRunAgainOnlyAfterDeferral, AllOk
<1> QED
  BY <1>2, <1>3, <1>4, <1>5, <1>6, <1>7, <1>8, <1>9, <1>10, <1>11, <1>12 DEF Next

(* Loading a set of records once more keeps the counters typed. *)
LEMMA LoadedTyped ==
  ASSUME TypeOK, AttemptsInv, phase # "returned", UNCHANGED call, NEW ks, Loaded(ks)
  PROVE  /\ attempts' \in [DOMAIN call'.items -> 0..2]
         /\ \A k \in DOMAIN call.items :
              attempts'[k] = IF k \in ks THEN attempts[k] + 1 ELSE attempts[k]
<1>1. /\ attempts \in [DOMAIN call.items -> 0..2]
      /\ \A k \in DOMAIN call.items : attempts[k] \in 0..2 /\ attempts[k] <= 1
  BY DEF TypeOK, AttemptsInv
<1>2. attempts' = [k \in DOMAIN call.items |->
                     IF k \in ks THEN attempts[k] + 1 ELSE attempts[k]]
  BY <1>1 DEF Loaded
<1>3. \A k \in DOMAIN call.items : (IF k \in ks THEN attempts[k] + 1 ELSE attempts[k]) \in 0..2
  BY <1>1
<1> QED
  BY <1>2, <1>3

(* Every step keeps AttemptsInv: the core counts the records up to the one *)
(* it gives up at, and only the re-run counts any of them again.           *)
LEMMA AttemptsStep ==
  ASSUME TypeOK, StageInv, AttemptsInv, [Next]_vars
  PROVE  AttemptsInv' /\ attempts' \in [DOMAIN call'.items -> 0..2]
<1> USE DEF Goto, Return
<1>0. /\ DOMAIN call.items = 1..Len(call.items) /\ Len(call.items) \in Nat
      /\ item \in 1..(Len(call.items) + 1)
      /\ attempts \in [DOMAIN call.items -> 0..2]
      /\ \A k \in DOMAIN call.items : attempts[k] \in 0..2
  BY CallTyped DEF TypeOK
<1>1. ASSUME UNCHANGED <<call, attempts>>, phase # "returned",
             phase' \in {"orig", "pre"} => phase = "dispatch",
             phase' = "core" => phase \in {"dispatch", "pre"} /\ item' = 1,
             phase' # "dispatch"
      PROVE  AttemptsInv' /\ attempts' \in [DOMAIN call'.items -> 0..2]
  <2>1. /\ phase \in {"dispatch", "pre"} => \A k \in DOMAIN call.items : attempts[k] = 0
        /\ \A k \in DOMAIN call.items : attempts[k] <= 1
    BY <1>1 DEF AttemptsInv
  <2>2. \A k \in DOMAIN call.items : ~(k < 1) /\ attempts[k] < 2
    BY <1>0, <2>1
  <2>3. RecordsLoadAgainOnlyAfterDeferral'
    BY <1>0, <1>1, <2>2 DEF RecordsLoadAgainOnlyAfterDeferral
  <2> QED
    BY <1>0, <1>1, <2>1, <2>2, <2>3 DEF AttemptsInv
<1>2. CASE Dispatch
  BY <1>1, <1>2 DEF Dispatch, StageInv
<1>3. CASE RunPreLoad
  <2>1. /\ UNCHANGED <<call, attempts>> /\ phase = "pre" /\ item' = 1
        /\ phase' \in {"core", "handler", "returned"}
    BY <1>3 DEF RunPreLoad, StageInv
  <2> QED
    BY <1>1, <2>1
<1>4. CASE CoreItem
  <2>1. /\ phase = "core" /\ UNCHANGED call /\ Loaded({item}) /\ item \in 1..Len(call.items)
        /\ AllOk(item - 1)
    BY <1>0, <1>4 DEF CoreItem, StageInv
  <2>2. /\ attempts' \in [DOMAIN call'.items -> 0..2]
        /\ \A k \in DOMAIN call.items : attempts'[k] = IF k <= item THEN 1 ELSE 0
    <3>1. \A k \in DOMAIN call.items : attempts[k] = IF k < item THEN 1 ELSE 0
      BY <2>1 DEF AttemptsInv
    <3>2. /\ attempts' \in [DOMAIN call'.items -> 0..2]
          /\ \A k \in DOMAIN call.items :
               attempts'[k] = IF k \in {item} THEN attempts[k] + 1 ELSE attempts[k]
      BY <2>1, LoadedTyped
    <3>3. \A k \in DOMAIN call.items : (k < item \/ k = item) <=> k <= item
      BY <1>0
    <3>4. \A k \in DOMAIN call.items : ~(k < item /\ k = item)
      BY <1>0
    <3> QED
      BY <3>1, <3>2, <3>3, <3>4
  <2>3. RecordsLoadAgainOnlyAfterDeferral'
    BY <2>1, <2>2 DEF RecordsLoadAgainOnlyAfterDeferral
  <2>4. CASE Records(call, "fresh")[item] = "ok"
    <3>1. phase' = "core" /\ item' = item + 1
      BY <1>4, <2>4 DEF CoreItem
    <3>2. \A k \in DOMAIN call.items : k <= item <=> k < item'
      BY <1>0, <3>1
    <3> QED
      BY <2>1, <2>2, <2>3, <3>1, <3>2 DEF AttemptsInv
  <2>5. CASE Records(call, "fresh")[item] # "ok"
    <3>1. phase' = "orig"
      BY <1>4, <2>5 DEF CoreItem
    <3>2. ~AllOk(Len(call.items))
      BY <2>1, <2>5 DEF AllOk
    <3>3. \A k \in DOMAIN call.items : k <= item => AllOk(k - 1)
      BY <1>0, <2>1 DEF AllOk
    <3>4. \A k \in DOMAIN call.items : attempts'[k] = 1 => AllOk(k - 1)
      BY <2>2, <3>3
    <3>5. \A k \in DOMAIN call.items : attempts'[k] <= 1
      BY <2>2
    <3>6. phase' \notin {"dispatch", "pre", "core"} /\ DOMAIN call'.items = DOMAIN call.items
          /\ Len(call'.items) = Len(call.items)
      BY <2>1, <3>1
    <3>7. ~(\A k \in 1..Len(call'.items) : Records(call', "fresh")[k] = "ok")
      BY <2>1, <3>2 DEF AllOk
    <3>8. \A k \in DOMAIN call'.items : attempts'[k] = 1 =>
            \A j \in 1..(k - 1) : Records(call', "fresh")[j] = "ok"
      BY <2>1, <3>4 DEF AllOk
    <3> QED
      BY <2>2, <2>3, <3>5, <3>6, <3>7, <3>8 DEF AttemptsInv, AllOk
  <2> QED
    BY <2>2, <2>4, <2>5
<1>5. CASE CoreDone
  BY <1>1, <1>5 DEF CoreDone
<1>6. CASE FieldValidators \/ SchemaValidators
  <2>1. UNCHANGED <<call, attempts>> /\ phase # "returned" /\ phase' \in {"schema", "post", "returned"}
    BY <1>6 DEF FieldValidators, SchemaValidators
  <2> QED
    BY <1>1, <2>1
<1>7. CASE RunPostLoad
  <2>1. UNCHANGED <<call, attempts>> /\ phase # "returned" /\ phase' \in {"handler", "returned"}
    BY <1>7 DEF RunPostLoad
  <2> QED
    BY <1>1, <2>1
<1>8. CASE HandleError \/ Interrupt
  <2>1. UNCHANGED <<call, attempts>> /\ phase # "returned" /\ phase' = "returned"
    BY <1>8 DEF HandleError, Interrupt
  <2> QED
    BY <1>1, <2>1
<1>9. CASE OrigDoLoad
  <2>1. phase = "orig" /\ phase' = "returned" /\ UNCHANGED call
    BY <1>9 DEF OrigDoLoad
  <2>2. PICK ks : Loaded(ks)
    BY <1>9, Zenon DEF OrigDoLoad
  <2>3. /\ attempts' \in [DOMAIN call'.items -> 0..2]
        /\ \A k \in DOMAIN call.items :
             attempts'[k] = attempts[k] + 1 \/ attempts'[k] = attempts[k]
    BY <2>1, <2>2, LoadedTyped
  <2>4. \A k \in DOMAIN call.items :
          attempts'[k] >= 2 => attempts'[k] = 2 /\ attempts[k] = 1
    <3>1. \A k \in DOMAIN call.items : attempts[k] <= 1
      BY <2>1 DEF AttemptsInv
    <3> QED
      BY <1>0, <2>3, <3>1
  <2>5. RecordsLoadAgainOnlyAfterDeferral'
    BY <2>1, <2>4 DEF AttemptsInv, RecordsLoadAgainOnlyAfterDeferral, AllOk
  <2> QED
    BY <2>1, <2>3, <2>5 DEF AttemptsInv
<1>10. CASE UNCHANGED vars
  BY <1>0, <1>10 DEF vars, AttemptsInv, RecordsLoadAgainOnlyAfterDeferral, AllOk
<1> QED
  BY <1>2, <1>3, <1>4, <1>5, <1>6, <1>7, <1>8, <1>9, <1>10 DEF Next

(* Every step keeps the types; the counters' are the two lemmas above. *)
LEMMA TypeStep ==
  ASSUME TypeOK, StageInv, RanInv, AttemptsInv, [Next]_vars
  PROVE  TypeOK'
<1> USE DEF Goto, Return, Hooks, Phases
<1>0. /\ ran' \in [Hooks -> 0..2] /\ attempts' \in [DOMAIN call'.items -> 0..2]
      /\ DataStates = {"fresh", "touched"}
      /\ call \in Calls /\ dataState \in DataStates /\ Len(call.items) \in Nat
      /\ call.pre[dataState].left \in DataStates
  BY RanStep, AttemptsStep, CallTyped DEF TypeOK, DataStates
<1>a. {Pending, Raised, Returned, Interrupted} \subseteq [kind: Kinds, errors: SUBSET Stages]
  BY DEF Pending, Raised, Returned, Interrupted, Kinds
<1>1. CASE Dispatch
  BY <1>0, <1>1 DEF Dispatch, TypeOK
<1>2. CASE RunPreLoad
  <2>1. /\ dataState' = call.pre[dataState].left
        /\ errors' = errors \/ errors' = {"pre"}
        /\ UNCHANGED <<call, item, interrupted>>
        /\ phase' \in Phases /\ (outcome' = outcome \/ outcome' = Raised)
    BY <1>2 DEF RunPreLoad
  <2> QED
    BY <1>0, <1>a, <2>1 DEF TypeOK, Stages
<1>3. CASE CoreItem
  BY <1>0, <1>3 DEF CoreItem, TypeOK
<1>4. CASE CoreDone
  BY <1>0, <1>a, <1>4 DEF CoreDone, TypeOK
<1>5. CASE FieldValidators
  <2>1. /\ errors' = errors \/ errors' = errors \cup {"fields"}
        /\ UNCHANGED <<call, dataState, item, interrupted>>
        /\ phase' \in Phases /\ (outcome' = outcome \/ outcome' = Raised)
    BY <1>5 DEF FieldValidators
  <2> QED
    BY <1>0, <1>a, <2>1 DEF TypeOK, Stages
<1>6. CASE SchemaValidators
  <2>1. /\ errors' = errors \/ errors' = errors \cup {"schema"}
        /\ UNCHANGED <<call, dataState, item, interrupted>>
        /\ phase' \in Phases /\ (outcome' = outcome \/ outcome' = Raised)
    BY <1>6 DEF SchemaValidators
  <2> QED
    BY <1>0, <1>a, <2>1 DEF TypeOK, Stages
<1>7. CASE RunPostLoad
  <2>1. /\ errors' = errors \/ errors' = {"post"}
        /\ UNCHANGED <<call, dataState, item, interrupted>>
        /\ phase' \in Phases /\ (outcome' = outcome \/ outcome' \in {Raised, Returned})
    BY <1>7 DEF RunPostLoad
  <2> QED
    BY <1>0, <1>a, <2>1 DEF TypeOK, Stages
<1>8. CASE HandleError
  <2>1. Reported(call, errors) \in [kind: Kinds, errors: SUBSET Stages]
    BY DEF Reported, Kinds, TypeOK
  <2> QED
    BY <1>0, <1>8, <2>1 DEF HandleError, TypeOK
<1>9. CASE OrigDoLoad
  <2>1. /\ dataState' = call.pre[dataState].left
        /\ phase' = "returned" /\ outcome' = StockOutcome(call, dataState)
        /\ UNCHANGED <<call, item, errors, interrupted>>
    BY <1>9 DEF OrigDoLoad
  <2> QED
    BY <1>0, <2>1, OutcomeTyped DEF TypeOK
<1>10. CASE Interrupt
  BY <1>0, <1>a, <1>10 DEF Interrupt, TypeOK
<1>11. CASE UNCHANGED vars
  BY <1>0, <1>11 DEF vars, TypeOK
<1> QED
  BY <1>1, <1>2, <1>3, <1>4, <1>5, <1>6, <1>7, <1>8, <1>9, <1>10, <1>11 DEF Next

-----------------------------------------------------------------------------
(* The stages.                                                             *)

(* With nothing deserialized wrong, the stages' errors are the validators'. *)
LEMMA StageErrors ==
  ASSUME call \in Calls, Accepted, AllOk(Len(call.items))
  PROVE  /\ FieldErrors(call, "fresh") = IF call.fields = "invalid" THEN {"fields"} ELSE {}
         /\ ~(call.fields = "error" \/ SchemaError) =>
              /\ Raises(call, "fresh") <=>
                   call.post = "error" /\ PostRuns(call, BodyErrors(call, "fresh"))
              /\ Errors(call, "fresh") =
                   IF PostRuns(call, BodyErrors(call, "fresh")) /\ call.post = "invalid"
                   THEN {"post"} ELSE BodyErrors(call, "fresh")
         /\ call.fields = "error" \/ SchemaError => Raises(call, "fresh")
<1>1. Deserialized(call, "fresh") = "ok"
  BY AllOkDeserialized
<1>2. call.pre["fresh"].verdict \notin {"invalid", "error"}
  BY DEF Accepted
<1>3. FieldErrors(call, "fresh") = IF call.fields = "invalid" THEN {"fields"} ELSE {}
  BY <1>1 DEF FieldErrors
<1>4. ~(call.fields = "error" \/ SchemaError) =>
        (Raises(call, "fresh") <=>
           call.post = "error" /\ PostRuns(call, BodyErrors(call, "fresh")))
  BY <1>1, <1>2 DEF Raises, SchemaError
<1>5. Errors(call, "fresh") =
        IF PostRuns(call, BodyErrors(call, "fresh")) /\ call.post = "invalid"
        THEN {"post"} ELSE BodyErrors(call, "fresh")
  BY <1>2 DEF Errors
<1>6. call.fields = "error" \/ SchemaError => Raises(call, "fresh")
  BY <1>2 DEF Raises, SchemaError
<1> QED
  BY <1>3, <1>4, <1>5, <1>6

(* When pre_load refuses, nothing else is reported. *)
LEMMA RefusedErrors ==
  ASSUME NEW c, c.pre["fresh"].verdict = "invalid"
  PROVE  Errors(c, "fresh") = {"pre"}
BY DEF Errors

(* Every step keeps StageInv: the errors so far are stock's so far. *)
LEMMA StageStep ==
  ASSUME TypeOK, StageInv, [Next]_vars
  PROVE  StageInv'
<1> USE DEF Goto, Return
<1>0. /\ call \in Calls /\ Len(call.items) \in Nat /\ item \in 1..(Len(call.items) + 1)
      /\ {call.fields, call.schema, call.post} \subseteq Verdicts
      /\ call.pre["fresh"].verdict \in Verdicts
  BY CallTyped DEF TypeOK, DataStates
<1>1. ASSUME phase' = "returned" PROVE StageInv'
  BY <1>1 DEF StageInv
<1>2. CASE Dispatch
  <2>1. /\ phase = "dispatch" /\ outcome' = Pending /\ errors' = {} /\ dataState' = "fresh"
        /\ item' = 1 /\ call' = call
    BY <1>2 DEF Dispatch, StageInv
  <2>2. CASE phase' \in {"orig", "pre"}
    BY <2>1, <2>2 DEF StageInv
  <2>3. CASE phase' = "core" /\ ~HasHooks
    <3>1. call.pre = NoPreLoad /\ call.pre["fresh"].verdict = "absent"
      BY <1>0, <2>3, CallTyped DEF HasHooks, DataStates
    <3>2. LeftByPreLoad'
      BY <2>1, <3>1 DEF LeftByPreLoad, Accepted, NoPreLoad, DataStates
    <3> QED
      BY <2>1, <2>3, <3>2 DEF StageInv, AllOk
  <2> QED
    BY <1>2, <2>2, <2>3 DEF Dispatch
<1>3. CASE RunPreLoad
  <2>1. /\ phase = "pre" /\ dataState = "fresh" /\ item = 1 /\ errors = {}
        /\ dataState' = call.pre["fresh"].left /\ item' = 1 /\ call' = call
        /\ outcome = Pending
    BY <1>3 DEF RunPreLoad, StageInv
  <2>2. CASE call.pre["fresh"].verdict \in {"absent", "ok"}
    <3>1. phase' = "core" /\ errors' = {} /\ outcome' = Pending
      BY <1>3, <2>1, <2>2 DEF RunPreLoad
    <3>2. LeftByPreLoad'
      BY <2>1, <2>2 DEF LeftByPreLoad, Accepted
    <3> QED
      BY <2>1, <3>1, <3>2 DEF StageInv, AllOk
  <2>3. CASE call.pre["fresh"].verdict = "invalid"
    <3>1. phase' = "handler" /\ errors' = {"pre"} /\ outcome' = Pending
      BY <1>3, <2>1, <2>3 DEF RunPreLoad
    <3>2. ~Raises(call, "fresh")
      BY <2>3 DEF Raises
    <3>3. Errors(call, "fresh") = {"pre"}
      BY <2>3, RefusedErrors
    <3> QED
      BY <2>1, <3>1, <3>2, <3>3 DEF StageInv
  <2>4. CASE call.pre["fresh"].verdict = "error"
    BY <1>1, <1>3, <2>1, <2>4 DEF RunPreLoad
  <2> QED
    BY <1>0, <2>2, <2>3, <2>4 DEF Verdicts
<1>4. CASE CoreItem
  <2>1. /\ phase = "core" /\ errors' = {} /\ outcome' = Pending /\ call' = call
        /\ dataState' = dataState /\ LeftByPreLoad /\ AllOk(item - 1)
        /\ item <= Len(call.items)
    BY <1>4 DEF CoreItem, StageInv
  <2>2. LeftByPreLoad'
    BY <2>1 DEF LeftByPreLoad, Accepted
  <2>3. CASE Records(call, "fresh")[item] = "ok"
    <3>1. phase' = "core" /\ item' = item + 1 /\ item' - 1 = item
      BY <1>0, <1>4, <2>3 DEF CoreItem
    <3>2. AllOk(item)
      BY <1>0, <2>1, <2>3 DEF AllOk
    <3>3. AllOk(item - 1)'
      BY <2>1, <3>1, <3>2 DEF AllOk
    <3> QED
      BY <2>1, <2>2, <3>1, <3>3 DEF StageInv
  <2>4. CASE Records(call, "fresh")[item] # "ok"
    <3>1. phase' = "orig"
      BY <1>4, <2>4 DEF CoreItem
    <3> QED
      BY <2>1, <2>2, <3>1 DEF StageInv
  <2> QED
    BY <2>3, <2>4
<1>5. CASE CoreDone
  <2>1. /\ phase = "core" /\ errors' = {} /\ call' = call
        /\ dataState' = dataState /\ LeftByPreLoad /\ AllOk(item - 1)
        /\ item - 1 = Len(call.items) /\ outcome = Pending
    BY <1>0, <1>5 DEF CoreDone, StageInv
  <2>2. LeftByPreLoad' /\ AllOk(Len(call.items))'
    BY <2>1 DEF LeftByPreLoad, Accepted, AllOk
  <2>3. CASE phase' = "fields" /\ outcome' = Pending
    BY <2>1, <2>2, <2>3 DEF StageInv
  <2> QED
    BY <1>1, <1>5, <2>1, <2>3 DEF CoreDone
<1>6. CASE FieldValidators
  <2>1. /\ phase = "fields" /\ errors = {} /\ call' = call /\ dataState' = dataState
        /\ LeftByPreLoad /\ AllOk(Len(call.items)) /\ outcome = Pending
    BY <1>6 DEF FieldValidators, StageInv
  <2>2. LeftByPreLoad' /\ AllOk(Len(call.items))'
    BY <2>1 DEF LeftByPreLoad, Accepted, AllOk
  <2>3. CASE /\ call.fields # "error" /\ phase' = "schema" /\ outcome' = Pending
             /\ errors' = IF call.fields = "invalid" THEN {"fields"} ELSE {}
    <3>1. errors' = FieldErrors(call, "fresh")
      BY <1>0, <2>1, <2>3, StageErrors DEF LeftByPreLoad
    <3> QED
      BY <2>1, <2>2, <2>3, <3>1 DEF StageInv
  <2> QED
    BY <1>1, <1>6, <2>1, <2>3 DEF FieldValidators
<1>7. CASE SchemaValidators
  <2>1. /\ phase = "schema" /\ errors = FieldErrors(call, "fresh") /\ call' = call
        /\ dataState' = dataState /\ LeftByPreLoad /\ AllOk(Len(call.items))
        /\ outcome = Pending /\ call.fields # "error"
    BY <1>7 DEF SchemaValidators, StageInv
  <2>2. LeftByPreLoad' /\ AllOk(Len(call.items))'
    BY <2>1 DEF LeftByPreLoad, Accepted, AllOk
  <2>3. CASE /\ ~SchemaError /\ phase' = "post" /\ outcome' = Pending
             /\ errors' = BodyErrors(call, "fresh")
    <3>1. ~SchemaError' /\ errors' = BodyErrors(call', "fresh")
      BY <2>1, <2>3 DEF SchemaError
    <3> QED
      BY <2>1, <2>2, <2>3, <3>1 DEF StageInv
  <2>4. CASE SchemaError
    BY <1>1, <1>7, <2>1, <2>4 DEF SchemaValidators, SchemaError
  <2>5. CASE ~SchemaError
    <3>1. SchemaRuns(call, errors) => call.schema \in {"ok", "invalid"}
      BY <1>0, <2>1, <2>5 DEF SchemaError, SchemaRuns, Verdicts
    <3>2. /\ phase' = "post" /\ outcome' = Pending
          /\ errors' = errors \cup {s \in {"schema"} :
                         call.schema = "invalid" /\ SchemaRuns(call, errors)}
      BY <1>7, <2>1, <3>1 DEF SchemaValidators
    <3> QED
      BY <2>1, <2>3, <2>5, <3>2 DEF BodyErrors
  <2> QED
    BY <2>4, <2>5
<1>8. CASE RunPostLoad
  <2>1. /\ phase = "post" /\ errors = BodyErrors(call, "fresh") /\ call' = call
        /\ LeftByPreLoad /\ AllOk(Len(call.items)) /\ outcome = Pending
        /\ call.fields # "error" /\ ~SchemaError
    BY <1>8 DEF RunPostLoad, StageInv
  <2>2. /\ Raises(call, "fresh") <=> call.post = "error" /\ PostRuns(call, errors)
        /\ Errors(call, "fresh") = IF PostRuns(call, errors) /\ call.post = "invalid"
                                   THEN {"post"} ELSE errors
    BY <1>0, <2>1, StageErrors DEF LeftByPreLoad
  <2>3. CASE phase' = "handler"
    <3>1. /\ outcome' = Pending /\ ~Raises(call, "fresh")
          /\ errors' = Errors(call, "fresh") /\ errors' # {}
      BY <1>8, <2>1, <2>2, <2>3 DEF RunPostLoad, PostRuns
    <3> QED
      BY <2>1, <2>3, <3>1 DEF StageInv
  <2> QED
    BY <1>1, <1>8, <2>3 DEF RunPostLoad
<1>9. CASE HandleError \/ OrigDoLoad \/ Interrupt
  <2>1. phase' = "returned"
    BY <1>9 DEF HandleError, OrigDoLoad, Interrupt
  <2> QED
    BY <1>1, <2>1
<1>10. CASE UNCHANGED vars
  BY <1>10 DEF vars, StageInv, LeftByPreLoad, Accepted, AllOk, SchemaError
<1> QED
  BY <1>2, <1>3, <1>4, <1>5, <1>6, <1>7, <1>8, <1>9, <1>10 DEF Next

(* LoadInv is an invariant: Init implies it and every step keeps it. *)
LEMMA Invariance == Spec => []LoadInv
<1>1. Init => LoadInv
  <2> SUFFICES ASSUME Init PROVE LoadInv
    OBVIOUS
  <2>1. call \in Calls /\ Len(call.items) \in Nat
    BY CallTyped DEF Init
  <2>2. TypeOK
    <3>1. Pending \in [kind: Kinds, errors: SUBSET Stages]
      BY DEF Pending, Kinds
    <3>2. /\ call \in Calls /\ dataState = "fresh" /\ phase = "dispatch" /\ item = 1
          /\ errors = {} /\ ran = [h \in Hooks |-> 0] /\ interrupted = FALSE
          /\ attempts = [k \in DOMAIN call.items |-> 0] /\ outcome = Pending
      BY DEF Init
    <3>3. /\ item \in 1..(Len(call.items) + 1) /\ ran \in [Hooks -> 0..2]
          /\ attempts \in [DOMAIN call.items -> 0..2]
      BY <2>1, <3>2
    <3> QED
      BY <3>1, <3>2, <3>3 DEF TypeOK, DataStates, Phases
  <2>3. StageInv
    BY DEF Init, StageInv
  <2>4. RanInv
    BY DEF Init, RanInv, HooksRunAgainOnlyAfterDeferral, Hooks
  <2>5. AttemptsInv
    <3>1. phase = "dispatch" /\ \A k \in DOMAIN call.items : attempts[k] = 0
      BY DEF Init
    <3> QED
      BY <3>1 DEF AttemptsInv, RecordsLoadAgainOnlyAfterDeferral
  <2> QED
    BY <2>2, <2>3, <2>4, <2>5 DEF LoadInv
<1>2. LoadInv /\ [Next]_vars => LoadInv'
  BY TypeStep, StageStep, RanStep, AttemptsStep DEF LoadInv
<1> QED
  BY <1>1, <1>2, PTL DEF Spec

(* Every variable keeps its type; in particular no user hook runs a third  *)
(* time, whatever the call.                                                *)
THEOREM TypeCorrect == Spec => []TypeOK
<1>1. LoadInv => TypeOK
  BY DEF LoadInv
<1> QED
  BY <1>1, Invariance, PTL

(* Only pre_load runs twice, and only when the core deferred a record, for *)
(* every mix of hooks, validators and records.                             *)
THEOREM HookDiscipline == Spec => []HooksRunAgainOnlyAfterDeferral
<1>1. LoadInv => HooksRunAgainOnlyAfterDeferral
  BY DEF LoadInv, RanInv
<1> QED
  BY <1>1, Invariance, PTL

(* A record's Callback fields and Python validators run a second time only *)
(* because the core gave up at it or after it, and never a third time.     *)
THEOREM RecordDiscipline == Spec => []RecordsLoadAgainOnlyAfterDeferral
<1>1. LoadInv => RecordsLoadAgainOnlyAfterDeferral
  BY DEF LoadInv, AttemptsInv
<1> QED
  BY <1>1, Invariance, PTL

-----------------------------------------------------------------------------
(* The promise.                                                            *)

(* Every step of the accelerated call is the stock reply, the interrupt, or
   a stutter of the promise. *)
LEMMA PromiseStep ==
  ASSUME LoadInv, Replayable(call), [Next]_vars
  PROVE  [Promise!Next]_<<call, outcome, interrupted>>
<1> USE DEF Goto, Return
<1> DEFINE answer == StockOutcome(call, "fresh")
<1>0. /\ TypeOK /\ StageInv /\ call \in Calls /\ Len(call.items) \in Nat
      /\ item \in 1..(Len(call.items) + 1)
  BY CallTyped DEF LoadInv, TypeOK
<1>1. ASSUME phase # "returned", outcome' = answer, UNCHANGED <<call, interrupted>>
      PROVE  Promise!Next
  <2>1. outcome = Pending
    BY <1>0, <1>1 DEF StageInv
  <2> QED
    BY <1>1, <2>1, SameAnswer DEF Promise!Next, Promise!Reply, Pending, Promise!Pending
<1>2. CASE Dispatch
  BY <1>2 DEF Dispatch
<1>3. CASE RunPreLoad
  <2>1. phase = "pre" /\ dataState = "fresh" /\ UNCHANGED <<call, interrupted>>
    BY <1>0, <1>3 DEF RunPreLoad, StageInv
  <2>2. CASE call.pre["fresh"].verdict = "error" /\ outcome' = Raised
    <3>1. answer = Raised
      BY <2>2 DEF StockOutcome, Raises
    <3> QED
      BY <1>1, <2>1, <2>2, <3>1
  <2> QED
    BY <1>3, <2>1, <2>2 DEF RunPreLoad
<1>4. CASE CoreItem
  BY <1>4 DEF CoreItem
<1>5. CASE CoreDone
  <2>1. /\ phase = "core" /\ UNCHANGED <<call, interrupted>> /\ LeftByPreLoad
        /\ AllOk(Len(call.items))
    <3>1. item - 1 = Len(call.items)
      BY <1>0, <1>5 DEF CoreDone
    <3> QED
      BY <1>0, <1>5, <3>1 DEF CoreDone, StageInv
  <2>2. CASE ~HasHooks /\ outcome' = Returned
    <3>1. call.fields = "absent" /\ call.schema = "absent" /\ call.post = "absent"
      BY <2>2 DEF HasHooks
    <3>2. FieldErrors(call, "fresh") = {} /\ ~SchemaError
      BY <1>0, <2>1, <3>1, StageErrors DEF LeftByPreLoad, SchemaError
    <3>3. BodyErrors(call, "fresh") = {}
      BY <3>1, <3>2 DEF BodyErrors
    <3>4. ~Raises(call, "fresh") /\ Errors(call, "fresh") = {}
      BY <1>0, <2>1, <3>1, <3>2, <3>3, StageErrors DEF LeftByPreLoad
    <3>5. answer = Returned
      BY <3>4 DEF StockOutcome
    <3> QED
      BY <1>1, <2>1, <2>2, <3>5
  <2> QED
    BY <1>5, <2>1, <2>2 DEF CoreDone
<1>6. CASE FieldValidators
  <2>1. /\ phase = "fields" /\ UNCHANGED <<call, interrupted>> /\ LeftByPreLoad
        /\ AllOk(Len(call.items))
    BY <1>0, <1>6 DEF FieldValidators, StageInv
  <2>2. CASE call.fields = "error" /\ outcome' = Raised
    <3>1. answer = Raised
      BY <1>0, <2>1, <2>2, StageErrors DEF LeftByPreLoad, StockOutcome
    <3> QED
      BY <1>1, <2>1, <2>2, <3>1
  <2> QED
    BY <1>6, <2>1, <2>2 DEF FieldValidators
<1>7. CASE SchemaValidators
  <2>1. /\ phase = "schema" /\ UNCHANGED <<call, interrupted>> /\ LeftByPreLoad
        /\ AllOk(Len(call.items)) /\ errors = FieldErrors(call, "fresh")
    BY <1>0, <1>7 DEF SchemaValidators, StageInv
  <2>2. CASE SchemaError /\ outcome' = Raised
    <3>1. answer = Raised
      BY <1>0, <2>1, <2>2, StageErrors DEF LeftByPreLoad, StockOutcome
    <3> QED
      BY <1>1, <2>1, <2>2, <3>1
  <2>3. outcome' = outcome \/ (SchemaError /\ outcome' = Raised)
    BY <1>7, <2>1 DEF SchemaValidators, SchemaError
  <2> QED
    BY <2>1, <2>2, <2>3
<1>8. CASE RunPostLoad
  <2>1. /\ phase = "post" /\ errors = BodyErrors(call, "fresh")
        /\ UNCHANGED <<call, interrupted>>
        /\ LeftByPreLoad /\ AllOk(Len(call.items))
        /\ call.fields # "error" /\ ~SchemaError
    BY <1>0, <1>8 DEF RunPostLoad, StageInv
  <2>2. /\ Raises(call, "fresh") <=> call.post = "error" /\ PostRuns(call, errors)
        /\ Errors(call, "fresh") = IF PostRuns(call, errors) /\ call.post = "invalid"
                                   THEN {"post"} ELSE errors
    BY <1>0, <2>1, StageErrors DEF LeftByPreLoad
  <2>3. CASE /\ outcome' = Raised /\ call.post = "error" /\ PostRuns(call, errors)
    <3>1. answer = Raised
      BY <2>2, <2>3 DEF StockOutcome
    <3> QED
      BY <1>1, <2>1, <2>3, <3>1
  <2>4. CASE /\ outcome' = Returned /\ errors = {}
             /\ ~PostRuns(call, errors) \/ call.post = "ok"
    <3>1. ~Raises(call, "fresh") /\ Errors(call, "fresh") = {}
      BY <2>2, <2>4
    <3>2. answer = Returned
      BY <3>1 DEF StockOutcome
    <3> QED
      BY <1>1, <2>1, <2>4, <3>2
  <2> QED
    BY <1>8, <2>1, <2>3, <2>4 DEF RunPostLoad, PostRuns
<1>9. CASE HandleError
  <2>1. /\ phase = "handler" /\ UNCHANGED <<call, interrupted>>
        /\ outcome' = Reported(call, errors) /\ ~Raises(call, "fresh")
        /\ errors = Errors(call, "fresh") /\ errors # {}
    BY <1>0, <1>9 DEF HandleError, StageInv
  <2>2. answer = Reported(call, errors)
    BY <2>1 DEF StockOutcome
  <2> QED
    BY <1>1, <2>1, <2>2
<1>10. CASE OrigDoLoad
  <2>1. /\ phase = "orig" /\ UNCHANGED <<call, interrupted>>
        /\ outcome' = StockOutcome(call, dataState)
    BY <1>10 DEF OrigDoLoad
  <2>2. StockOutcome(call, dataState) = answer
    <3>1. dataState = "fresh" \/ LeftByPreLoad
      BY <1>0, <2>1 DEF StageInv
    <3> QED
      BY <3>1, ReplaySame DEF LeftByPreLoad, Accepted
  <2> QED
    BY <1>1, <2>1, <2>2
<1>11. CASE Interrupt
  <2>1. phase # "returned" /\ interrupted' = TRUE /\ outcome' = Interrupted /\ call' = call
    BY <1>11 DEF Interrupt
  <2>2. outcome = Pending
    BY <1>0, <2>1 DEF StageInv
  <2> QED
    BY <2>1, <2>2 DEF Promise!Next, Promise!Interrupt, Pending, Promise!Pending,
                      Interrupted, Promise!Interrupted
<1>12. CASE UNCHANGED vars
  BY <1>12 DEF vars
<1> QED
  BY <1>2, <1>3, <1>4, <1>5, <1>6, <1>7, <1>8, <1>9, <1>10, <1>11, <1>12 DEF Next

(* The accelerated call implements the one stock call, for every schema's  *)
(* hooks and every batch of records, when each pre_load can run again on   *)
(* the data it left.                                                       *)
THEOREM ImplementsStock ==
  ASSUME \A c \in Calls : Replayable(c)
  PROVE  Spec => RefinesPromise
<1>1. Init => Promise!Init
  BY CallsWellFormed, SameWellFormed
     DEF Init, Promise!Init, Pending, Promise!Pending
<1>2. LoadInv /\ [Next]_vars => [Promise!Next]_<<call, outcome, interrupted>>
  <2>1. LoadInv => Replayable(call)
    BY DEF LoadInv, TypeOK
  <2> QED
    BY <2>1, PromiseStep
<1> QED
  BY <1>1, <1>2, Invariance, PTL DEF Spec, RefinesPromise, Promise!Safety
=============================================================================
