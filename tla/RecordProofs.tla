---------------------------- MODULE RecordProofs ----------------------------
(***************************************************************************)
(* Proofs about LoadRecord and JsonRecord: the loop of run_one against     *)
(* stock's load, and the three passes of run_one_json against json.loads   *)
(* followed by stock's load, for every schema, record, object and partial  *)
(* argument.                                                               *)
(***************************************************************************)
EXTENDS LoadRecord, JsonRecord, TLAPS

-----------------------------------------------------------------------------
(***************************************************************************)
(* Stock's output one field, and one unknown key, at a time, in terms of   *)
(* the store of the per-field loops (Put of LoadStep).                     *)
(***************************************************************************)
(* A path is a prefix of itself. *)
LEMMA PrefixReflexive ==
  ASSUME NEW p \in Paths
  PROVE  IsPrefix(p, p)
BY DEF Paths, IsPrefix

(* The one-component path << u >> is a prefix of the paths that start with u. *)
LEMMA PrefixOfHead ==
  ASSUME NEW u \in Keys, NEW p \in Paths
  PROVE  IsPrefix(<<u>>, p) <=> Head(p) = u
<1> p \in Seq(Keys) /\ p # <<>> /\ Len(p) >= 1
  BY DEF Paths
<1> QED
  BY DEF IsPrefix

(* A field of a schema has its fields in their types. *)
LEMMA SpecTyped ==
  ASSUME NEW s \in Schemas, NEW k \in 1..Len(s)
  PROVE  /\ s[k] \in FieldSpec
         /\ s[k].path \in Paths
         /\ s[k].dataKey \in Keys
         /\ s[k].default \in Values \cup {None, Missing}
         /\ Len(s) \in Nat
<1>1. s \in Seq(FieldSpec)
  BY SchemasType
<1>2. s[k] \in FieldSpec /\ Len(s) \in Nat
  BY <1>1
<1> QED
  BY <1>2 DEF FieldSpec

(* An input holds a value, None or nothing under a data key. *)
LEMMA RawTyped ==
  ASSUME NEW s \in Schemas, NEW k \in 1..Len(s), NEW d, IsRecord(d)
  PROVE  Raw(s[k], d) \in Values \cup {None, Missing}
BY DEF Raw, IsRecord

(* The outcome of a field is a value, None or one of the three outcomes. *)
LEMMA StockFieldTyped ==
  ASSUME NEW s \in Schemas, NEW k \in 1..Len(s), NEW d, IsRecord(d),
         NEW p \in PartialArgs
  PROVE  StockField(s[k], d, p) \in Values \cup {None} \cup Outcomes
<1>1. Raw(s[k], d) \in Values \cup {None, Missing}
  BY RawTyped
<1>2. s[k].default \in Values \cup {None, Missing}
  BY SpecTyped
<1>3. Raw(s[k], d) \in Values =>
        Stock(s[k], Raw(s[k], d), StockPartial(s[k], p)) \in Values \cup {None, Fail, Interrupt}
  BY FieldsTyped DEF Handed
<1> QED
  BY <1>1, <1>2, <1>3, Sentinels DEF StockField, Deserialize, Outcomes

(* _core_partial turns a falsy partial into None, which exempts no field:  *)
(* nor did the partial it came from.                                       *)
LEMMA AllowsAlike ==
  ASSUME NEW p, NEW name
  PROVE  AllowsMissing(CorePartial(p), name) <=> AllowsMissing(p, name)
BY DEF AllowsMissing, CorePartial, Falsy, NoPartial

(* A field that is told of partial what stock tells it, or that cannot     *)
(* tell the difference, makes the same of a value.                         *)
LEMMA KeptAlike ==
  ASSUME NEW s \in Schemas, NEW k \in 1..Len(s), NEW v \in Values,
         NEW p \in PartialArgs, PartialKept(s[k], p)
  PROVE  Stock(s[k], v, CoreSub(s[k], p)) = Stock(s[k], v, StockPartial(s[k], p))
<1>1. CoreSub(s[k], p) \in Handed(s[k]) /\ StockPartial(s[k], p) \in Handed(s[k])
  BY DEF Handed
<1> QED
  BY <1>1, FieldsReadPartial DEF PartialKept

-----------------------------------------------------------------------------
(* The output of the first n fields, one field at a time.                  *)

(* Two live stores have different paths: the later one replaced the other. *)
LEMMA LiveDistinct ==
  ASSUME NEW s \in Schemas, NEW d, NEW p, NEW n \in 0..Len(s),
         NEW j \in Live(s, d, p, n), NEW k \in Live(s, d, p, n),
         s[j].path = s[k].path
  PROVE  j = k
<1>1. j \in 1..Len(s) /\ k \in 1..Len(s) /\ Len(s) \in Nat
  BY SchemasType DEF Live
<1>2. IsPrefix(s[j].path, s[k].path) /\ IsPrefix(s[k].path, s[j].path)
  BY <1>1, SpecTyped, PrefixReflexive
<1>3. ~(j < k) /\ ~(k < j)
  BY <1>1, <1>2 DEF Live
<1> QED
  BY <1>1, <1>3

(* What StockOut holds: the value of each live store at its path. *)
LEMMA StockOutDomain ==
  ASSUME NEW s \in Schemas, NEW d, NEW p, NEW n \in 0..Len(s)
  PROVE  DOMAIN StockOut(s, d, p, n) = {s[k].path : k \in Live(s, d, p, n)}
BY DEF StockOut

(* A live field's leaf holds what that field stored. *)
LEMMA StockOutAt ==
  ASSUME NEW s \in Schemas, NEW d, NEW p, NEW n \in 0..Len(s),
         NEW k \in Live(s, d, p, n)
  PROVE  StockOut(s, d, p, n)[s[k].path] = StockField(s[k], d, p)
<1> DEFINE live == Live(s, d, p, n)
           by(q) == CHOOSE j \in live : s[j].path = q
<1>1. StockOut(s, d, p, n)
        = [q \in {s[j].path : j \in live} |-> StockField(s[by(q)], d, p)]
  BY DEF StockOut
<1>2. by(s[k].path) = k
  <2>1. by(s[k].path) \in live /\ s[by(s[k].path)].path = s[k].path
    OBVIOUS
  <2> HIDE DEF by
  <2> QED
    BY <2>1, LiveDistinct
<1> HIDE DEF by
<1> QED
  BY <1>1, <1>2

(* A field that stores nothing leaves the output alone. *)
LEMMA StockOutSkip ==
  ASSUME NEW s \in Schemas, NEW d, NEW p, NEW n \in 1..Len(s),
         ~Stores(s, d, p, n)
  PROVE  StockOut(s, d, p, n) = StockOut(s, d, p, n - 1)
<1>1. Len(s) \in Nat
  BY SchemasType
<1>2. Live(s, d, p, n) = Live(s, d, p, n - 1)
  BY <1>1 DEF Live
<1> QED
  BY <1>2 DEF StockOut

(* A field that stores replaces what is at its path and below it. *)
LEMMA LiveAfterStore ==
  ASSUME NEW s \in Schemas, NEW d, NEW p, NEW n \in 1..Len(s),
         Stores(s, d, p, n)
  PROVE  Live(s, d, p, n) =
           {k \in Live(s, d, p, n - 1) : ~IsPrefix(s[n].path, s[k].path)} \cup {n}
<1>1. Len(s) \in Nat
  BY SchemasType
<1>2. 1..n = 1..(n - 1) \cup {n} /\ \A k \in 1..n : (k + 1)..n \subseteq 1..n
  BY <1>1
<1>3. \A k \in 1..(n - 1) : (k + 1)..n = (k + 1)..(n - 1) \cup {n}
  BY <1>1
<1>4. (n + 1)..n = {}
  BY <1>1
<1> QED
  BY <1>2, <1>3, <1>4, <1>1 DEF Live

(* A field that stores changes stock's output by one Put. *)
LEMMA StockOutPut ==
  ASSUME NEW s \in Schemas, NEW d, NEW p, NEW n \in 1..Len(s),
         Stores(s, d, p, n)
  PROVE  StockOut(s, d, p, n)
           = Put(StockOut(s, d, p, n - 1), s[n].path, StockField(s[n], d, p))
<1>1. n \in 0..Len(s) /\ n - 1 \in 0..Len(s)
  BY SchemasType
<1>2. DOMAIN StockOut(s, d, p, n) = {s[k].path : k \in Live(s, d, p, n)}
  BY <1>1, StockOutDomain
<1>3. \A k \in Live(s, d, p, n) :
        StockOut(s, d, p, n)[s[k].path] = StockField(s[k], d, p)
  BY <1>1, StockOutAt
<1>4. DOMAIN StockOut(s, d, p, n - 1) = {s[k].path : k \in Live(s, d, p, n - 1)}
  BY <1>1, StockOutDomain
<1>5. \A k \in Live(s, d, p, n - 1) :
        StockOut(s, d, p, n - 1)[s[k].path] = StockField(s[k], d, p)
  BY <1>1, StockOutAt
<1> DEFINE new == StockOut(s, d, p, n)
           old == StockOut(s, d, p, n - 1)
           put == Put(old, s[n].path, StockField(s[n], d, p))
<1>6. Live(s, d, p, n) =
        {k \in Live(s, d, p, n - 1) : ~IsPrefix(s[n].path, s[k].path)} \cup {n}
  BY LiveAfterStore
<1>7. IsPrefix(s[n].path, s[n].path)
  BY SpecTyped, PrefixReflexive
<1>8. DOMAIN put = {r \in DOMAIN old : ~IsPrefix(s[n].path, r)} \cup {s[n].path}
  BY DEF Put
<1>9. DOMAIN new = DOMAIN put
  <2> HIDE DEF put
  <2> QED
    BY <1>2, <1>4, <1>6, <1>8
<1>10. \A k \in Live(s, d, p, n) : new[s[k].path] = put[s[k].path]
  <2> SUFFICES ASSUME NEW k \in Live(s, d, p, n)
               PROVE  new[s[k].path] = put[s[k].path]
    OBVIOUS
  <2>1. CASE k = n
    BY <1>3, <2>1, <1>8 DEF Put
  <2>2. CASE k # n
    <3>1. k \in Live(s, d, p, n - 1) /\ ~IsPrefix(s[n].path, s[k].path)
      BY <1>6, <2>2
    <3>2. s[k].path # s[n].path /\ s[k].path \in DOMAIN put
      BY <3>1, <1>4, <1>7, <1>8
    <3>3. put[s[k].path] = old[s[k].path]
      BY <3>2, <1>8 DEF Put
    <3> QED
      BY <3>1, <3>3, <1>3, <1>5
  <2> QED
    BY <2>1, <2>2
<1>11. \A q \in DOMAIN new : new[q] = put[q]
  BY <1>2, <1>10
<1>12. new = [q \in DOMAIN new |-> new[q]]
  BY DEF StockOut
<1>13. put = [q \in DOMAIN put |-> put[q]]
  BY <1>8 DEF Put
<1> HIDE DEF new, put
<1>14. new = put
  BY <1>9, <1>11, <1>12, <1>13
<1> QED
  BY <1>14 DEF new, put

(* set_load_value defers exactly where stock raises ValueError. *)
LEMMA BlockedIsClash ==
  ASSUME NEW s \in Schemas, NEW d, NEW p, NEW n \in 1..Len(s),
         Stores(s, d, p, n)
  PROVE  Blocked(StockOut(s, d, p, n - 1), s[n].path) <=> Clash(s, d, p, n)
<1>1. n - 1 \in 0..Len(s)
  BY SchemasType
<1>2. DOMAIN StockOut(s, d, p, n - 1) = {s[k].path : k \in Live(s, d, p, n - 1)}
  BY <1>1, StockOutDomain
<1> QED
  BY <1>2 DEF Blocked, Clash

(* A store of a value keeps an output an output. *)
LEMMA PutTyped ==
  ASSUME NEW o, DOMAIN o \subseteq Paths, o \in [DOMAIN o -> Values \cup {None}],
         NEW q \in Paths, NEW v \in Values \cup {None}
  PROVE  /\ DOMAIN Put(o, q, v) \subseteq Paths
         /\ Put(o, q, v) \in [DOMAIN Put(o, q, v) -> Values \cup {None}]
BY DEF Put

-----------------------------------------------------------------------------
(* The unknown keys copied one at a time: copying e[k], where e agrees with *)
(* d on what was copied before.                                            *)
LEMMA CopyOneMore ==
  ASSUME NEW o, DOMAIN o \subseteq Paths, NEW d, NEW e,
         NEW copied \in SUBSET Keys, NEW k \in Keys,
         \A u \in copied \ {k} : e[u] = d[u]
  PROVE  Put(WithUnknown(o, d, copied), <<k>>, e[k])
           = WithUnknown(o, e, copied \cup {k})
<1> DEFINE old == WithUnknown(o, d, copied)
           put == Put(old, <<k>>, e[k])
           new == WithUnknown(o, e, copied \cup {k})
<1>1. /\ \A u \in Keys : <<u>> \in Paths /\ Head(<<u>>) = u
      /\ \A u, w \in Keys : <<u>> = <<w>> => u = w
  BY DEF Paths
<1>2. DOMAIN old = {r \in DOMAIN o : Head(r) \notin copied} \cup {<<u>> : u \in copied}
  BY DEF WithUnknown
<1>3. DOMAIN old \subseteq Paths
  BY <1>1, <1>2
<1>4. DOMAIN put = {r \in DOMAIN old : ~IsPrefix(<<k>>, r)} \cup {<<k>>}
  BY DEF Put
<1>5. \A r \in DOMAIN old : IsPrefix(<<k>>, r) <=> Head(r) = k
  BY <1>3, PrefixOfHead
<1>6. DOMAIN new = {r \in DOMAIN o : Head(r) \notin copied \cup {k}}
                     \cup {<<u>> : u \in copied \cup {k}}
  BY DEF WithUnknown
<1>7. DOMAIN new = DOMAIN put
  <2> HIDE DEF old, put, new
  <2>1. \A r : r \in DOMAIN put <=> \/ r \in DOMAIN old /\ Head(r) # k
                                    \/ r = <<k>>
    BY <1>4, <1>5
  <2>2. \A r : r \in DOMAIN old <=> \/ r \in DOMAIN o /\ Head(r) \notin copied
                                    \/ \E u \in copied : r = <<u>>
    BY <1>2
  <2>3. \A r : r \in DOMAIN new <=>
               \/ r \in DOMAIN o /\ Head(r) \notin copied /\ Head(r) # k
               \/ \E u \in copied : r = <<u>>
               \/ r = <<k>>
    BY <1>6
  <2>4. \A u \in copied : Head(<<u>>) = u
    BY <1>1
  <2>5. \A r : r \in DOMAIN new <=> r \in DOMAIN put
    BY <2>1, <2>2, <2>3, <2>4
  <2> QED
    BY <2>5
<1>8. \A q \in DOMAIN new : new[q] = put[q]
  <2> SUFFICES ASSUME NEW q \in DOMAIN new PROVE new[q] = put[q]
    OBVIOUS
  <2>1. CASE q = <<k>>
    BY <2>1, <1>1, <1>4, <1>6 DEF Put, WithUnknown
  <2>2. CASE q # <<k>>
    <3>1. q \in DOMAIN old /\ put[q] = old[q]
      BY <2>2, <1>4, <1>7 DEF Put
    <3>2. q \in {<<u>> : u \in copied \cup {k}} <=> q \in {<<u>> : u \in copied}
      BY <2>2
    <3>3. old[q] = IF q \in {<<u>> : u \in copied} THEN d[Head(q)] ELSE o[q]
      BY <3>1, <1>2 DEF WithUnknown
    <3>4. new[q] = IF q \in {<<u>> : u \in copied \cup {k}} THEN e[Head(q)] ELSE o[q]
      BY <1>6 DEF WithUnknown
    <3>5. q \in {<<u>> : u \in copied} => Head(q) \in copied \ {k}
      BY <1>1, <2>2
    <3> QED
      BY <3>1, <3>2, <3>3, <3>4, <3>5
  <2> QED
    BY <2>1, <2>2
<1>9. new = [q \in DOMAIN new |-> new[q]]
  BY <1>6 DEF WithUnknown
<1>10. put = [q \in DOMAIN put |-> put[q]]
  BY <1>4 DEF Put
<1> HIDE DEF new, put
<1>11. put = new
  BY <1>7, <1>8, <1>9, <1>10
<1> QED
  BY <1>11 DEF new, put

(* Before the first copy the INCLUDE pass has changed nothing. *)
LEMMA CopyNone ==
  ASSUME NEW s \in Schemas, NEW d, NEW p, NEW n \in 0..Len(s)
  PROVE  WithUnknown(StockOut(s, d, p, n), d, {}) = StockOut(s, d, p, n)
BY DEF WithUnknown, StockOut

-----------------------------------------------------------------------------
(***************************************************************************)
(* run_one: LoadRecord.                                                    *)
(***************************************************************************)
-----------------------------------------------------------------------------
(* Type correctness.                                                       *)

(* set_load_value keeps the types. *)
LEMMA StoreTyped ==
  ASSUME TypeOK, status = "fields", i <= Len(specs),
         NEW v \in Values \cup {None}, SetLoadValue(v)
  PROVE  TypeOK'
<1>1. specs[i].path \in Paths /\ Len(specs) \in Nat /\ i \in Nat
  BY SpecTyped, SchemasType DEF TypeOK
<1>2. CASE Stop("fallback")
  BY <1>2 DEF TypeOK, Stop, call, Statuses
<1>3. CASE out' = Put(out, field.path, v) /\ i' = i + 1 /\ UNCHANGED <<call, extra, status>>
  BY <1>1, <1>3, PutTyped DEF TypeOK, call, field
<1> QED
  BY <1>2, <1>3 DEF SetLoadValue

(* Skipping a field keeps the types. *)
LEMMA SkipTyped ==
  ASSUME TypeOK, i <= Len(specs), Skip
  PROVE  TypeOK'
BY SchemasType DEF TypeOK, Skip, call

(* Moving to another status keeps the types. *)
LEMMA StopTyped ==
  ASSUME TypeOK, NEW s \in Statuses, Stop(s)
  PROVE  TypeOK'
BY DEF TypeOK, Stop, call

(* The variables keep their types in every behaviour. *)
LEMMA TypeStep == TypeOK /\ [Next]_vars => TypeOK'
<1> SUFFICES ASSUME TypeOK, [Next]_vars PROVE TypeOK'
  OBVIOUS
<1> USE DEF Statuses
<1>1. CASE Enter
  BY <1>1, StopTyped DEF Enter
<1>2. CASE PartialSkip
  BY <1>2, SkipTyped DEF PartialSkip
<1>3. CASE NativeRequired
  BY <1>3, StopTyped DEF NativeRequired
<1>4. CASE NativeDefault
  <2>1. i \in 1..Len(specs) /\ status = "fields"
    BY <1>4, SchemasType DEF NativeDefault, AtField, TypeOK
  <2>2. field.default \in Values \cup {None, Missing}
    BY <2>1, SpecTyped DEF TypeOK, field
  <2> QED
    BY <1>4, <2>1, <2>2, SkipTyped, StoreTyped DEF NativeDefault
<1>5. CASE NativeNull
  BY <1>5, StopTyped, StoreTyped DEF NativeNull, AtField
<1>6. CASE NativeConvert
  <2>1. i \in 1..Len(specs) /\ status = "fields" /\ field.native /\ raw \in Values
    BY <1>6, SchemasType DEF NativeConvert, AtField, TypeOK
  <2> DEFINE r == Apply(field, raw, FieldPartial(field, corePartial))
  <2>2. r \in Values \cup {None, Fail, Interrupt}
    BY <2>1, ElementsSound DEF ElementContract, TypeOK, field, corePartial
  <2>3. r \notin Outcomes => r \in Values \cup {None}
    BY <2>2 DEF Outcomes
  <2> HIDE DEF r
  <2>4. \/ Stop("fallback") \/ Stop("interrupted")
        \/ r \notin Outcomes /\ SetLoadValue(r)
    BY <1>6 DEF NativeConvert, r
  <2> QED
    BY <2>1, <2>3, <2>4, StopTyped, StoreTyped
<1>7. CASE CallbackField
  <2>1. i \in 1..Len(specs) /\ status = "fields"
    BY <1>7, SchemasType DEF CallbackField, AtField, TypeOK
  <2> DEFINE r == Deserialize(field, raw, CoreSub(field, partial))
  <2>2. r \in Values \cup {None} \cup Outcomes
    <3>1. raw \in Values \cup {None, Missing}
      BY <2>1, RawTyped, InputsType DEF TypeOK, raw, field
    <3>2. field.default \in Values \cup {None, Missing}
      BY <2>1, SpecTyped DEF TypeOK, field
    <3>3. raw \in Values =>
            Stock(field, raw, CoreSub(field, partial)) \in Values \cup {None, Fail, Interrupt}
      BY <2>1, FieldsTyped DEF TypeOK, field, Handed
    <3> QED
      BY <3>1, <3>2, <3>3, Sentinels DEF Deserialize, Outcomes
  <2> HIDE DEF r
  <2>3. \/ Stop("fallback") \/ Stop("interrupted") \/ Skip
        \/ r \notin Outcomes /\ SetLoadValue(r)
    BY <1>7 DEF CallbackField, r
  <2> QED
    BY <2>1, <2>2, <2>3, StopTyped, SkipTyped, StoreTyped
<1>8. CASE UnknownPass
  <2>1. CASE Stop("fallback") \/ Stop("done")
    BY <2>1, StopTyped
  <2>2. CASE status' = "include" /\ extra' = UnknownKeys(specs, data)
             /\ UNCHANGED <<call, i, out>>
    BY <2>2 DEF TypeOK, call
  <2> QED
    BY <1>8, <2>1, <2>2 DEF UnknownPass
<1>9. CASE CopyUnknown
  <2>1. PICK k \in extra : out' = Put(out, <<k>>, data[k]) /\ extra' = extra \ {k}
    BY <1>9 DEF CopyUnknown
  <2>2. k \in DOMAIN data /\ k \in Keys /\ data[k] \in Values \cup {None}
    BY <2>1, InputsType DEF TypeOK, UnknownKeys, IsRecord
  <2>3. <<k>> \in Paths
    BY <2>2 DEF Paths
  <2> QED
    BY <1>9, <2>1, <2>2, <2>3, PutTyped DEF CopyUnknown, TypeOK, call
<1>10. CASE FinishInclude
  BY <1>10, StopTyped DEF FinishInclude
<1>11. CASE UNCHANGED vars
  BY <1>11 DEF TypeOK, vars
<1> QED
  BY <1>1, <1>2, <1>3, <1>4, <1>5, <1>6, <1>7, <1>8, <1>9, <1>10, <1>11 DEF Next

(* The record loop keeps every variable in its type: whatever the schema,  *)
(* the input and the partial argument, out holds only values.              *)
THEOREM TypeCorrect == Spec => []TypeOK
<1>1. Init => TypeOK
  BY SchemasType DEF Init, TypeOK, Statuses
<1> QED
  BY <1>1, TypeStep, PTL DEF Spec

-----------------------------------------------------------------------------
(* The inductive invariant.  Each arm of the loop is one of four steps.    *)

(* A field that stock accepts without a clash extends the accepted prefix. *)
LEMMA AcceptedExtends ==
  ASSUME TypeOK, Accepted(data, i - 1), i \in 1..Len(specs),
         StockField(field, data, partial) \notin {Fail, Interrupt},
         ~Clash(specs, data, partial, i)
  PROVE  Accepted(data, i)
<1>1. Len(specs) \in Nat
  BY SchemasType DEF TypeOK
<1> QED
  BY <1>1 DEF Accepted, field

(* Skipping a field that stock leaves out keeps the invariant. *)
LEMMA SkipKeeps ==
  ASSUME IInv, status = "fields", i <= Len(specs), Skip,
         StockField(field, data, partial) = Missing
  PROVE  IInv'
<1>1. i \in 1..Len(specs) /\ Len(specs) \in Nat /\ (i + 1) - 1 = i
  BY SchemasType DEF IInv, TypeOK
<1>2. ~Stores(specs, data, partial, i)
  BY DEF Stores, Outcomes, field
<1>3. StockOut(specs, data, partial, i) = StockOut(specs, data, partial, i - 1)
  BY <1>1, <1>2, StockOutSkip DEF IInv, TypeOK
<1>4. ~Clash(specs, data, partial, i)
  BY <1>2 DEF Clash
<1>5. Accepted(data, i)
  BY <1>1, <1>4, AcceptedExtends, Sentinels DEF IInv
<1>6. TypeOK' /\ i' - 1 = i /\ i' = i + 1
  BY <1>1, SkipTyped DEF IInv, Skip
<1>7. Accepted(data, i - 1)'
  BY <1>6, <1>5 DEF Accepted, Skip, call
<1>8. out' = StockOut(specs, data, partial, i)
  BY <1>3 DEF IInv, Skip
<1> QED
  BY <1>1, <1>6, <1>7, <1>8 DEF IInv, Skip, call, FallbackJustified

(* Storing what stock stores keeps the invariant. *)
LEMMA StoreKeeps ==
  ASSUME IInv, status = "fields", i <= Len(specs),
         StockField(field, data, partial) \notin Outcomes,
         SetLoadValue(StockField(field, data, partial))
  PROVE  IInv'
<1> DEFINE v == StockField(field, data, partial)
<1>1. i \in 1..Len(specs) /\ Len(specs) \in Nat /\ (i + 1) - 1 = i
  BY SchemasType DEF IInv, TypeOK
<1>2. Stores(specs, data, partial, i)
  BY DEF Stores, field
<1>3. Blocked(out, field.path) <=> Clash(specs, data, partial, i)
  BY <1>1, <1>2, BlockedIsClash DEF IInv, TypeOK, field
<1>4. TypeOK'
  <2>1. v \in Values \cup {None}
    BY <1>1, StockFieldTyped, InputsType DEF IInv, TypeOK, field
  <2> QED
    BY <2>1, StoreTyped DEF IInv
<1>5. CASE Blocked(out, field.path) /\ Stop("fallback")
  <2>1. StockErrs(specs, data, partial, i)
    BY <1>1, <1>3, <1>5 DEF StockErrs
  <2>2. Accepted(data, i - 1)' /\ FallbackJustified'
    BY <1>5, <2>1 DEF IInv, Accepted, FallbackJustified, Stop, call
  <2> QED
    BY <1>4, <1>5, <2>2 DEF IInv, Stop
<1>6. CASE /\ ~Blocked(out, field.path)
           /\ out' = Put(out, field.path, v)
           /\ i' = i + 1
           /\ UNCHANGED <<call, extra, status>>
  <2>1. out' = StockOut(specs, data, partial, i)
    <3>1. StockOut(specs, data, partial, i)
            = Put(StockOut(specs, data, partial, i - 1), specs[i].path,
                  StockField(specs[i], data, partial))
      BY <1>1, <1>2, StockOutPut DEF IInv, TypeOK
    <3> QED
      BY <1>6, <3>1 DEF IInv, field
  <2>2. Accepted(data, i)
    BY <1>1, <1>3, <1>6, AcceptedExtends DEF IInv, Outcomes
  <2>3. Accepted(data, i - 1)'
    BY <1>1, <1>6, <2>2 DEF Accepted, call
  <2> QED
    BY <1>1, <1>4, <1>6, <2>1, <2>3 DEF IInv, call, FallbackJustified
<1> QED
  BY <1>5, <1>6 DEF SetLoadValue

(* Deferring at a field, for one of the reasons of FallbackJustified. *)
LEMMA DeferKeeps ==
  ASSUME IInv, Stop("fallback"),
         \/ ~isDict
         \/ StockErrs(specs, data, partial, i)
         \/ /\ i <= Len(specs) /\ field.native /\ raw \in Values
            /\ LET r == Apply(field, raw, FieldPartial(field, corePartial))
               IN  r = Fail \/ (r \notin Outcomes /\ Check(field, r) = "fail")
         \/ i = Len(specs) + 1 /\ RaisesUnknown(specs, data, unknown)
  PROVE  IInv'
<1>1. TypeOK'
  BY StopTyped DEF IInv, Statuses
<1>2. Accepted(data, i - 1)' /\ FallbackJustified'
  BY DEF IInv, Accepted, FallbackJustified, Stop, call, field, raw, corePartial
<1> QED
  BY <1>1, <1>2 DEF IInv, Stop

(* An interrupt where stock is interrupted keeps the invariant. *)
LEMMA InterruptKeeps ==
  ASSUME IInv, Stop("interrupted"), i <= Len(specs),
         StockField(field, data, partial) = Interrupt
  PROVE  IInv'
<1>1. TypeOK'
  BY StopTyped DEF IInv, Statuses
<1>2. Accepted(data, i - 1)' /\ i' <= Len(specs') /\ StockField(field, data, partial)' = Interrupt
  BY DEF IInv, Accepted, Stop, call, field
<1> QED
  BY <1>1, <1>2 DEF IInv, Stop, FallbackJustified

(* In an arm of the loop, what stock does with the field. *)
LEMMA NativeOutcome ==
  ASSUME TypeOK, partialsKept, i \in 1..Len(specs), field.native, raw \in Values
  PROVE  /\ StockField(field, data, partial) = Stock(field, raw, CoreSub(field, partial))
         /\ ElementContract(field, raw, partial)
<1>1. raw # Missing /\ raw # None
  BY Sentinels DEF Outcomes
<1>2. Stock(field, raw, CoreSub(field, partial)) = Stock(field, raw, StockPartial(field, partial))
  BY KeptAlike DEF TypeOK, field, partialsKept
<1> QED
  BY <1>1, <1>2, ElementsSound DEF TypeOK, field, raw, StockField, Deserialize

(* In the arm of a callback field, what its deserialize does. *)
LEMMA CallbackOutcome ==
  ASSUME TypeOK, partialsKept, i \in 1..Len(specs),
         ~(raw = Missing /\ AllowsMissing(corePartial, field.attr))
  PROVE  StockField(field, data, partial) = Deserialize(field, raw, CoreSub(field, partial))
<1>1. raw \in Values \cup {None, Missing}
  BY RawTyped, InputsType DEF TypeOK, raw, field
<1>2. raw \in Values =>
        Stock(field, raw, CoreSub(field, partial)) = Stock(field, raw, StockPartial(field, partial))
  BY KeptAlike DEF TypeOK, field, partialsKept
<1>3. ~(raw = Missing /\ AllowsMissing(partial, field.attr))
  BY AllowsAlike DEF corePartial
<1>4. StockField(field, data, partial) = Deserialize(field, raw, StockPartial(field, partial))
  BY <1>3 DEF StockField, raw
<1> QED
  BY <1>1, <1>2, <1>4 DEF Deserialize

(* Every step keeps the invariant: one case per action of Next. *)
LEMMA IInvStep == IInv /\ partialsKept /\ [Next]_vars => IInv'
<1> SUFFICES ASSUME IInv, partialsKept, [Next]_vars PROVE IInv'
  OBVIOUS
<1>a. AllowsMissing(corePartial, field.attr) <=> AllowsMissing(partial, field.attr)
  BY AllowsAlike DEF corePartial
<1>0. TypeOK /\ TypeOK' /\ Len(specs) \in Nat /\ i \in Nat /\ i \in 1..(Len(specs) + 1)
  BY TypeStep, SchemasType DEF IInv, TypeOK
<1>1. CASE Enter
  <2>1. CASE isDict
    BY <1>0, <1>1, <2>1 DEF Enter, IInv, Stop, call, Accepted, FallbackJustified
  <2>2. CASE ~isDict
    BY <1>1, <2>2, DeferKeeps DEF Enter
  <2> QED
    BY <2>1, <2>2
<1>2. CASE PartialSkip
  <2>1. StockField(field, data, partial) = Missing
    BY <1>a, <1>2 DEF PartialSkip, StockField, raw
  <2> QED
    BY <1>2, <2>1, SkipKeeps DEF PartialSkip
<1>3. CASE NativeRequired
  <2>1. i \in 1..Len(specs)
    BY <1>0, <1>3 DEF NativeRequired, AtField
  <2>2. StockField(field, data, partial) = Fail
    BY <1>a, <1>3, Sentinels DEF NativeRequired, StockField, Deserialize, raw, Outcomes
  <2>3. StockErrs(specs, data, partial, i)
    BY <2>1, <2>2 DEF StockErrs, field
  <2> QED
    BY <1>3, <2>3, DeferKeeps DEF NativeRequired
<1>4. CASE NativeDefault
  <2>1. status = "fields" /\ i <= Len(specs) /\ i \in 1..Len(specs)
    BY <1>0, <1>4 DEF NativeDefault, AtField
  <2>2. StockField(field, data, partial) = field.default
    BY <1>a, <1>4, Sentinels DEF NativeDefault, StockField, Deserialize, raw, Outcomes
  <2>3. field.default \in Values \cup {None, Missing}
    BY <1>0, <2>1, SpecTyped DEF TypeOK, field
  <2>4. field.default # Missing => field.default \notin Outcomes
    BY <2>3, Sentinels DEF Outcomes
  <2> QED
    BY <1>4, <2>1, <2>2, <2>4, SkipKeeps, StoreKeeps DEF NativeDefault
<1>5. CASE NativeNull
  <2>1. status = "fields" /\ i <= Len(specs) /\ i \in 1..Len(specs)
    BY <1>0, <1>5 DEF NativeNull, AtField
  <2>2. raw = None /\ None # Missing /\ None \notin Outcomes
    BY <1>5, Sentinels DEF NativeNull, Outcomes
  <2>3. StockField(field, data, partial) = IF field.allowNone THEN None ELSE Fail
    BY <2>2 DEF StockField, Deserialize, raw
  <2>4. CASE field.allowNone /\ SetLoadValue(None)
    BY <2>1, <2>2, <2>3, <2>4, StoreKeeps
  <2>5. CASE ~field.allowNone /\ Stop("fallback")
    <3>1. StockErrs(specs, data, partial, i)
      BY <2>1, <2>3, <2>5 DEF StockErrs, field
    <3> QED
      BY <2>5, <3>1, DeferKeeps
  <2> QED
    BY <1>5, <2>4, <2>5 DEF NativeNull
<1>6. CASE NativeConvert
  <2>1. /\ status = "fields" /\ i <= Len(specs) /\ i \in 1..Len(specs)
        /\ field.native /\ raw \in Values
    BY <1>0, <1>6 DEF NativeConvert, AtField
  <2> DEFINE r == Apply(field, raw, FieldPartial(field, corePartial))
             s == StockField(field, data, partial)
  <2>2. /\ r = Interrupt => s = Interrupt
        /\ r \notin Outcomes /\ Check(field, r) = "pass" => s = r
        /\ r \notin Outcomes /\ Check(field, r) = "interrupt" => s = Interrupt
    BY <1>0, <2>1, NativeOutcome DEF ElementContract, corePartial
  <2>3. \/ r = Fail /\ Stop("fallback")
        \/ r = Interrupt /\ Stop("interrupted")
        \/ r \notin Outcomes /\ Check(field, r) = "pass" /\ SetLoadValue(r)
        \/ r \notin Outcomes /\ Check(field, r) = "fail" /\ Stop("fallback")
        \/ r \notin Outcomes /\ Check(field, r) = "interrupt" /\ Stop("interrupted")
    BY <1>6 DEF NativeConvert
  <2>4. CASE Stop("fallback") /\ (r = Fail \/ (r \notin Outcomes /\ Check(field, r) = "fail"))
    BY <2>1, <2>4, DeferKeeps
  <2>5. CASE Stop("interrupted") /\ s = Interrupt
    BY <2>1, <2>5, InterruptKeeps
  <2>6. CASE r \notin Outcomes /\ s = r /\ SetLoadValue(r)
    BY <2>1, <2>6, StoreKeeps
  <2> HIDE DEF r, s
  <2> QED
    BY <2>2, <2>3, <2>4, <2>5, <2>6
<1>7. CASE CallbackField
  <2>1. status = "fields" /\ i <= Len(specs) /\ i \in 1..Len(specs)
    BY <1>0, <1>7 DEF CallbackField, AtField
  <2> DEFINE s == StockField(field, data, partial)
  <2>2. s = Deserialize(field, raw, CoreSub(field, partial))
    BY <1>0, <1>7, <2>1, CallbackOutcome DEF CallbackField
  <2>3. CASE s = Fail /\ Stop("fallback")
    <3>1. StockErrs(specs, data, partial, i)
      BY <2>1, <2>3 DEF StockErrs, field
    <3> QED
      BY <2>3, <3>1, DeferKeeps
  <2>4. CASE s = Interrupt /\ Stop("interrupted")
    BY <2>1, <2>4, InterruptKeeps
  <2>5. CASE s = Missing /\ Skip
    BY <2>1, <2>5, SkipKeeps
  <2>6. CASE s \notin Outcomes /\ SetLoadValue(s)
    BY <2>1, <2>6, StoreKeeps
  <2> QED
    BY <1>7, <2>2, <2>3, <2>4, <2>5, <2>6 DEF CallbackField
<1>8. CASE UnknownPass
  <2>1. /\ status = "fields" /\ i = Len(specs) + 1 /\ i - 1 = Len(specs)
        /\ out = StockOut(specs, data, partial, Len(specs))
    BY <1>0, <1>8 DEF UnknownPass, IInv
  <2>2. CASE unknown = "raise" /\ UnknownKeys(specs, data) # {} /\ Stop("fallback")
    BY <2>1, <2>2, DeferKeeps DEF RaisesUnknown
  <2>3. CASE /\ Stop("done") /\ unknown # "include"
             /\ unknown = "raise" => UnknownKeys(specs, data) = {}
    <3>1. out = StockResult(specs, data, partial, unknown)
      BY <2>1, <2>3 DEF StockResult
    <3> QED
      BY <1>0, <2>1, <2>3, <3>1 DEF IInv, Accepted, Stop, call, FallbackJustified
  <2>4. CASE /\ unknown = "include"
             /\ status' = "include" /\ extra' = UnknownKeys(specs, data)
             /\ UNCHANGED <<call, i, out>>
    <3>1. UnknownKeys(specs, data) \ UnknownKeys(specs, data) = {}
      OBVIOUS
    <3>2. out = WithUnknown(StockOut(specs, data, partial, Len(specs)), data, {})
      BY <1>0, <2>1, CopyNone DEF TypeOK
    <3> QED
      BY <1>0, <2>1, <2>4, <3>1, <3>2 DEF IInv, Accepted, call, FallbackJustified
  <2> QED
    BY <1>8, <2>2, <2>3, <2>4 DEF UnknownPass
<1>9. CASE CopyUnknown
  <2> DEFINE rest == UnknownKeys(specs, data)
             base == StockOut(specs, data, partial, Len(specs))
  <2>1. PICK k \in extra : out' = Put(out, <<k>>, data[k]) /\ extra' = extra \ {k}
    BY <1>9 DEF CopyUnknown
  <2>2. /\ status = "include" /\ UNCHANGED <<call, i, status>>
        /\ i = Len(specs) + 1 /\ unknown = "include"
        /\ out = WithUnknown(base, data, rest \ extra)
    BY <1>9 DEF CopyUnknown, IInv
  <2>3. DOMAIN base \subseteq Paths
    <3>1. DOMAIN base = {specs[j].path : j \in Live(specs, data, partial, Len(specs))}
      BY DEF StockOut
    <3> QED
      BY <1>0, <3>1, SpecTyped DEF Live, TypeOK
  <2>4. k \in Keys /\ rest \subseteq Keys /\ k \in rest
    BY <1>0, <2>1, InputsType DEF TypeOK, UnknownKeys, IsRecord
  <2>5. Put(out, <<k>>, data[k]) = WithUnknown(base, data, (rest \ extra) \cup {k})
    BY <1>0, <2>2, <2>3, <2>4, CopyOneMore DEF TypeOK
  <2>6. (rest \ extra) \cup {k} = rest \ extra'
    BY <2>1, <2>4
  <2>7. out' = WithUnknown(base, data, rest \ extra')
    BY <2>1, <2>5, <2>6
  <2> QED
    BY <1>0, <2>2, <2>7 DEF IInv, Accepted, call, FallbackJustified
<1>10. CASE FinishInclude
  <2>1. /\ status = "include" /\ Stop("done") /\ i = Len(specs) + 1
        /\ unknown = "include"
        /\ out = WithUnknown(StockOut(specs, data, partial, Len(specs)), data,
                             UnknownKeys(specs, data))
    BY <1>10 DEF FinishInclude, IInv
  <2> QED
    BY <1>0, <2>1 DEF IInv, Accepted, Stop, call, FallbackJustified, StockResult
<1>11. CASE UNCHANGED vars
  BY <1>0, <1>11 DEF IInv, Accepted, FallbackJustified, vars, field, raw, corePartial
<1> QED
  BY <1>1, <1>2, <1>3, <1>4, <1>5, <1>6, <1>7, <1>8, <1>9, <1>10, <1>11 DEF Next

(* No step changes the schema or the partial. *)
LEMMA KeptStays == [Next]_vars => specs' = specs /\ partial' = partial
BY DEF Next, vars, call, Enter, PartialSkip, NativeRequired, NativeDefault, NativeNull,
       NativeConvert, CallbackField, UnknownPass, CopyUnknown, FinishInclude,
       Stop, Skip, SetLoadValue

(* IInv is an invariant of the records with partialsKept: at every point   *)
(* of the loop the output is stock's output after the same fields.         *)
LEMMA IInvariant == Spec => [](partialsKept => IInv)
<1>1. Init => IInv
  <2> SUFFICES ASSUME Init PROVE IInv
    OBVIOUS
  <2>1. TypeOK
    BY SchemasType DEF Init, TypeOK, Statuses
  <2>2. Accepted(data, 0) /\ out = StockOut(specs, data, partial, 0)
    BY DEF Init, Accepted, StockOut, Live
  <2> QED
    BY <2>1, <2>2 DEF Init, IInv, FallbackJustified
<1>2. (partialsKept => IInv) /\ [Next]_vars => (partialsKept => IInv)'
  <2>1. [Next]_vars => (partialsKept' <=> partialsKept)
    BY KeptStays DEF partialsKept
  <2> QED
    BY <2>1, IInvStep
<1> QED
  BY <1>1, <1>2, PTL DEF Spec

-----------------------------------------------------------------------------
(* A record the accelerated loop completes is accepted by stock with the   *)
(* same output, for every schema level, input, unknown and partial that    *)
(* the core hands on as stock does (partialsKept): stock's goes by the     *)
(* data key and keeps False, the core's goes by the name and drops it.     *)
THEOREM LoopMatchesStock == Spec => []DoneMatchesStock
<1>1. (partialsKept => IInv) => DoneMatchesStock
  <2> SUFFICES ASSUME IInv, status = "done"
               PROVE  /\ ~StockRaises(specs, data, partial, unknown)
                      /\ out = StockResult(specs, data, partial, unknown)
    BY DEF DoneMatchesStock, Matches
  <2>1. Len(specs) \in Nat /\ i - 1 = Len(specs)
    BY SchemasType DEF IInv, TypeOK
  <2> QED
    BY <2>1 DEF IInv, Accepted, StockRaises, RaisesUnknown
<1> QED
  BY <1>1, IInvariant, PTL

(* The loop lets an interrupt through only where stock would raise it.     *)
THEOREM InterruptsMatchStock == Spec => []InterruptMatchesStock
<1>1. (partialsKept => IInv) => InterruptMatchesStock
  BY DEF IInv, Accepted, InterruptMatchesStock
<1> QED
  BY <1>1, IInvariant, PTL

(* The loop defers only for a reason that FallbackJustified names.         *)
THEOREM FallbacksAreJustified == Spec => []FallbackJustified
<1>1. (partialsKept => IInv) => FallbackJustified
  BY DEF IInv, FallbackJustified
<1> QED
  BY <1>1, IInvariant, PTL

-----------------------------------------------------------------------------
(***************************************************************************)
(* run_one_json: JsonRecord.                                               *)
(***************************************************************************)
-----------------------------------------------------------------------------
(* What json.loads makes of the first members.                             *)

IsLast(m, n, key, j) ==
  /\ j \in 1..n /\ m[j].key = key
  /\ \A l \in (j + 1)..n : m[l].key # key

(* A repeated key has one last occurrence. *)
LEMMA LastUnique ==
  ASSUME NEW m, NEW n \in Nat, NEW key, NEW j, NEW k,
         IsLast(m, n, key, j), IsLast(m, n, key, k)
  PROVE  j = k
<1>1. j \in Nat /\ k \in Nat /\ ~(j < k) /\ ~(k < j)
  BY DEF IsLast
<1> QED
  BY <1>1

(* LastOf finds the last position of a key. *)
LEMMA LastOfIs ==
  ASSUME NEW m, NEW n \in Nat, NEW key, NEW j, IsLast(m, n, key, j)
  PROVE  LastOf(m, n, key) = j
<1>1. IsLast(m, n, key, LastOf(m, n, key))
  BY DEF IsLast, LastOf
<1> QED
  BY <1>1, LastUnique

(* Among members with last positions, LastOf of a present key is one. *)
LEMMA LastExists ==
  ASSUME NEW m, NEW n \in Nat, HasLast(m, n), NEW j \in 1..n
  PROVE  IsLast(m, n, m[j].key, LastOf(m, n, m[j].key))
<1>1. \E k \in 1..n : IsLast(m, n, m[j].key, k)
  BY DEF HasLast, IsLast
<1> QED
  BY <1>1, LastOfIs

(* The keys of json.loads are those of the members read. *)
LEMMA JsonLoadsDomain ==
  ASSUME NEW m, NEW n
  PROVE  DOMAIN JsonLoads(m, n) = {m[j].key : j \in 1..n}
BY DEF JsonLoads

(* The value under a key is the one of its last occurrence. *)
LEMMA JsonLoadsAt ==
  ASSUME NEW m, NEW n \in Nat, NEW key, NEW j, IsLast(m, n, key, j)
  PROVE  JsonLoads(m, n)[key] = m[j].value
<1>1. LastOf(m, n, key) = j
  BY LastOfIs
<1>2. key \in {m[l].key : l \in 1..n}
  BY DEF IsLast
<1> QED
  BY <1>1, <1>2 DEF JsonLoads

(* One more member: it is the last of its key, the others stay. *)
LEMMA HasLastNext ==
  ASSUME NEW m, NEW n \in Nat, HasLast(m, n)
  PROVE  HasLast(m, n + 1)
<1> SUFFICES ASSUME NEW j \in 1..(n + 1)
             PROVE  \E k \in 1..(n + 1) : IsLast(m, n + 1, m[j].key, k)
  BY DEF HasLast, IsLast
<1>1. CASE m[j].key = m[n + 1].key
  <2>1. IsLast(m, n + 1, m[j].key, n + 1)
    BY <1>1 DEF IsLast
  <2> QED
    BY <2>1
<1>2. CASE m[j].key # m[n + 1].key
  <2>1. j \in 1..n
    BY <1>2
  <2>2. PICK k \in 1..n : IsLast(m, n, m[j].key, k)
    BY <2>1 DEF HasLast, IsLast
  <2>3. IsLast(m, n + 1, m[j].key, k)
    BY <1>2, <2>2 DEF IsLast
  <2> QED
    BY <2>3
<1> QED
  BY <1>1, <1>2

(* One more member: json.loads overrides its key and keeps the others. *)
LEMMA JsonLoadsNext ==
  ASSUME NEW m, NEW n \in Nat, HasLast(m, n)
  PROVE  LET old == JsonLoads(m, n)
             new == JsonLoads(m, n + 1)
             key == m[n + 1].key
         IN  /\ DOMAIN new = DOMAIN old \cup {key}
             /\ new[key] = m[n + 1].value
             /\ \A u \in DOMAIN old \ {key} : new[u] = old[u]
<1> DEFINE old == JsonLoads(m, n)
           new == JsonLoads(m, n + 1)
           key == m[n + 1].key
<1>0. /\ DOMAIN new = {m[j].key : j \in 1..(n + 1)}
      /\ DOMAIN old = {m[j].key : j \in 1..n}
  BY JsonLoadsDomain
<1> HIDE DEF old, new
<1>1. DOMAIN new = DOMAIN old \cup {key}
  <2>1. 1..(n + 1) = 1..n \cup {n + 1}
    OBVIOUS
  <2> QED
    BY <1>0, <2>1
<1>2. new[key] = m[n + 1].value
  <2>1. IsLast(m, n + 1, key, n + 1)
    BY DEF IsLast
  <2> QED
    BY <2>1, JsonLoadsAt DEF new
<1>3. ASSUME NEW u \in DOMAIN old \ {key} PROVE new[u] = old[u]
  <2>1. PICK j \in 1..n : m[j].key = u
    BY <1>0, <1>3
  <2>2. PICK k \in 1..n : IsLast(m, n, u, k)
    BY <2>1 DEF HasLast, IsLast
  <2>3. IsLast(m, n + 1, u, k)
    BY <1>3, <2>2 DEF IsLast
  <2>4. new[u] = m[k].value /\ old[u] = m[k].value
    BY <2>2, <2>3, JsonLoadsAt DEF new, old
  <2> QED
    BY <2>4
<1> QED
  BY <1>1, <1>2, <1>3 DEF new, old

(* Members behind the first n do not matter. *)
LEMMA JsonLoadsPrefix ==
  ASSUME NEW m, NEW w, NEW n \in Nat, \A j \in 1..n : w[j] = m[j], HasLast(m, n)
  PROVE  HasLast(w, n) /\ JsonLoads(w, n) = JsonLoads(m, n)
<1>1. \A key, j : IsLast(m, n, key, j) <=> IsLast(w, n, key, j)
  BY DEF IsLast
<1>2. HasLast(w, n)
  <2> SUFFICES ASSUME NEW j \in 1..n PROVE \E k \in 1..n : IsLast(w, n, w[j].key, k)
    BY DEF HasLast, IsLast
  <2>1. PICK k \in 1..n : IsLast(m, n, m[j].key, k)
    BY DEF HasLast, IsLast
  <2> QED
    BY <1>1, <2>1
<1>0. /\ DOMAIN JsonLoads(w, n) = {w[j].key : j \in 1..n}
      /\ DOMAIN JsonLoads(m, n) = {m[j].key : j \in 1..n}
  BY JsonLoadsDomain
<1>3. DOMAIN JsonLoads(w, n) = DOMAIN JsonLoads(m, n)
  BY <1>0
<1>4. \A key \in DOMAIN JsonLoads(m, n) : JsonLoads(w, n)[key] = JsonLoads(m, n)[key]
  <2> SUFFICES ASSUME NEW j \in 1..n
               PROVE  JsonLoads(w, n)[m[j].key] = JsonLoads(m, n)[m[j].key]
    BY <1>0
  <2>1. PICK k \in 1..n : IsLast(m, n, m[j].key, k)
    BY DEF HasLast, IsLast
  <2>2. IsLast(w, n, m[j].key, k)
    BY <1>1, <2>1
  <2> QED
    BY <2>1, <2>2, JsonLoadsAt
<1>5. /\ JsonLoads(w, n) = [key \in DOMAIN JsonLoads(w, n) |-> JsonLoads(w, n)[key]]
      /\ JsonLoads(m, n) = [key \in DOMAIN JsonLoads(m, n) |-> JsonLoads(m, n)[key]]
  BY DEF JsonLoads
<1>6. JsonLoads(w, n) = JsonLoads(m, n)
  BY <1>3, <1>4, <1>5
<1> QED
  BY <1>2, <1>6

(* What json.loads makes of well-typed members is a record. *)
LEMMA JsonLoadsTyped ==
  ASSUME NEW m \in Seq(Member), NEW n \in 0..Len(m), HasLast(m, n)
  PROVE  IsRecord(JsonLoads(m, n))
<1>1. \A j \in 1..n : m[j] \in Member
  OBVIOUS
<1>2. DOMAIN JsonLoads(m, n) = {m[j].key : j \in 1..n}
  BY JsonLoadsDomain
<1>3. \A key \in DOMAIN JsonLoads(m, n) : JsonLoads(m, n)[key] \in Values \cup {None}
  <2> SUFFICES ASSUME NEW j \in 1..n
               PROVE  JsonLoads(m, n)[m[j].key] \in Values \cup {None}
    BY <1>2
  <2>1. IsLast(m, n, m[j].key, LastOf(m, n, m[j].key))
    BY LastExists
  <2>2. JsonLoads(m, n)[m[j].key] = m[LastOf(m, n, m[j].key)].value
    BY <2>1, JsonLoadsAt
  <2> QED
    BY <1>1, <2>1, <2>2 DEF IsLast, Member
<1>4. DOMAIN JsonLoads(m, n) \subseteq Keys
  BY <1>1, <1>2 DEF Member
<1>5. JsonLoads(m, n) = [key \in DOMAIN JsonLoads(m, n) |-> JsonLoads(m, n)[key]]
  BY DEF JsonLoads
<1> QED
  BY <1>3, <1>4, <1>5 DEF IsRecord

-----------------------------------------------------------------------------
(* Type correctness.                                                       *)

(* set_load_value keeps the types. *)
LEMMA JsonStoreTyped ==
  ASSUME JsonTypeOK, i <= Len(specs), NEW v \in Values \cup {None}, JsonSetLoadValue(v)
  PROVE  JsonTypeOK'
<1>1. specs[i].path \in Paths /\ Len(specs) \in Nat /\ i \in Nat
  BY SpecTyped, SchemasType DEF JsonTypeOK
<1>2. CASE JsonStop("fallback")
  BY <1>2 DEF JsonTypeOK, JsonStop, jsonCall, buckets, JsonStatuses
<1>3. CASE /\ out' = Put(out, field.path, v) /\ i' = i + 1
           /\ UNCHANGED <<jsonCall, buckets, status>>
  BY <1>1, <1>3, PutTyped DEF JsonTypeOK, jsonCall, buckets, field
<1> QED
  BY <1>2, <1>3 DEF JsonSetLoadValue

(* Skipping a field keeps the types. *)
LEMMA JsonSkipTyped ==
  ASSUME JsonTypeOK, i <= Len(specs), JsonSkip
  PROVE  JsonTypeOK'
BY SchemasType DEF JsonTypeOK, JsonSkip, jsonCall, buckets

(* Moving to another status keeps the types. *)
LEMMA JsonStopTyped ==
  ASSUME JsonTypeOK, NEW s \in JsonStatuses, JsonStop(s)
  PROVE  JsonTypeOK'
BY DEF JsonTypeOK, JsonStop, jsonCall, buckets

(* The member a pass is at. *)
LEMMA MemberTyped ==
  ASSUME NEW m \in Seq(Member), NEW n \in Nat \ {0}, n <= Len(m)
  PROVE  m[n].key \in Keys /\ m[n].value \in Values \cup {None}
<1>1. m[n] \in Member
  OBVIOUS
<1> QED
  BY <1>1 DEF Member

(* The object is a finite sequence of members. *)
LEMMA ObjTyped == JsonTypeOK => obj \in Seq(Member) /\ Len(obj) \in Nat
BY ObjectsType DEF JsonTypeOK

(* A native field with a value. *)
LEMMA ConvertTyped ==
  ASSUME JsonTypeOK, JsonNativeConvert
  PROVE  JsonTypeOK'
<1>1. i \in 1..Len(specs) /\ i <= Len(specs) /\ field.native /\ slots[i] \in Values
  BY SchemasType DEF JsonNativeConvert, AtNative, JsonTypeOK
<1> DEFINE r == Apply(field, slots[i], FieldPartial(field, corePartial))
<1>2. r \in Values \cup {None, Fail, Interrupt}
  BY <1>1, ElementsSound DEF ElementContract, JsonTypeOK, field, corePartial
<1>3. r \notin Outcomes => r \in Values \cup {None}
  BY <1>2 DEF Outcomes
<1>4. \/ JsonStop("fallback") \/ JsonStop("interrupted")
      \/ r \notin Outcomes /\ JsonSetLoadValue(r)
  BY DEF JsonNativeConvert
<1> HIDE DEF r
<1> QED
  BY <1>1, <1>3, <1>4, JsonStopTyped, JsonStoreTyped DEF JsonStatuses

(* Every step keeps the types: one case per action of Next. *)
LEMMA JsonTypeStep == JsonTypeOK /\ [JsonNext]_jsonVars => JsonTypeOK'
<1> SUFFICES ASSUME JsonTypeOK, [JsonNext]_jsonVars PROVE JsonTypeOK'
  OBVIOUS
<1> USE DEF JsonStatuses
<1>0. obj \in Seq(Member) /\ Len(obj) \in Nat /\ at \in Nat \ {0}
  BY ObjTyped DEF JsonTypeOK
<1>1. CASE JsonEnter
  BY <1>1, JsonStopTyped DEF JsonEnter
<1>2. CASE BucketKnown
  <2>1. obj[at].value \in Values \cup {None}
    BY <1>0, <1>2, MemberTyped DEF BucketKnown, AtMember
  <2>2. slots' \in [1..Len(specs) -> Values \cup {None, Missing}]
    BY <1>2, <2>1 DEF BucketKnown, JsonTypeOK
  <2> QED
    BY <1>0, <1>2, <2>2 DEF BucketKnown, JsonTypeOK, jsonCall
<1>3. CASE BucketUnknown
  <2>1. CASE JsonStop("fallback")
    BY <2>1, JsonStopTyped
  <2>2. CASE /\ held' = IF unknown = "include" THEN Append(held, obj[at]) ELSE held
             /\ at' = at + 1
             /\ UNCHANGED <<jsonCall, slots, i, out, status>>
    <3>1. obj[at] \in Member
      BY <1>0, <1>3 DEF BucketUnknown, AtMember
    <3>2. held' \in Seq(Member)
      BY <2>2, <3>1 DEF JsonTypeOK
    <3> QED
      BY <1>0, <2>2, <3>2 DEF JsonTypeOK, jsonCall
  <2> QED
    BY <1>3, <2>1, <2>2 DEF BucketUnknown
<1>4. CASE BucketDone
  BY <1>4, JsonStopTyped DEF BucketDone
<1>5. CASE DeferCallback
  BY <1>5, JsonStopTyped DEF DeferCallback
<1>6. CASE JsonPartialSkip
  BY <1>6, JsonSkipTyped DEF JsonPartialSkip, AtNative
<1>7. CASE JsonNativeRequired
  BY <1>7, JsonStopTyped DEF JsonNativeRequired
<1>8. CASE JsonNativeDefault
  <2>1. i \in 1..Len(specs) /\ i <= Len(specs)
    BY <1>8, SchemasType DEF JsonNativeDefault, AtNative, JsonTypeOK
  <2>2. field.default \in Values \cup {None, Missing}
    BY <2>1, SpecTyped DEF JsonTypeOK, field
  <2> QED
    BY <1>8, <2>1, <2>2, JsonSkipTyped, JsonStoreTyped DEF JsonNativeDefault
<1>9. CASE JsonNativeNull
  BY <1>9, JsonStopTyped, JsonStoreTyped DEF JsonNativeNull, AtNative
<1>10. CASE JsonNativeConvert
  BY <1>10, ConvertTyped
<1>11. CASE FieldsDone
  BY <1>11 DEF FieldsDone, JsonTypeOK, jsonCall
<1>12. CASE CopyHeld
  <2>1. /\ out' = Put(out, <<held[at].key>>, held[at].value)
        /\ at <= Len(held) /\ at' = at + 1
        /\ UNCHANGED <<jsonCall, slots, held, i, status>>
    BY <1>12 DEF CopyHeld
  <2>2. held[at].key \in Keys /\ held[at].value \in Values \cup {None}
    BY <1>0, <2>1, MemberTyped DEF JsonTypeOK
  <2>3. <<held[at].key>> \in Paths
    BY <2>2 DEF Paths
  <2> QED
    BY <1>0, <2>1, <2>2, <2>3, PutTyped, SMTT(40) DEF JsonTypeOK, jsonCall
<1>13. CASE Finish
  BY <1>13, JsonStopTyped DEF Finish
<1>14. CASE UNCHANGED jsonVars
  BY <1>14 DEF JsonTypeOK, jsonVars
<1> QED
  BY <1>1, <1>2, <1>3, <1>4, <1>5, <1>6, <1>7, <1>8, <1>9, <1>10, <1>11, <1>12,
     <1>13, <1>14 DEF JsonNext

(* The fused loop keeps every variable in its type: whatever the object,   *)
(* out holds only values.                                                  *)
THEOREM JsonTypeCorrect == JsonSpec => []JsonTypeOK
<1>1. JsonInit => JsonTypeOK
  BY SchemasType DEF JsonInit, JsonTypeOK, JsonStatuses
<1> QED
  BY <1>1, JsonTypeStep, PTL DEF JsonSpec

-----------------------------------------------------------------------------
(* The first pass.                                                         *)

(* With distinct data keys, a key's slot is the one of its only field. *)
LEMMA SlotOfKey ==
  ASSUME DistinctDataKeys, NEW k \in 1..Len(specs), Len(specs) \in Nat
  PROVE  Slot(specs[k].dataKey) = k
<1>1. \A j \in (k + 1)..Len(specs) : specs[j].dataKey # specs[k].dataKey
  BY DEF DistinctDataKeys
<1>2. /\ Slot(specs[k].dataKey) \in 1..Len(specs)
      /\ specs[Slot(specs[k].dataKey)].dataKey = specs[k].dataKey
  BY <1>1 DEF Slot
<1> QED
  BY <1>2 DEF DistinctDataKeys

(* Before the first member, the empty buckets are right. *)
LEMMA LearnedNone ==
  ASSUME JsonTypeOK, DistinctDataKeys, held = <<>>,
         \A k \in 1..Len(specs) : slots[k] = Missing
  PROVE  Learned(0)
<1>1. \A m : HasLast(m, 0) /\ DOMAIN JsonLoads(m, 0) = {}
  BY DEF HasLast, JsonLoads
<1>2. UnknownKeys(specs, JsonLoads(obj, 0)) = {}
  BY <1>1 DEF UnknownKeys
<1>3. \A k \in 1..Len(specs) : slots[k] = Raw(specs[k], JsonLoads(obj, 0))
  BY <1>1 DEF Raw
<1>4. Len(held) = 0
  OBVIOUS
<1>5. JsonLoads(held, 0) = UnknownPart(JsonLoads(obj, 0))
  BY <1>1, <1>2 DEF UnknownPart, JsonLoads
<1> QED
  BY <1>1, <1>2, <1>3, <1>4, <1>5 DEF Learned

(* One more member of the object. *)
LEMMA NextMember ==
  ASSUME JsonTypeOK, HasLast(obj, at - 1)
  PROVE  /\ HasLast(obj, at)
         /\ DOMAIN JsonLoads(obj, at) = DOMAIN JsonLoads(obj, at - 1) \cup {obj[at].key}
         /\ JsonLoads(obj, at)[obj[at].key] = obj[at].value
         /\ \A u \in DOMAIN JsonLoads(obj, at - 1) \ {obj[at].key} :
              JsonLoads(obj, at)[u] = JsonLoads(obj, at - 1)[u]
<1> DEFINE n == at - 1
<1>1. n \in Nat /\ n + 1 = at
  BY DEF JsonTypeOK
<1>2. HasLast(obj, n)
  OBVIOUS
<1> HIDE DEF n
<1>3. /\ HasLast(obj, n + 1)
      /\ DOMAIN JsonLoads(obj, n + 1) = DOMAIN JsonLoads(obj, n) \cup {obj[n + 1].key}
      /\ JsonLoads(obj, n + 1)[obj[n + 1].key] = obj[n + 1].value
      /\ \A u \in DOMAIN JsonLoads(obj, n) \ {obj[n + 1].key} :
           JsonLoads(obj, n + 1)[u] = JsonLoads(obj, n)[u]
  BY <1>1, <1>2, HasLastNext, JsonLoadsNext
<1> QED
  BY <1>1, <1>3 DEF n

(* A known member goes to its slot, the last value under its key stays.    *)
LEMMA KnownLearned ==
  ASSUME JsonTypeOK, status = "bucket", Learned(at - 1), BucketKnown
  PROVE  Learned(at - 1)'
<1> DEFINE d == JsonLoads(obj, at - 1)
           e == JsonLoads(obj, at)
           key == obj[at].key
           value == obj[at].value
<1>0. at \in Nat /\ at' = at + 1 /\ at' - 1 = at
  BY DEF JsonTypeOK, BucketKnown
<1>1. Len(specs) \in Nat /\ slots \in [1..Len(specs) -> Values \cup {None, Missing}]
  BY SchemasType DEF JsonTypeOK
<1>2. /\ DistinctDataKeys /\ HasLast(obj, at - 1)
      /\ \A k \in 1..Len(specs) : slots[k] = Raw(specs[k], d)
      /\ unknown = "raise" => UnknownKeys(specs, d) = {}
      /\ unknown # "include" => held = <<>>
      /\ unknown = "include" => /\ HasLast(held, Len(held))
                                /\ JsonLoads(held, Len(held)) = UnknownPart(d)
  BY DEF Learned
<1>3. HasLast(obj, at)
  BY <1>2, NextMember
<1>4. /\ DOMAIN e = DOMAIN d \cup {key} /\ e[key] = value
      /\ \A u \in DOMAIN d \ {key} : e[u] = d[u]
  BY <1>2, NextMember
<1>5. /\ key \in KnownKeys(specs)
      /\ slots' = [slots EXCEPT ![Slot(key)] = value]
      /\ at' = at + 1
      /\ specs' = specs /\ obj' = obj /\ unknown' = unknown /\ held' = held
  BY DEF BucketKnown, jsonCall
<1> HIDE DEF d, e, key, value
<1>6. PICK s \in 1..Len(specs) : specs[s].dataKey = key
  BY <1>5 DEF KnownKeys
<1>7. Slot(key) = s
  BY <1>1, <1>2, <1>6, SlotOfKey
<1>8. ASSUME NEW k \in 1..Len(specs) PROVE slots'[k] = Raw(specs[k], e)
  <2>1. CASE k = s
    BY <1>1, <1>4, <1>5, <1>6, <1>7, <2>1 DEF Raw
  <2>2. CASE k # s
    <3>1. specs[k].dataKey # key
      BY <1>2, <1>6, <2>2 DEF DistinctDataKeys
    <3>2. slots'[k] = slots[k]
      BY <1>1, <1>5, <1>7, <2>2
    <3>3. Raw(specs[k], e) = Raw(specs[k], d)
      BY <1>4, <3>1 DEF Raw
    <3> QED
      BY <1>2, <3>2, <3>3
  <2> QED
    BY <2>1, <2>2
<1>9. UnknownKeys(specs, e) = UnknownKeys(specs, d)
  BY <1>4, <1>5 DEF UnknownKeys
<1>10. UnknownPart(e) = UnknownPart(d)
  <2>1. \A u \in UnknownKeys(specs, d) : u \in DOMAIN d \ {key}
    BY <1>5 DEF UnknownKeys
  <2>2. \A u \in UnknownKeys(specs, d) : e[u] = d[u]
    BY <1>4, <2>1
  <2> QED
    BY <1>9, <2>2 DEF UnknownPart
<1>11. /\ DistinctDataKeys /\ HasLast(obj, at)
       /\ \A k \in 1..Len(specs) : slots'[k] = Raw(specs[k], e)
       /\ unknown = "raise" => UnknownKeys(specs, e) = {}
       /\ unknown = "include" => JsonLoads(held, Len(held)) = UnknownPart(e)
  BY <1>2, <1>3, <1>8, <1>9, <1>10
<1>12. DistinctDataKeys'
  BY <1>5, <1>11 DEF DistinctDataKeys
<1>13. JsonLoads(obj', at' - 1) = e
  BY <1>0, <1>5 DEF e
<1>14. unknown' = "include" => JsonLoads(held', Len(held')) = UnknownPart(JsonLoads(obj, at - 1))'
  BY <1>5, <1>11, <1>13 DEF UnknownPart
<1>15. \A k \in 1..Len(specs') : slots'[k] = Raw(specs'[k], JsonLoads(obj', at' - 1))
  BY <1>5, <1>11, <1>13
<1>16. HasLast(obj', at' - 1) /\ (unknown' # "include" => held' = <<>>)
       /\ (unknown' = "include" => HasLast(held', Len(held')))
  BY <1>0, <1>2, <1>3, <1>5
<1>17. unknown' = "raise" => UnknownKeys(specs', JsonLoads(obj', at' - 1)) = {}
  BY <1>5, <1>11, <1>13
<1> QED
  BY <1>12, <1>14, <1>15, <1>16, <1>17 DEF Learned

(* An unknown member is dropped, or held as it is. *)
LEMMA UnknownLearned ==
  ASSUME JsonTypeOK, status = "bucket", Learned(at - 1), BucketUnknown, unknown # "raise"
  PROVE  Learned(at - 1)'
<1> DEFINE d == JsonLoads(obj, at - 1)
           e == JsonLoads(obj, at)
           key == obj[at].key
           h == Len(held)
<1>0. at \in Nat /\ at' = at + 1 /\ at' - 1 = at
  BY DEF JsonTypeOK, BucketUnknown
<1>1. held \in Seq(Member) /\ h \in Nat
  BY DEF JsonTypeOK
<1>2. /\ DistinctDataKeys /\ HasLast(obj, at - 1)
      /\ \A k \in 1..Len(specs) : slots[k] = Raw(specs[k], d)
      /\ unknown # "include" => held = <<>>
      /\ unknown = "include" => HasLast(held, h) /\ JsonLoads(held, h) = UnknownPart(d)
  BY DEF Learned
<1>3. HasLast(obj, at)
  BY <1>2, NextMember
<1>4. /\ DOMAIN e = DOMAIN d \cup {key} /\ e[key] = obj[at].value
      /\ \A u \in DOMAIN d \ {key} : e[u] = d[u]
  BY <1>2, NextMember
<1>5. /\ key \notin KnownKeys(specs)
      /\ held' = IF unknown = "include" THEN Append(held, obj[at]) ELSE held
      /\ specs' = specs /\ obj' = obj /\ unknown' = unknown /\ slots' = slots
  BY DEF BucketUnknown, jsonCall
<1>6. obj[at] \in Member
  BY <1>0, ObjTyped DEF BucketUnknown, AtMember, JsonTypeOK
<1> HIDE DEF d, e, h
<1>7. ASSUME NEW k \in 1..Len(specs) PROVE slots[k] = Raw(specs[k], e)
  <2>1. specs[k].dataKey # key
    BY <1>5 DEF KnownKeys
  <2>2. Raw(specs[k], e) = Raw(specs[k], d)
    BY <1>4, <2>1 DEF Raw
  <2> QED
    BY <1>2, <2>2
<1>8. UnknownKeys(specs, e) = UnknownKeys(specs, d) \cup {key}
  BY <1>4, <1>5 DEF UnknownKeys
<1>9. ASSUME unknown = "include"
      PROVE  HasLast(held', Len(held')) /\ JsonLoads(held', Len(held')) = UnknownPart(e)
  <2> DEFINE g == held'
             new == JsonLoads(g, h + 1)
  <2>1. /\ g = Append(held, obj[at]) /\ Len(g) = h + 1 /\ g[h + 1] = obj[at]
        /\ \A j \in 1..h : g[j] = held[j]
    BY <1>1, <1>5, <1>6, <1>9 DEF h
  <2> HIDE DEF g
  <2>2. HasLast(g, h) /\ JsonLoads(g, h) = UnknownPart(d)
    <3>1. (\A j \in 1..h : g[j] = held[j]) /\ HasLast(held, h)
      BY <1>2, <1>9, <2>1
    <3>2. HasLast(g, h) /\ JsonLoads(g, h) = JsonLoads(held, h)
      BY <1>1, <3>1, JsonLoadsPrefix
    <3> QED
      BY <1>2, <1>9, <3>2
  <2>3. HasLast(g, h + 1)
    BY <1>1, <2>2, HasLastNext
  <2>4. /\ DOMAIN new = DOMAIN UnknownPart(d) \cup {key}
        /\ new[key] = obj[at].value
        /\ \A u \in DOMAIN UnknownPart(d) \ {key} : new[u] = UnknownPart(d)[u]
    <3>1. /\ DOMAIN new = DOMAIN JsonLoads(g, h) \cup {g[h + 1].key}
          /\ new[g[h + 1].key] = g[h + 1].value
          /\ \A u \in DOMAIN JsonLoads(g, h) \ {g[h + 1].key} :
               new[u] = JsonLoads(g, h)[u]
      BY <1>1, <2>2, JsonLoadsNext
    <3> HIDE DEF new
    <3> QED
      BY <2>1, <2>2, <3>1
  <2>5. new = [u \in DOMAIN new |-> new[u]]
    BY DEF JsonLoads
  <2> HIDE DEF new
  <2>6. DOMAIN new = UnknownKeys(specs, e)
    BY <1>8, <2>4 DEF UnknownPart
  <2>7. ASSUME NEW u \in UnknownKeys(specs, e) PROVE new[u] = e[u]
    <3>1. CASE u = key
      BY <1>4, <2>4, <3>1
    <3>2. CASE u # key
      <4>1. u \in UnknownKeys(specs, d) /\ u \in DOMAIN d \ {key}
        BY <1>8, <2>7, <3>2 DEF UnknownKeys
      <4>2. new[u] = d[u]
        BY <2>4, <3>2, <4>1 DEF UnknownPart
      <4> QED
        BY <1>4, <4>1, <4>2
    <3> QED
      BY <3>1, <3>2
  <2>8. new = UnknownPart(e)
    BY <2>5, <2>6, <2>7 DEF UnknownPart
  <2> QED
    BY <2>1, <2>3, <2>8 DEF new, g
<1>10. JsonLoads(obj', at' - 1) = e
  BY <1>0, <1>5 DEF e
<1>11. /\ HasLast(obj', at' - 1) /\ (unknown' # "include" => held' = <<>>)
       /\ \A k \in 1..Len(specs') : slots'[k] = Raw(specs'[k], JsonLoads(obj', at' - 1))
       /\ unknown' # "raise"
  BY <1>0, <1>2, <1>3, <1>5, <1>7, <1>10
<1>12. unknown' = "include" =>
         /\ HasLast(held', Len(held'))
         /\ JsonLoads(held', Len(held')) = UnknownPart(JsonLoads(obj, at - 1))'
  BY <1>5, <1>9, <1>10 DEF UnknownPart
<1>13. DistinctDataKeys'
  BY <1>2, <1>5 DEF DistinctDataKeys
<1> QED
  BY <1>11, <1>12, <1>13 DEF Learned

-----------------------------------------------------------------------------
(* The second pass.  As in LoadRecordProofs, each arm is one of four       *)
(* steps, on top of what the first pass learned.                           *)

(* What the first pass learned stays true while the buckets stay. *)
LEMMA LearnedKept ==
  ASSUME Learned(Len(obj)), UNCHANGED <<jsonCall, slots, held>>
  PROVE  Learned(Len(obj))'
<1>1. UNCHANGED <<specs, obj, partial, unknown, isObject, slots, held>>
  BY DEF jsonCall
<1>2. DistinctDataKeys' /\ UnknownPart(JsonLoads(obj, Len(obj)))' = UnknownPart(JsonLoads(obj, Len(obj)))
  BY <1>1 DEF Learned, DistinctDataKeys, UnknownPart
<1> QED
  BY <1>1, <1>2 DEF Learned

(* After the first pass, json.loads of the object is a record. *)
LEMMA DataIsRecord == JsonTypeOK /\ Learned(Len(obj)) => IsRecord(loaded)
<1> SUFFICES ASSUME JsonTypeOK, Learned(Len(obj)) PROVE IsRecord(loaded)
  OBVIOUS
<1>1. obj \in Seq(Member) /\ Len(obj) \in 0..Len(obj)
  BY ObjTyped
<1>2. HasLast(obj, Len(obj))
  BY DEF Learned
<1> QED
  BY <1>1, <1>2, JsonLoadsTyped DEF loaded

(* Skipping a field that stock leaves out keeps the invariant. *)
LEMMA JsonSkipKeeps ==
  ASSUME JsonIInv, status = "fields", i <= Len(specs), JsonSkip,
         StockField(field, loaded, partial) = Missing
  PROVE  JsonIInv'
<1>1. i \in 1..Len(specs) /\ Len(specs) \in Nat /\ (i + 1) - 1 = i /\ JsonTypeOK
  BY SchemasType DEF JsonIInv, JsonTypeOK
<1>2. ~Stores(specs, loaded, partial, i)
  BY DEF Stores, Outcomes, field
<1>3. StockOut(specs, loaded, partial, i) = StockOut(specs, loaded, partial, i - 1)
  BY <1>1, <1>2, StockOutSkip DEF JsonTypeOK
<1>4. ~Clash(specs, loaded, partial, i)
  BY <1>2 DEF Clash
<1>5. Accepted(loaded, i)
  BY <1>1, <1>4, Sentinels DEF JsonIInv, Accepted, field
<1>6. JsonTypeOK' /\ i' = i + 1 /\ i' - 1 = i /\ Learned(Len(obj))'
  BY <1>1, JsonSkipTyped, LearnedKept DEF JsonIInv, JsonSkip, buckets
<1>7. UNCHANGED <<specs, obj, partial, unknown, isObject, at, slots, held, out, status>>
  BY DEF JsonSkip, jsonCall, buckets
<1>8. Accepted(loaded, i - 1)' /\ out' = StockOut(specs', loaded', partial', i' - 1)
  BY <1>3, <1>5, <1>6, <1>7 DEF JsonIInv, Accepted, loaded
<1> QED
  BY <1>6, <1>7, <1>8 DEF JsonIInv, JsonFallbackJustified

(* Storing what stock stores keeps the invariant. *)
LEMMA JsonStoreKeeps ==
  ASSUME JsonIInv, status = "fields", i <= Len(specs),
         StockField(field, loaded, partial) \notin Outcomes,
         JsonSetLoadValue(StockField(field, loaded, partial))
  PROVE  JsonIInv'
<1> DEFINE v == StockField(field, loaded, partial)
<1>1. /\ i \in 1..Len(specs) /\ Len(specs) \in Nat /\ (i + 1) - 1 = i
      /\ JsonTypeOK /\ Learned(Len(obj))
  BY SchemasType DEF JsonIInv, JsonTypeOK
<1>2. Stores(specs, loaded, partial, i)
  BY DEF Stores, field
<1>3. Blocked(out, field.path) <=> Clash(specs, loaded, partial, i)
  BY <1>1, <1>2, BlockedIsClash DEF JsonIInv, JsonTypeOK, field
<1>4. JsonTypeOK'
  <2>1. v \in Values \cup {None}
    BY <1>1, StockFieldTyped, DataIsRecord DEF JsonTypeOK, field
  <2> QED
    BY <1>1, <2>1, JsonStoreTyped
<1>5. CASE Blocked(out, field.path) /\ JsonStop("fallback")
  <2>1. StockErrs(specs, loaded, partial, i)
    BY <1>1, <1>3, <1>5 DEF StockErrs
  <2>2. JsonFallbackJustified' /\ status' = "fallback"
    BY <1>5, <2>1 DEF JsonFallbackJustified, JsonStop, jsonCall, loaded
  <2> QED
    BY <1>4, <2>2 DEF JsonIInv
<1>6. CASE /\ ~Blocked(out, field.path)
           /\ out' = Put(out, field.path, v)
           /\ i' = i + 1
           /\ UNCHANGED <<jsonCall, buckets, status>>
  <2>1. StockOut(specs, loaded, partial, i)
          = Put(StockOut(specs, loaded, partial, i - 1), specs[i].path,
                StockField(specs[i], loaded, partial))
    BY <1>1, <1>2, StockOutPut DEF JsonTypeOK
  <2>2. out' = StockOut(specs, loaded, partial, i)
    BY <1>6, <2>1 DEF JsonIInv, field
  <2>3. Accepted(loaded, i)
    BY <1>1, <1>3, <1>6 DEF JsonIInv, Accepted, Outcomes, field
  <2>4. UNCHANGED <<specs, obj, partial, unknown, isObject, at, slots, held, status>>
    BY <1>6 DEF jsonCall, buckets
  <2>5. Learned(Len(obj))'
    BY <1>1, <1>6, LearnedKept DEF buckets
  <2>6. Accepted(loaded, i - 1)' /\ out' = StockOut(specs', loaded', partial', i' - 1)
    BY <1>1, <1>6, <2>2, <2>3, <2>4 DEF Accepted, loaded
  <2> QED
    BY <1>4, <2>4, <2>5, <2>6 DEF JsonIInv, JsonFallbackJustified
<1> QED
  BY <1>5, <1>6 DEF JsonSetLoadValue

(* Deferring, for one of the reasons of FallbackJustified. *)
LEMMA JsonDeferKeeps ==
  ASSUME JsonIInv, JsonStop("fallback"),
         \/ ~isObject \/ ~DistinctDataKeys
         \/ \E k \in 1..Len(specs) : ~specs[k].native
         \/ RaisesUnknown(specs, loaded, unknown)
         \/ StockErrs(specs, loaded, partial, i)
         \/ /\ i <= Len(specs) /\ slots[i] \in Values
            /\ LET r == Apply(field, slots[i], FieldPartial(field, corePartial))
               IN  r = Fail \/ (r \notin Outcomes /\ Check(field, r) = "fail")
  PROVE  JsonIInv'
<1>1. JsonTypeOK'
  BY JsonStopTyped DEF JsonIInv, JsonStatuses
<1>2. UNCHANGED <<specs, obj, partial, unknown, isObject, at, slots, held, i, out>>
  BY DEF JsonStop, jsonCall, buckets
<1>3. JsonFallbackJustified'
  BY <1>2 DEF JsonFallbackJustified, loaded, field, DistinctDataKeys, corePartial
<1> QED
  BY <1>1, <1>3 DEF JsonIInv, JsonStop

(* An interrupt where stock is interrupted keeps the invariant. *)
LEMMA JsonInterruptKeeps ==
  ASSUME JsonIInv, status = "fields", JsonStop("interrupted"), i <= Len(specs),
         StockField(field, loaded, partial) = Interrupt
  PROVE  JsonIInv'
<1>1. JsonTypeOK' /\ Learned(Len(obj))'
  BY JsonStopTyped, LearnedKept DEF JsonIInv, JsonStatuses, JsonStop, buckets
<1>2. UNCHANGED <<specs, obj, partial, unknown, isObject, at, slots, held, i, out>>
  BY DEF JsonStop, jsonCall, buckets
<1>3. Accepted(loaded, i - 1)' /\ i' <= Len(specs') /\ StockField(field, loaded, partial)' = Interrupt
  BY <1>2 DEF JsonIInv, Accepted, loaded, field
<1> QED
  BY <1>1, <1>3 DEF JsonIInv, JsonStop, JsonFallbackJustified

(* In the second pass slots[i] is what stock reads for the field. *)
LEMMA JsonNativeOutcome ==
  ASSUME JsonIInv, partialsKept, status = "fields", i \in 1..Len(specs)
  PROVE  /\ slots[i] = Raw(field, loaded)
         /\ field.native /\ slots[i] \in Values =>
              /\ StockField(field, loaded, partial)
                   = Stock(field, slots[i], CoreSub(field, partial))
              /\ ElementContract(field, slots[i], partial)
<1>1. slots[i] = Raw(field, loaded)
  BY DEF JsonIInv, Learned, loaded, field
<1>2. slots[i] \in Values => slots[i] # Missing /\ slots[i] # None
  BY Sentinels DEF Outcomes
<1>3. slots[i] \in Values => Stock(field, slots[i], CoreSub(field, partial))
                               = Stock(field, slots[i], StockPartial(field, partial))
  BY KeptAlike DEF JsonIInv, JsonTypeOK, field, partialsKept
<1> QED
  BY <1>1, <1>2, <1>3, ElementsSound DEF JsonIInv, JsonTypeOK, field, StockField, Deserialize

-----------------------------------------------------------------------------
(* The third pass.                                                         *)

(* Stock's output has leaves under non-empty paths only. *)
LEMMA OutPaths ==
  ASSUME JsonTypeOK
  PROVE  DOMAIN StockOut(specs, loaded, partial, Len(specs)) \subseteq Paths
<1>1. DOMAIN StockOut(specs, loaded, partial, Len(specs))
        = {specs[j].path : j \in Live(specs, loaded, partial, Len(specs))}
  BY DEF StockOut
<1>2. Live(specs, loaded, partial, Len(specs)) \subseteq 1..Len(specs)
  BY DEF Live
<1> QED
  BY <1>1, <1>2, SpecTyped DEF JsonTypeOK

(* The third pass: copying one more held member is one more Put. *)
LEMMA CopiedNext ==
  ASSUME JsonTypeOK, at <= Len(held), HasLast(held, at - 1)
  PROVE  /\ HasLast(held, at)
         /\ Copied(at) = Put(Copied(at - 1), <<held[at].key>>, held[at].value)
<1> DEFINE n == at - 1
           base == StockOut(specs, loaded, partial, Len(specs))
           d == JsonLoads(held, n)
           e == JsonLoads(held, at)
           key == held[at].key
<1>1. n \in Nat /\ n + 1 = at /\ n \in 0..Len(held) /\ HasLast(held, n)
  BY DEF JsonTypeOK
<1>2. key \in Keys
  BY MemberTyped DEF JsonTypeOK
<1>3. IsRecord(d)
  BY <1>1, JsonLoadsTyped DEF JsonTypeOK
<1> HIDE DEF n
<1>4. /\ HasLast(held, n + 1)
      /\ DOMAIN JsonLoads(held, n + 1) = DOMAIN JsonLoads(held, n) \cup {held[n + 1].key}
      /\ JsonLoads(held, n + 1)[held[n + 1].key] = held[n + 1].value
      /\ \A u \in DOMAIN JsonLoads(held, n) \ {held[n + 1].key} :
           JsonLoads(held, n + 1)[u] = JsonLoads(held, n)[u]
  BY <1>1, HasLastNext, JsonLoadsNext
<1>5. /\ HasLast(held, at) /\ DOMAIN e = DOMAIN d \cup {key}
      /\ e[key] = held[at].value
      /\ \A u \in DOMAIN d \ {key} : e[u] = d[u]
  BY <1>1, <1>4
<1>6. DOMAIN d \in SUBSET Keys
  BY <1>3 DEF IsRecord
<1>7. Copied(at) = WithUnknown(base, e, DOMAIN e) /\ Copied(at - 1) = WithUnknown(base, d, DOMAIN d)
  BY DEF Copied, n
<1>8. DOMAIN base \subseteq Paths
  BY OutPaths
<1> HIDE DEF base, d, e, key
<1>9. Put(WithUnknown(base, d, DOMAIN d), <<key>>, e[key]) = WithUnknown(base, e, DOMAIN d \cup {key})
  BY <1>2, <1>5, <1>6, <1>8, CopyOneMore
<1> QED
  BY <1>5, <1>7, <1>9 DEF key

(* Before the first copy the output is the fields'. *)
LEMMA CopiedNothing ==
  ASSUME JsonTypeOK
  PROVE  HasLast(held, 0) /\ Copied(0) = StockOut(specs, loaded, partial, Len(specs))
<1>1. HasLast(held, 0) /\ DOMAIN JsonLoads(held, 0) = {}
  BY DEF HasLast, JsonLoads
<1>2. \A d : WithUnknown(StockOut(specs, loaded, partial, Len(specs)), d, {})
               = StockOut(specs, loaded, partial, Len(specs))
  BY DEF WithUnknown, StockOut
<1> QED
  BY <1>1, <1>2 DEF Copied

(* The held members are the unknown rest of the record. *)
LEMMA CopiedAll ==
  ASSUME JsonTypeOK, Learned(Len(obj))
  PROVE  Copied(Len(held)) = StockResult(specs, loaded, partial, unknown)
<1> DEFINE base == StockOut(specs, loaded, partial, Len(specs))
           others == UnknownKeys(specs, loaded)
           rest == UnknownPart(loaded)
<1>1. CASE unknown = "include"
  <2>1. JsonLoads(held, Len(held)) = rest
    BY <1>1 DEF Learned, loaded
  <2>2. DOMAIN rest = others /\ \A u \in others : rest[u] = loaded[u]
    BY DEF UnknownPart
  <2>3. Copied(Len(held)) = WithUnknown(base, rest, others)
    BY <2>1, <2>2 DEF Copied
  <2>4. others \subseteq Keys
    BY DataIsRecord DEF UnknownKeys, IsRecord
  <2>5. \A u \in others : Head(<<u>>) = u
    OBVIOUS
  <2>6. \A q \in {<<u>> : u \in others} : rest[Head(q)] = loaded[Head(q)]
    BY <2>2, <2>5
  <2> HIDE DEF rest, base, others
  <2>7. WithUnknown(base, rest, others) = WithUnknown(base, loaded, others)
    BY <2>6 DEF WithUnknown
  <2> QED
    BY <1>1, <2>3, <2>7 DEF StockResult, base, others
<1>2. CASE unknown # "include"
  <2>1. held = <<>> /\ Len(held) = 0
    BY <1>2 DEF Learned
  <2>2. Copied(Len(held)) = base
    BY <2>1, CopiedNothing
  <2> QED
    BY <1>2, <2>2 DEF StockResult
<1> QED
  BY <1>1, <1>2

-----------------------------------------------------------------------------
(* The inductive invariant, action by action. *)

(* Every step keeps the invariant: one case per action of Next. *)
LEMMA JsonIInvStep == JsonIInv /\ partialsKept /\ [JsonNext]_jsonVars => JsonIInv'
<1> SUFFICES ASSUME JsonIInv, partialsKept, [JsonNext]_jsonVars PROVE JsonIInv'
  OBVIOUS
<1>a. AllowsMissing(corePartial, field.attr) <=> AllowsMissing(partial, field.attr)
  BY AllowsAlike DEF corePartial
<1>0. /\ JsonTypeOK /\ JsonTypeOK' /\ Len(specs) \in Nat /\ i \in Nat
      /\ i \in 1..(Len(specs) + 1) /\ at \in Nat \ {0} /\ Len(obj) \in Nat
  BY JsonTypeStep, SchemasType, ObjTyped DEF JsonIInv, JsonTypeOK
<1>1. CASE JsonEnter
  <2>1. CASE isObject /\ DistinctDataKeys /\ JsonStop("bucket")
    <3>1. Learned(0)
      BY <1>0, <1>1, <2>1, LearnedNone DEF JsonIInv, JsonEnter
    <3>2. UNCHANGED <<specs, obj, partial, unknown, isObject, at, slots, held, i, out>>
      BY <2>1 DEF JsonStop, jsonCall, buckets
    <3>3. at - 1 = 0
      BY <1>1 DEF JsonIInv, JsonEnter
    <3>4. Learned(at - 1)'
      BY <3>1, <3>2, <3>3 DEF Learned, DistinctDataKeys, UnknownPart
    <3> QED
      BY <1>0, <1>1, <2>1, <3>2, <3>4 DEF JsonIInv, JsonEnter, JsonStop, JsonFallbackJustified
  <2>2. CASE (~isObject \/ ~DistinctDataKeys) /\ JsonStop("fallback")
    BY <2>2, JsonDeferKeeps
  <2> QED
    BY <1>1, <2>1, <2>2 DEF JsonEnter
<1>2. CASE BucketKnown
  <2>1. status = "bucket" /\ Learned(at - 1) /\ i = 1 /\ out = <<>>
    BY <1>2 DEF JsonIInv, BucketKnown, AtMember
  <2>2. Learned(at - 1)'
    BY <1>0, <1>2, <2>1, KnownLearned
  <2>3. status' = "bucket" /\ i' = 1 /\ out' = <<>>
    BY <1>2, <2>1 DEF BucketKnown
  <2> QED
    BY <1>0, <2>2, <2>3 DEF JsonIInv, JsonFallbackJustified
<1>3. CASE BucketUnknown
  <2>1. status = "bucket" /\ Learned(at - 1) /\ i = 1 /\ out = <<>>
    BY <1>3 DEF JsonIInv, BucketUnknown, AtMember
  <2>2. CASE unknown = "raise" /\ JsonStop("fallback")
    <3>1. obj[at].key \in UnknownKeys(specs, loaded)
      <4>1. obj[at].key \in {obj[j].key : j \in 1..Len(obj)}
        BY <1>0, <1>3 DEF BucketUnknown, AtMember
      <4> QED
        BY <1>3, <4>1, JsonLoadsDomain DEF BucketUnknown, UnknownKeys, loaded
    <3>2. RaisesUnknown(specs, loaded, unknown)
      BY <2>2, <3>1 DEF RaisesUnknown
    <3> QED
      BY <2>2, <3>2, JsonDeferKeeps
  <2>3. CASE unknown # "raise"
    <3>1. Learned(at - 1)'
      BY <1>0, <1>3, <2>1, <2>3, UnknownLearned
    <3>2. status' = "bucket" /\ i' = 1 /\ out' = <<>>
      BY <1>3, <2>1, <2>3 DEF BucketUnknown
    <3> QED
      BY <1>0, <3>1, <3>2 DEF JsonIInv, JsonFallbackJustified
  <2> QED
    BY <1>3, <2>2, <2>3 DEF BucketUnknown
<1>4. CASE BucketDone
  <2>1. /\ status = "bucket" /\ at - 1 = Len(obj) /\ i = 1 /\ out = <<>>
        /\ JsonStop("fields")
    BY <1>0, <1>4 DEF JsonIInv, BucketDone
  <2>2. Learned(Len(obj))
    BY <2>1 DEF JsonIInv
  <2>3. UNCHANGED <<specs, obj, partial, unknown, isObject, at, slots, held, i, out>>
    BY <2>1 DEF JsonStop, jsonCall, buckets
  <2>4. Learned(Len(obj))'
    BY <2>2, <2>3, LearnedKept DEF jsonCall
  <2>5. Accepted(loaded, i - 1)' /\ out' = StockOut(specs', loaded', partial', i' - 1)
    BY <2>1, <2>3 DEF Accepted, StockOut, Live
  <2> QED
    BY <1>0, <2>1, <2>4, <2>5 DEF JsonIInv, JsonStop, JsonFallbackJustified
<1>5. CASE DeferCallback
  <2>1. i \in 1..Len(specs) /\ ~specs[i].native /\ JsonStop("fallback")
    BY <1>0, <1>5 DEF DeferCallback, field
  <2> QED
    BY <2>1, JsonDeferKeeps
<1>6. CASE JsonPartialSkip
  <2>1. status = "fields" /\ i <= Len(specs) /\ i \in 1..Len(specs)
    BY <1>0, <1>6 DEF JsonPartialSkip, AtNative
  <2>2. StockField(field, loaded, partial) = Missing
    BY <1>a, <1>6, <2>1, JsonNativeOutcome DEF JsonPartialSkip, StockField
  <2> QED
    BY <1>6, <2>1, <2>2, JsonSkipKeeps DEF JsonPartialSkip
<1>7. CASE JsonNativeRequired
  <2>1. status = "fields" /\ i <= Len(specs) /\ i \in 1..Len(specs)
    BY <1>0, <1>7 DEF JsonNativeRequired, AtNative
  <2>2. StockField(field, loaded, partial) = Fail
    BY <1>a, <1>7, <2>1, JsonNativeOutcome, Sentinels
       DEF JsonNativeRequired, StockField, Deserialize, Outcomes
  <2>3. StockErrs(specs, loaded, partial, i)
    BY <2>1, <2>2 DEF StockErrs, field
  <2> QED
    BY <1>7, <2>3, JsonDeferKeeps DEF JsonNativeRequired
<1>8. CASE JsonNativeDefault
  <2>1. status = "fields" /\ i <= Len(specs) /\ i \in 1..Len(specs)
    BY <1>0, <1>8 DEF JsonNativeDefault, AtNative
  <2>2. StockField(field, loaded, partial) = field.default
    BY <1>a, <1>8, <2>1, JsonNativeOutcome, Sentinels
       DEF JsonNativeDefault, StockField, Deserialize, Outcomes
  <2>3. field.default \in Values \cup {None, Missing}
    BY <1>0, <2>1, SpecTyped DEF JsonTypeOK, field
  <2>4. field.default # Missing => field.default \notin Outcomes
    BY <2>3, Sentinels DEF Outcomes
  <2> QED
    BY <1>8, <2>1, <2>2, <2>4, JsonSkipKeeps, JsonStoreKeeps DEF JsonNativeDefault
<1>9. CASE JsonNativeNull
  <2>1. status = "fields" /\ i <= Len(specs) /\ i \in 1..Len(specs)
    BY <1>0, <1>9 DEF JsonNativeNull, AtNative
  <2>2. slots[i] = None /\ None # Missing /\ None \notin Outcomes
    BY <1>9, Sentinels DEF JsonNativeNull, Outcomes
  <2>3. StockField(field, loaded, partial) = IF field.allowNone THEN None ELSE Fail
    BY <2>1, <2>2, JsonNativeOutcome DEF StockField, Deserialize
  <2>4. CASE field.allowNone /\ JsonSetLoadValue(None)
    BY <2>1, <2>2, <2>3, <2>4, JsonStoreKeeps
  <2>5. CASE ~field.allowNone /\ JsonStop("fallback")
    <3>1. StockErrs(specs, loaded, partial, i)
      BY <2>1, <2>3, <2>5 DEF StockErrs, field
    <3> QED
      BY <2>5, <3>1, JsonDeferKeeps
  <2> QED
    BY <1>9, <2>4, <2>5 DEF JsonNativeNull
<1>10. CASE JsonNativeConvert
  <2>1. /\ status = "fields" /\ i <= Len(specs) /\ i \in 1..Len(specs)
        /\ field.native /\ slots[i] \in Values
    BY <1>0, <1>10 DEF JsonNativeConvert, AtNative
  <2> DEFINE r == Apply(field, slots[i], FieldPartial(field, corePartial))
             s == StockField(field, loaded, partial)
  <2>2. /\ r = Interrupt => s = Interrupt
        /\ r \notin Outcomes /\ Check(field, r) = "pass" => s = r
        /\ r \notin Outcomes /\ Check(field, r) = "interrupt" => s = Interrupt
    BY <2>1, JsonNativeOutcome DEF ElementContract, corePartial
  <2>3. \/ r = Fail /\ JsonStop("fallback")
        \/ r = Interrupt /\ JsonStop("interrupted")
        \/ r \notin Outcomes /\ Check(field, r) = "pass" /\ JsonSetLoadValue(r)
        \/ r \notin Outcomes /\ Check(field, r) = "fail" /\ JsonStop("fallback")
        \/ r \notin Outcomes /\ Check(field, r) = "interrupt" /\ JsonStop("interrupted")
    BY <1>10 DEF JsonNativeConvert
  <2>4. CASE JsonStop("fallback") /\ (r = Fail \/ (r \notin Outcomes /\ Check(field, r) = "fail"))
    BY <2>1, <2>4, JsonDeferKeeps
  <2>5. CASE JsonStop("interrupted") /\ s = Interrupt
    BY <2>1, <2>5, JsonInterruptKeeps
  <2>6. CASE r \notin Outcomes /\ s = r /\ JsonSetLoadValue(r)
    BY <2>1, <2>6, JsonStoreKeeps
  <2> HIDE DEF r, s
  <2> QED
    BY <2>2, <2>3, <2>4, <2>5, <2>6
<1>11. CASE FieldsDone
  <2>1. /\ status = "fields" /\ i = Len(specs) + 1 /\ i - 1 = Len(specs)
        /\ status' = "include" /\ at' = 1 /\ at' - 1 = 0
        /\ UNCHANGED <<jsonCall, slots, held, i, out>>
    BY <1>0, <1>11 DEF FieldsDone
  <2>2. UNCHANGED <<specs, obj, partial, unknown, isObject>>
    BY <2>1 DEF jsonCall
  <2>3. Learned(Len(obj))' /\ Accepted(loaded, i - 1)'
    BY <2>1, <2>2, LearnedKept DEF JsonIInv, Accepted, loaded
  <2>4. HasLast(held, 0) /\ out = Copied(0)
    BY <1>0, <2>1, CopiedNothing DEF JsonIInv
  <2>5. HasLast(held', at' - 1) /\ out' = Copied(at - 1)'
    BY <2>1, <2>2, <2>4 DEF Copied, loaded
  <2>6. at' <= Len(held') + 1
    BY <1>0, <2>1 DEF JsonTypeOK
  <2> QED
    BY <1>0, <2>1, <2>2, <2>3, <2>5, <2>6 DEF JsonIInv, JsonFallbackJustified
<1>12. CASE CopyHeld
  <2>1. /\ status = "include" /\ at <= Len(held) /\ i = Len(specs) + 1
        /\ HasLast(held, at - 1) /\ out = Copied(at - 1)
        /\ out' = Put(out, <<held[at].key>>, held[at].value)
        /\ at' = at + 1 /\ at' - 1 = at
        /\ UNCHANGED <<jsonCall, slots, held, i, status>>
    BY <1>0, <1>12 DEF CopyHeld, JsonIInv
  <2>2. UNCHANGED <<specs, obj, partial, unknown, isObject>>
    BY <2>1 DEF jsonCall
  <2>3. Learned(Len(obj))' /\ Accepted(loaded, i - 1)'
    BY <2>1, <2>2, LearnedKept DEF JsonIInv, Accepted, loaded
  <2>4. HasLast(held, at) /\ out' = Copied(at)
    BY <1>0, <2>1, CopiedNext
  <2>5. HasLast(held', at' - 1) /\ out' = Copied(at - 1)'
    BY <2>1, <2>2, <2>4 DEF Copied, loaded
  <2>6. at' <= Len(held') + 1
    BY <1>0, <2>1 DEF JsonTypeOK
  <2> QED
    BY <1>0, <2>1, <2>2, <2>3, <2>5, <2>6 DEF JsonIInv, JsonFallbackJustified
<1>13. CASE Finish
  <2>1. /\ status = "include" /\ at - 1 = Len(held) /\ i = Len(specs) + 1
        /\ JsonStop("done") /\ Learned(Len(obj))
    BY <1>0, <1>13 DEF Finish, JsonIInv, JsonTypeOK
  <2>2. out = StockResult(specs, loaded, partial, unknown)
    BY <1>0, <2>1, CopiedAll DEF JsonIInv
  <2>3. UNCHANGED <<specs, obj, partial, unknown, isObject, at, slots, held, i, out>>
    BY <2>1 DEF JsonStop, jsonCall, buckets
  <2>4. Learned(Len(obj))' /\ Accepted(loaded, i - 1)'
    BY <2>1, <2>3, LearnedKept DEF JsonIInv, Accepted, loaded, jsonCall
  <2>5. out' = StockResult(specs', loaded', partial', unknown')
    BY <2>2, <2>3 DEF loaded
  <2> QED
    BY <1>0, <2>1, <2>3, <2>4, <2>5 DEF JsonIInv, JsonStop, JsonFallbackJustified
<1>14. CASE UNCHANGED jsonVars
  <2>1. UNCHANGED <<specs, obj, partial, unknown, isObject, at, slots, held, i, out, status>>
    BY <1>14 DEF jsonVars
  <2>2. /\ status = "bucket" => Learned(at - 1)'
        /\ status \in {"fields", "include", "done", "interrupted"} => Learned(Len(obj))'
    BY <2>1 DEF JsonIInv, Learned, DistinctDataKeys, UnknownPart
  <2>3. JsonFallbackJustified'
    BY <2>1 DEF JsonIInv, JsonFallbackJustified, loaded, field, DistinctDataKeys, corePartial
  <2>4. Copied(at - 1)' = Copied(at - 1) /\ loaded' = loaded /\ field' = field
    BY <2>1 DEF Copied, loaded, field
  <2> QED
    BY <1>0, <2>1, <2>2, <2>3, <2>4 DEF JsonIInv, Accepted
<1> QED
  BY <1>1, <1>2, <1>3, <1>4, <1>5, <1>6, <1>7, <1>8, <1>9, <1>10, <1>11, <1>12,
     <1>13, <1>14 DEF JsonNext

(* No step changes the schema or the partial. *)
LEMMA JsonKeptStays == [JsonNext]_jsonVars => specs' = specs /\ partial' = partial
BY DEF JsonNext, jsonVars, jsonCall, JsonEnter, BucketKnown, BucketUnknown, BucketDone,
       DeferCallback, JsonPartialSkip, JsonNativeRequired, JsonNativeDefault,
       JsonNativeNull, JsonNativeConvert, FieldsDone, CopyHeld, Finish,
       JsonStop, JsonSkip, JsonSetLoadValue

(* IInv is an invariant of the objects with partialsKept: at every point   *)
(* of the three passes the buckets and the output are what json.loads and  *)
(* stock's load have made of the same members and fields.                  *)
LEMMA JsonIInvariant == JsonSpec => [](partialsKept => JsonIInv)
<1>1. JsonInit => JsonIInv
  <2> SUFFICES ASSUME JsonInit PROVE JsonIInv
    OBVIOUS
  <2>1. JsonTypeOK
    BY SchemasType DEF JsonInit, JsonTypeOK, JsonStatuses
  <2> QED
    BY <2>1 DEF JsonInit, JsonIInv, JsonFallbackJustified
<1>2. (partialsKept => JsonIInv) /\ [JsonNext]_jsonVars => (partialsKept => JsonIInv)'
  <2>1. [JsonNext]_jsonVars => (partialsKept' <=> partialsKept)
    BY JsonKeptStays DEF partialsKept
  <2> QED
    BY <2>1, JsonIInvStep
<1> QED
  BY <1>1, <1>2, PTL DEF JsonSpec

-----------------------------------------------------------------------------
(* An object the fused loop completes is one that json.loads and stock's   *)
(* load accept with the same output, for every schema level, object with   *)
(* repeated and unknown keys, unknown and partial that the core hands on   *)
(* as stock does.                                                          *)
THEOREM JsonLoopMatchesStock == JsonSpec => []JsonDoneMatchesStock
<1>1. (partialsKept => JsonIInv) => JsonDoneMatchesStock
  <2> SUFFICES ASSUME JsonIInv, status = "done"
               PROVE  /\ ~StockRaises(specs, loaded, partial, unknown)
                      /\ out = StockResult(specs, loaded, partial, unknown)
    BY DEF JsonDoneMatchesStock
  <2>1. Len(specs) \in Nat /\ i - 1 = Len(specs)
    BY SchemasType DEF JsonIInv, JsonTypeOK
  <2>2. unknown = "raise" => UnknownKeys(specs, loaded) = {}
    BY DEF JsonIInv, Learned, loaded
  <2> QED
    BY <2>1, <2>2 DEF JsonIInv, Accepted, StockRaises, RaisesUnknown
<1> QED
  BY <1>1, JsonIInvariant, PTL

(* The fused loop lets an interrupt through only where stock would raise   *)
(* it.                                                                     *)
THEOREM JsonInterruptsMatchStock == JsonSpec => []JsonInterruptMatchesStock
<1>1. (partialsKept => JsonIInv) => JsonInterruptMatchesStock
  BY DEF JsonIInv, Accepted, JsonInterruptMatchesStock
<1> QED
  BY <1>1, JsonIInvariant, PTL

(* The fused loop defers only for a reason that FallbackJustified names.   *)
THEOREM JsonFallbacksAreJustified == JsonSpec => []JsonFallbackJustified
<1>1. (partialsKept => JsonIInv) => JsonFallbackJustified
  BY DEF JsonIInv, JsonFallbackJustified
<1> QED
  BY <1>1, JsonIInvariant, PTL
=============================================================================
