------------------------- MODULE LoadElementProofs -------------------------
(***************************************************************************)
(* Proofs about LoadElement, for fields and values of every depth: the     *)
(* core's elements make of a value, from a dict or off the JSON tree, what *)
(* marshmallow's fields make of it, or leave it to them.                   *)
(***************************************************************************)
EXTENDS LoadElement, FiniteSetTheorems, SequenceTheorems, TLAPS

-----------------------------------------------------------------------------
(***************************************************************************)
(* The recursive definitions, level by level.                              *)
(***************************************************************************)
ValuesStep(inner, n) == ValuesOf(inner)
JsonStep(inner, n) == JsonOf(inner)
FieldsStep(inner, n) == FieldsOf(inner)
PlainStep(inner, n) ==
  {f \in FieldsTo[n] : /\ PlainEnum(f) /\ PlainHook(f) /\ PlainBoolean(f)
                       /\ \A j \in DOMAIN f.inner : f.inner[j] \in inner}
KeylessStep(inner, n) ==
  {f \in FieldsTo[n] : /\ f.kind = "Dict" => f.inner[1] = NoField
                       /\ \A j \in DOMAIN f.inner : f.inner[j] \in inner}
HashableKeysStep(inner, n) ==
  {f \in FieldsTo[n] : /\ f.kind = "Dict" => f.inner[1].kind # "Pluck"
                       /\ \A j \in DOMAIN f.inner : f.inner[j] \in inner}
UniformStep(inner, n) ==
  {jv \in JsonTo[n] : /\ jv.t = "dict" => UniformKeys(jv)
                      /\ \A j \in DOMAIN jv.c : jv.c[j].v \in inner}

VI == INSTANCE Iteration WITH Base <- {}, Step <- ValuesStep
JI == INSTANCE Iteration WITH Base <- {}, Step <- JsonStep
TI == INSTANCE Iteration WITH Base <- <<>>, Step <- JsonToPyLevel
FI == INSTANCE Iteration WITH Base <- {}, Step <- FieldsStep
DI == INSTANCE Iteration WITH Base <- <<>>, Step <- DeserializeLevel
EI == INSTANCE Iteration WITH Base <- <<>>, Step <- ElementsLevel
JE == INSTANCE Iteration WITH Base <- <<>>, Step <- JsonElementsLevel
UI == INSTANCE Iteration WITH Base <- {}, Step <- FusableLevel
CI == INSTANCE Iteration WITH Base <- {}, Step <- ConsumesLevel
PI == INSTANCE Iteration WITH Base <- {}, Step <- PlainStep
KI == INSTANCE Iteration WITH Base <- {}, Step <- KeylessStep
HI == INSTANCE Iteration WITH Base <- {}, Step <- HashableKeysStep
NI == INSTANCE Iteration WITH Base <- {}, Step <- UniformStep

(* Induction over the levels, for a set of them. *)
LEMMA LevelInduction ==
  ASSUME NEW T, 0 \in T, \A n \in Nat : n \in T => n + 1 \in T
  PROVE  Nat \subseteq T
BY VI!SetInduction

(* The equation of ValuesTo. *)
LEMMA ValuesUnfold ==
  /\ ValuesTo[0] = {}
  /\ \A n \in Nat : ValuesTo[n + 1] = ValuesOf(ValuesTo[n])
<1>1. ValuesTo = VI!Iter
  BY DEF ValuesTo, VI!Iter, ValuesStep
<1> QED
  BY <1>1, VI!Unfold DEF ValuesStep

(* The equation of JsonTo. *)
LEMMA JsonUnfold ==
  /\ JsonTo[0] = {}
  /\ \A n \in Nat : JsonTo[n + 1] = JsonOf(JsonTo[n])
<1>1. JsonTo = JI!Iter
  BY DEF JsonTo, JI!Iter, JsonStep
<1> QED
  BY <1>1, JI!Unfold DEF JsonStep

(* The equation of JsonToPyTo. *)
LEMMA JsonToPyUnfold ==
  /\ JsonToPyTo[0] = <<>>
  /\ \A n \in Nat : JsonToPyTo[n + 1] = JsonToPyLevel(JsonToPyTo[n], n + 1)
<1>1. JsonToPyTo = TI!Iter
  BY DEF JsonToPyTo, TI!Iter
<1> QED
  BY <1>1, TI!Unfold

(* The equation of FieldsTo. *)
LEMMA FieldsUnfold ==
  /\ FieldsTo[0] = {}
  /\ \A n \in Nat : FieldsTo[n + 1] = FieldsOf(FieldsTo[n])
<1>1. FieldsTo = FI!Iter
  BY DEF FieldsTo, FI!Iter, FieldsStep
<1> QED
  BY <1>1, FI!Unfold DEF FieldsStep

(* The equation of DeserializeTo. *)
LEMMA DeserializeUnfold ==
  /\ DeserializeTo[0] = <<>>
  /\ \A n \in Nat : DeserializeTo[n + 1] = DeserializeLevel(DeserializeTo[n], n + 1)
<1>1. DeserializeTo = DI!Iter
  BY DEF DeserializeTo, DI!Iter
<1> QED
  BY <1>1, DI!Unfold

(* The equation of Elements. *)
LEMMA ElementsUnfold ==
  /\ Elements[0] = <<>>
  /\ \A n \in Nat : Elements[n + 1] = ElementsLevel(Elements[n], n + 1)
<1>1. Elements = EI!Iter
  BY DEF Elements, EI!Iter
<1> QED
  BY <1>1, EI!Unfold

(* The equation of JsonElements. *)
LEMMA JsonElementsUnfold ==
  /\ JsonElements[0] = <<>>
  /\ \A n \in Nat : JsonElements[n + 1] = JsonElementsLevel(JsonElements[n], n + 1)
<1>1. JsonElements = JE!Iter
  BY DEF JsonElements, JE!Iter
<1> QED
  BY <1>1, JE!Unfold

(* The equation of Fusable. *)
LEMMA FusableUnfold ==
  /\ Fusable[0] = {}
  /\ \A n \in Nat : Fusable[n + 1] = FusableLevel(Fusable[n], n + 1)
<1>1. Fusable = UI!Iter
  BY DEF Fusable, UI!Iter
<1> QED
  BY <1>1, UI!Unfold

(* The equation of ConsumesPartial. *)
LEMMA ConsumesUnfold ==
  /\ ConsumesPartial[0] = {}
  /\ \A n \in Nat : ConsumesPartial[n + 1] = ConsumesLevel(ConsumesPartial[n], n + 1)
<1>1. ConsumesPartial = CI!Iter
  BY DEF ConsumesPartial, CI!Iter
<1> QED
  BY <1>1, CI!Unfold

(* The equation of PlainTo. *)
LEMMA PlainUnfold ==
  /\ PlainTo[0] = {}
  /\ \A n \in Nat : PlainTo[n + 1] = PlainStep(PlainTo[n], n + 1)
<1>1. PlainTo = PI!Iter
  BY DEF PlainTo, PI!Iter, PlainStep
<1> QED
  BY <1>1, PI!Unfold

(* The equation of KeylessTo. *)
LEMMA KeylessUnfold ==
  /\ KeylessTo[0] = {}
  /\ \A n \in Nat : KeylessTo[n + 1] = KeylessStep(KeylessTo[n], n + 1)
<1>1. KeylessTo = KI!Iter
  BY DEF KeylessTo, KI!Iter, KeylessStep
<1> QED
  BY <1>1, KI!Unfold

(* The equation of HashableKeysTo. *)
LEMMA HashableKeysUnfold ==
  /\ HashableKeysTo[0] = {}
  /\ \A n \in Nat : HashableKeysTo[n + 1] = HashableKeysStep(HashableKeysTo[n], n + 1)
<1>1. HashableKeysTo = HI!Iter
  BY DEF HashableKeysTo, HI!Iter, HashableKeysStep
<1> QED
  BY <1>1, HI!Unfold

(* The equation of UniformTo. *)
LEMMA UniformUnfold ==
  /\ UniformTo[0] = {}
  /\ \A n \in Nat : UniformTo[n + 1] = UniformStep(UniformTo[n], n + 1)
<1>1. UniformTo = NI!Iter
  BY DEF UniformTo, NI!Iter, UniformStep
<1> QED
  BY <1>1, NI!Unfold

-----------------------------------------------------------------------------
(***************************************************************************)
(* How values nest, those of a dict and those of the JSON tree.            *)
(***************************************************************************)
Pairs(inner) == [k: inner, v: inner]
Members(inner) == [k: Keys, v: inner]

LEMMA ValueParts ==
  ASSUME NEW n \in Nat, NEW v \in ValuesTo[n]
  PROVE  /\ n # 0 /\ n - 1 \in Nat /\ v.t \in STRING /\ v.a \in STRING /\ WellFormed(v)
         /\ v.c \in Seq(Pairs(ValuesTo[n - 1]))
         /\ Len(v.c) \in Nat /\ DOMAIN v.c = 1..Len(v.c)
         /\ \A j \in DOMAIN v.c : v.c[j] \in Pairs(ValuesTo[n - 1])
         /\ v = [t |-> v.t, a |-> v.a, c |-> v.c]
<1>1. n # 0 /\ n - 1 \in Nat
  BY ValuesUnfold
<1>2. v \in ValuesOf(ValuesTo[n - 1])
  BY <1>1, ValuesUnfold, (n - 1) + 1 = n
<1>3. v.c \in Seq(Pairs(ValuesTo[n - 1])) /\ WellFormed(v) /\ v \in [t: STRING, a: STRING, c: Seq(Pairs(ValuesTo[n - 1]))]
  BY <1>2 DEF ValuesOf, Pairs
<1>4. Len(v.c) \in Nat /\ DOMAIN v.c = 1..Len(v.c)
      /\ \A j \in DOMAIN v.c : v.c[j] \in Pairs(ValuesTo[n - 1])
  BY <1>3
<1> QED
  BY <1>1, <1>3, <1>4

(* A well-formed value around values of n levels has n + 1. *)
LEMMA ValueMade ==
  ASSUME NEW n \in Nat, NEW t \in STRING, NEW a \in STRING,
         NEW c \in Seq(Pairs(ValuesTo[n])), WellFormed([t |-> t, a |-> a, c |-> c])
  PROVE  [t |-> t, a |-> a, c |-> c] \in ValuesTo[n + 1]
BY ValuesUnfold DEF ValuesOf, Pairs

(* A value of n levels is one of n + 1. *)
LEMMA ValuesNext ==
  ASSUME NEW n \in Nat
  PROVE  ValuesTo[n] \subseteq ValuesTo[n + 1]
<1> DEFINE T == {m \in Nat : ValuesTo[m] \subseteq ValuesTo[m + 1]}
<1>1. 0 \in T
  BY ValuesUnfold
<1>2. ASSUME NEW m \in Nat, m \in T  PROVE m + 1 \in T
  <2> SUFFICES ASSUME NEW v \in ValuesTo[m + 1]  PROVE v \in ValuesTo[(m + 1) + 1]
    OBVIOUS
  <2>1. v.c \in Seq(Pairs(ValuesTo[m]))
    BY ValueParts, m + 1 \in Nat, (m + 1) - 1 = m
  <2>2. Pairs(ValuesTo[m]) \subseteq Pairs(ValuesTo[m + 1])
    BY <1>2 DEF Pairs
  <2>3. v.c \in Seq(Pairs(ValuesTo[m + 1]))
    BY <2>1, <2>2
  <2>4. v.t \in STRING /\ v.a \in STRING /\ WellFormed(v) /\ v = [t |-> v.t, a |-> v.a, c |-> v.c]
    BY ValueParts, m + 1 \in Nat
  <2> QED
    BY <2>3, <2>4, ValueMade, m + 1 \in Nat
<1> HIDE DEF T
<1>3. Nat \subseteq T
  BY <1>1, <1>2, LevelInduction
<1> QED
  BY <1>3 DEF T

(* The parts of a value are values. *)
LEMMA Parts ==
  ASSUME NEW v \in Values
  PROVE  /\ v.t \in STRING /\ v.a \in STRING /\ WellFormed(v) /\ Formed(v)
         /\ Len(v.c) \in Nat /\ DOMAIN v.c = 1..Len(v.c)
         /\ \A j \in DOMAIN v.c : v.c[j] = Entry(v.c[j].k, v.c[j].v) /\ v.c[j].k \in Values /\ v.c[j].v \in Values
         /\ v = [t |-> v.t, a |-> v.a, c |-> v.c]
<1>1. ValueDepth \in Nat \ {0} /\ ValueDepth - 1 \in Nat /\ (ValueDepth - 1) + 1 = ValueDepth
  BY DepthAssumption
<1>2. ValuesTo[ValueDepth - 1] \subseteq Values
  BY <1>1, ValuesNext DEF Values
<1>3. /\ v.t \in STRING /\ v.a \in STRING /\ WellFormed(v)
      /\ Len(v.c) \in Nat /\ DOMAIN v.c = 1..Len(v.c)
      /\ \A j \in DOMAIN v.c : v.c[j] \in Pairs(ValuesTo[ValueDepth - 1])
      /\ v = [t |-> v.t, a |-> v.a, c |-> v.c]
  BY <1>1, ValueParts DEF Values
<1> QED
  BY <1>2, <1>3 DEF Pairs, WellFormed, Entry

(* How the values of the JSON tree nest. *)
LEMMA JsonPartsOf ==
  ASSUME NEW n \in Nat, NEW jv \in JsonTo[n]
  PROVE  /\ n # 0 /\ n - 1 \in Nat /\ jv.t \in JsonTypes /\ jv.a \in STRING /\ Formed(jv)
         /\ jv.c \in Seq(Members(JsonTo[n - 1]))
         /\ Len(jv.c) \in Nat /\ DOMAIN jv.c = 1..Len(jv.c)
         /\ \A j \in DOMAIN jv.c : jv.c[j].k \in Keys /\ jv.c[j].v \in JsonTo[n - 1]
         /\ \A j \in DOMAIN jv.c : jv.c[j] = Entry(jv.c[j].k, jv.c[j].v)
         /\ jv.t = "dict" => \A j \in DOMAIN jv.c : jv.c[j].k.t = "str"
         /\ jv = [t |-> jv.t, a |-> jv.a, c |-> jv.c]
<1>1. n # 0 /\ n - 1 \in Nat
  BY JsonUnfold
<1>2. jv \in JsonOf(JsonTo[n - 1])
  BY <1>1, JsonUnfold, (n - 1) + 1 = n
<1>3. /\ jv \in [t: JsonTypes, a: STRING, c: Seq(Members(JsonTo[n - 1]))]
      /\ Formed(jv) /\ (jv.t = "dict" => \A j \in DOMAIN jv.c : jv.c[j].k.t = "str")
  BY <1>2 DEF JsonOf, Members
<1>4. Len(jv.c) \in Nat /\ DOMAIN jv.c = 1..Len(jv.c)
      /\ \A j \in DOMAIN jv.c : jv.c[j] \in Members(JsonTo[n - 1])
  BY <1>3
<1>5. \A j \in DOMAIN jv.c : /\ jv.c[j].k \in Keys /\ jv.c[j].v \in JsonTo[n - 1]
                             /\ jv.c[j] = Entry(jv.c[j].k, jv.c[j].v)
  BY <1>4 DEF Members, Entry
<1> QED
  BY <1>1, <1>3, <1>4, <1>5

(* A JSON value around those of n levels has n + 1. *)
LEMMA JsonMade ==
  ASSUME NEW n \in Nat, NEW t \in JsonTypes, NEW a \in STRING,
         NEW c \in Seq(Members(JsonTo[n])), Formed([t |-> t, a |-> a, c |-> c]),
         t = "dict" => \A j \in DOMAIN c : c[j].k.t = "str"
  PROVE  [t |-> t, a |-> a, c |-> c] \in JsonTo[n + 1]
BY JsonUnfold DEF JsonOf, Members

(* A JSON value of n levels is one of n + 1. *)
LEMMA JsonNext ==
  ASSUME NEW n \in Nat
  PROVE  JsonTo[n] \subseteq JsonTo[n + 1]
<1> DEFINE T == {m \in Nat : JsonTo[m] \subseteq JsonTo[m + 1]}
<1>1. 0 \in T
  BY JsonUnfold
<1>2. ASSUME NEW m \in Nat, m \in T  PROVE m + 1 \in T
  <2> SUFFICES ASSUME NEW jv \in JsonTo[m + 1]  PROVE jv \in JsonTo[(m + 1) + 1]
    OBVIOUS
  <2>1. jv.c \in Seq(Members(JsonTo[m]))
    BY JsonPartsOf, m + 1 \in Nat, (m + 1) - 1 = m
  <2>2. Members(JsonTo[m]) \subseteq Members(JsonTo[m + 1])
    BY <1>2 DEF Members
  <2>3. jv.c \in Seq(Members(JsonTo[m + 1]))
    BY <2>1, <2>2
  <2>4. /\ jv.t \in JsonTypes /\ jv.a \in STRING /\ Formed(jv) /\ jv = [t |-> jv.t, a |-> jv.a, c |-> jv.c]
        /\ jv.t = "dict" => \A j \in DOMAIN jv.c : jv.c[j].k.t = "str"
    BY JsonPartsOf, m + 1 \in Nat
  <2> QED
    BY <2>3, <2>4, JsonMade, m + 1 \in Nat
<1> HIDE DEF T
<1>3. Nat \subseteq T
  BY <1>1, <1>2, LevelInduction
<1> QED
  BY <1>3 DEF T

(* The parts of a JSON value are JSON values. *)
LEMMA JsonParts ==
  ASSUME NEW jv \in JsonValues
  PROVE  /\ jv.t \in JsonTypes /\ jv.a \in STRING /\ Formed(jv)
         /\ Len(jv.c) \in Nat /\ DOMAIN jv.c = 1..Len(jv.c)
         /\ \A j \in DOMAIN jv.c : /\ jv.c[j] = Entry(jv.c[j].k, jv.c[j].v)
                                   /\ jv.c[j].k \in Keys /\ jv.c[j].v \in JsonTo[ValueDepth - 1]
                                   /\ jv.c[j].v \in JsonValues
         /\ jv.t = "dict" => \A j \in DOMAIN jv.c : jv.c[j].k.t = "str"
         /\ jv = [t |-> jv.t, a |-> jv.a, c |-> jv.c]
<1>1. ValueDepth \in Nat \ {0} /\ ValueDepth - 1 \in Nat /\ (ValueDepth - 1) + 1 = ValueDepth
  BY DepthAssumption
<1>2. JsonTo[ValueDepth - 1] \subseteq JsonValues
  BY <1>1, JsonNext DEF JsonValues
<1> QED
  BY <1>1, <1>2, JsonPartsOf DEF JsonValues

-----------------------------------------------------------------------------
(* What stops a sequence of outcomes first. *)
LEMMA FirstFound ==
  ASSUME NEW n \in Nat, NEW outs, DOMAIN outs = 1..n, NEW kinds, Some(outs, kinds)
  PROVE  \E k \in 1..n : /\ FirstIn(outs, kinds) = outs[k] /\ outs[k].o \in kinds
                         /\ \A l \in 1..k - 1 : outs[l].o \notin kinds
<1> DEFINE T == {k \in 1..n : outs[k].o \in kinds}
           First(k) == outs[k].o \in kinds /\ \A l \in 1..k - 1 : outs[l].o \notin kinds
<1>1. T \in SUBSET Nat /\ T # {}
  BY DEF Some
<1>2. PICK k \in T : \A m \in T : k <= m
  BY <1>1, VI!LeastNat
<1>3. k \in DOMAIN outs /\ First(k)
  BY <1>2
<1>4. FirstIn(outs, kinds) = outs[CHOOSE j \in DOMAIN outs : First(j)]
  BY DEF FirstIn
<1> HIDE DEF First, T
<1>5. (CHOOSE j \in DOMAIN outs : First(j)) \in DOMAIN outs /\ First(CHOOSE j \in DOMAIN outs : First(j))
  BY <1>3
<1> QED
  BY <1>4, <1>5 DEF First

(* The last of numbers. *)
LEMMA GreatestNat ==
  ASSUME NEW n \in Nat, NEW K \in SUBSET (1..n), K # {}
  PROVE  \E k \in K : \A j \in K : j <= k
<1> DEFINE T == {n - k : k \in K}
<1>0. T \in SUBSET Nat /\ T # {}
  <2>1. \A k \in K : n - k \in Nat
    OBVIOUS
  <2>2. PICK k \in K : TRUE
    OBVIOUS
  <2>3. n - k \in T
    OBVIOUS
  <2> QED
    BY <2>1, <2>3
<1>1. PICK m \in T : \A l \in T : m <= l
  BY <1>0, VI!LeastNat
<1>2. PICK k \in K : m = n - k
  BY <1>1
<1>3. \A j \in K : n - k <= n - j
  BY <1>1, <1>2
<1>4. \A j \in K : j <= k
  <2> SUFFICES ASSUME NEW j \in K  PROVE j <= k
    OBVIOUS
  <2>1. n - k <= n - j /\ j \in Nat /\ k \in Nat
    BY <1>3
  <2> QED
    BY <2>1
<1> QED
  BY <1>4

(* The last of a set of positions is one of them, and none is after it. *)
LEMMA LastMade ==
  ASSUME NEW n \in Nat, NEW K \in SUBSET (1..n), K # {}
  PROVE  LastOf(K) \in K /\ \A j \in K : j <= LastOf(K)
<1> DEFINE Final(k) == \A j \in K : j <= k
<1>1. \E k \in K : Final(k)
  BY GreatestNat
<1>2. LastOf(K) = CHOOSE k \in K : Final(k)
  BY DEF LastOf
<1> HIDE DEF Final
<1>3. LastOf(K) \in K /\ Final(LastOf(K))
  BY <1>1, <1>2
<1> QED
  BY <1>3 DEF Final

(* Numbers can be put in order. *)
LEMMA InOrderMade ==
  ASSUME NEW n \in Nat, NEW K \in SUBSET (1..n)
  PROVE  /\ Cardinality(K) \in Nat /\ InOrder(K) \in [1..Cardinality(K) -> K]
         /\ \A i, j \in 1..Cardinality(K) : i < j => InOrder(K)[i] < InOrder(K)[j]
         /\ \A k \in K : \E i \in 1..Cardinality(K) : InOrder(K)[i] = k
<1> DEFINE Increases(s) == \A i, j \in DOMAIN s : i < j => s[i] < s[j]
           Orders(s, L) == s \in [1..Cardinality(L) -> L] /\ Increases(s)
           T == {m \in Nat : \A L \in SUBSET (1..m) : IsFiniteSet(L) /\ Cardinality(L) \in Nat /\ \E s : Orders(s, L)}
<1>1. 0 \in T
  <2>1. \A L \in SUBSET (1..0) : L = {}
    OBVIOUS
  <2>2. Cardinality({}) = 0 /\ IsFiniteSet({})
    BY FS_EmptySet
  <2>3. <<>> \in [1..0 -> {}] /\ Increases(<<>>)
    OBVIOUS
  <2>4. Orders(<<>>, {})
    BY <2>2, <2>3
  <2> HIDE DEF Orders
  <2>5. \A L \in SUBSET (1..0) : IsFiniteSet(L) /\ Cardinality(L) \in Nat /\ \E s : Orders(s, L)
    <3> SUFFICES ASSUME NEW L \in SUBSET (1..0)
                 PROVE  IsFiniteSet(L) /\ Cardinality(L) \in Nat /\ \E s : Orders(s, L)
      OBVIOUS
    <3>1. L = {}
      BY <2>1
    <3> QED
      BY <2>2, <2>4, <3>1
  <2> QED
    BY <2>5
<1>2. ASSUME NEW m \in Nat, m \in T  PROVE m + 1 \in T
  <2> SUFFICES ASSUME NEW L \in SUBSET (1..m + 1)
               PROVE  IsFiniteSet(L) /\ Cardinality(L) \in Nat /\ \E s : Orders(s, L)
    OBVIOUS
  <2>1. CASE m + 1 \notin L
    <3>1. L \in SUBSET (1..m)
      BY <2>1
    <3> QED
      BY <1>2, <3>1
  <2>2. CASE m + 1 \in L
    <3> DEFINE B == L \ {m + 1}
               c == Cardinality(B)
    <3>1. B \in SUBSET (1..m) /\ L = B \cup {m + 1} /\ m + 1 \notin B
      BY <2>2
    <3>2. IsFiniteSet(B) /\ c \in Nat
      BY <1>2, <3>1
    <3>3. PICK s : Orders(s, B)
      BY <1>2, <3>1
    <3>4. IsFiniteSet(L) /\ Cardinality(L) = c + 1
      BY <3>1, <3>2, FS_AddElement
    <3> DEFINE t == [i \in 1..c + 1 |-> IF i = c + 1 THEN m + 1 ELSE s[i]]
    <3> HIDE DEF c
    <3>5. \A i \in 1..c : s[i] \in B /\ s[i] < m + 1
      <4> SUFFICES ASSUME NEW i \in 1..c  PROVE s[i] \in B /\ s[i] < m + 1
        OBVIOUS
      <4>1. s \in [1..c -> B]
        BY <3>3 DEF c
      <4> HIDE DEF B
      <4>2. s[i] \in B
        BY <4>1
      <4>3. s[i] \in 1..m
        BY <3>1, <4>2
      <4> QED
        BY <4>2, <4>3
    <3>6. t \in [1..c + 1 -> L]
      BY <2>2, <3>2, <3>5
    <3>7. ASSUME NEW i \in 1..c + 1, NEW j \in 1..c + 1, i < j  PROVE t[i] < t[j]
      <4>1. i \in 1..c /\ (j = c + 1 \/ j \in 1..c)
        BY <3>2, <3>7
      <4>2. i \in DOMAIN s /\ (j \in 1..c => j \in DOMAIN s)
        BY <3>3, <4>1 DEF c
      <4>3. j \in 1..c => s[i] < s[j]
        BY <3>3, <3>7, <4>2
      <4> QED
        BY <3>2, <3>5, <4>1, <4>3
    <3>8. Orders(t, L)
      BY <3>4, <3>6, <3>7
    <3> HIDE DEF Orders, t
    <3> QED
      BY <3>2, <3>4, <3>8
  <2> QED
    BY <2>1, <2>2
<1> HIDE DEF T
<1>3. n \in T
  BY <1>1, <1>2, LevelInduction
<1>4. IsFiniteSet(K) /\ Cardinality(K) \in Nat /\ \E s \in [1..Cardinality(K) -> K] : Increases(s)
  BY <1>3 DEF T
<1>5. InOrder(K) = CHOOSE s \in [1..Cardinality(K) -> K] : Increases(s)
  BY DEF InOrder
<1> DEFINE c == Cardinality(K)
           o == InOrder(K)
<1> HIDE DEF c, o
<1>6. c \in Nat /\ o \in [1..c -> K] /\ Increases(o)
  BY <1>4, <1>5 DEF c, o
<1>11. \A i, j \in 1..c : i < j => o[i] < o[j]
  BY <1>6
<1>7. \A i, j \in 1..c : o[i] = o[j] => i = j
  <2> SUFFICES ASSUME NEW i \in 1..c, NEW j \in 1..c, o[i] = o[j]  PROVE i = j
    OBVIOUS
  <2>1. i \in DOMAIN o /\ j \in DOMAIN o /\ o[i] \in K
    BY <1>6
  <2>2. (i < j => o[i] < o[j]) /\ (j < i => o[j] < o[i])
    BY <1>6, <2>1
  <2>3. o[i] \in 1..n
    BY <2>1
  <2> QED
    BY <2>2, <2>3
<1> HIDE DEF Increases
<1>8. o \in Injection(1..c, K)
  <2>1. o \in [1..c -> K]
    BY <1>6
  <2> QED
    BY <1>7, <2>1 DEF Injection, IsInjective
<1>9. Cardinality(1..c) = Cardinality(K)
  BY <1>6, FS_Interval DEF c
<1>10. o \in Surjection(1..c, K)
  BY <1>4, <1>8, <1>9, FS_Injection
<1> QED
  BY <1>6, <1>10, <1>11 DEF Surjection, c, o
(* Numbers up to n in order are each in its place. *)
LEMMA InOrderAll ==
  ASSUME NEW n \in Nat
  PROVE  DOMAIN InOrder(1..n) = 1..n /\ \A i \in 1..n : InOrder(1..n)[i] = i
<1> DEFINE o == InOrder(1..n)
<1>1. Cardinality(1..n) = n
  BY FS_Interval
<1>2. o \in [1..n -> 1..n] /\ \A i, j \in 1..n : i < j => o[i] < o[j]
  BY <1>1, InOrderMade
<1> HIDE DEF o
<1> DEFINE Up == {m \in Nat : m \in 1..n => m <= o[m]}
           Down == {m \in Nat : n - m \in 1..n => o[n - m] <= n - m}
<1>3. 0 \in Up /\ 0 \in Down
  BY <1>2
<1>4. ASSUME NEW m \in Nat, m \in Up  PROVE m + 1 \in Up
  <2> SUFFICES ASSUME m + 1 \in 1..n  PROVE m + 1 <= o[m + 1]
    OBVIOUS
  <2>1. o[m + 1] \in 1..n
    BY <1>2
  <2>2. CASE m = 0
    BY <2>1, <2>2
  <2>3. CASE m # 0
    <3>1. m \in 1..n /\ m < m + 1
      BY <2>3
    <3>2. o[m] \in 1..n /\ o[m] < o[m + 1] /\ m <= o[m]
      BY <1>2, <1>4, <3>1
    <3> QED
      BY <2>1, <3>2
  <2> QED
    BY <2>2, <2>3
<1>5. ASSUME NEW m \in Nat, m \in Down  PROVE m + 1 \in Down
  <2> SUFFICES ASSUME n - (m + 1) \in 1..n  PROVE o[n - (m + 1)] <= n - (m + 1)
    OBVIOUS
  <2>1. n - (m + 1) < n - m /\ n - m \in 1..n
    OBVIOUS
  <2>2. o[n - (m + 1)] \in 1..n /\ o[n - m] \in 1..n /\ o[n - (m + 1)] < o[n - m]
    BY <1>2, <2>1
  <2>3. o[n - m] <= n - m
    BY <1>5, <2>1
  <2> QED
    BY <2>2, <2>3
<1> HIDE DEF Up, Down
<1>6. Nat \subseteq Up /\ Nat \subseteq Down
  BY <1>3, <1>4, <1>5, LevelInduction
<1>7. ASSUME NEW i \in 1..n  PROVE o[i] = i
  <2>1. i \in Up /\ n - i \in Down /\ n - (n - i) = i
    BY <1>6
  <2>2. i <= o[i] /\ o[i] <= i
    BY <2>1 DEF Up, Down
  <2> QED
    BY <1>2, <2>2
<1> QED
  BY <1>2, <1>7 DEF o

-----------------------------------------------------------------------------
(***************************************************************************)
(* What is assigned entry by entry.                                        *)
(***************************************************************************)

(* The fields of the records that values and outcomes are. *)
LEMMA DictOfIs ==
  ASSUME NEW c
  PROVE  DictOf(c) = [t |-> "dict", a |-> "", c |-> c] /\ DictOf(c).t = "dict" /\ DictOf(c).c = c
BY DEF DictOf, Container

LEMMA ListOfIs ==
  ASSUME NEW type, NEW vals, NEW l \in Nat, DOMAIN vals = 1..l
  PROVE  /\ ListOf(type, vals).t = type /\ DOMAIN ListOf(type, vals).c = 1..l /\ Len(ListOf(type, vals).c) = l
         /\ \A j \in 1..l : ListOf(type, vals).c[j] = Entry(Unkeyed, vals[j]) /\ ListOf(type, vals).c[j].v = vals[j]
<1> DEFINE c == [j \in DOMAIN vals |-> Entry(Unkeyed, vals[j])]
<1>1. DOMAIN c = 1..l /\ Len(c) = l /\ \A j \in 1..l : c[j] = Entry(Unkeyed, vals[j]) /\ c[j].v = vals[j]
  BY DEF Entry
<1> HIDE DEF c
<1>2. ListOf(type, vals).t = type /\ ListOf(type, vals).c = c
  BY DEF ListOf, Container, c
<1> QED
  BY <1>1, <1>2

LEMMA OkIs ==
  ASSUME NEW v
  PROVE  Ok(v).v = v /\ Ok(v).o = "ok"
BY DEF Ok

(* Where the first and the last of the entries with a key are. *)
FirstPlaces(keys) == {j \in DOMAIN keys : \A l \in Same(keys, j) : j <= l}
Firsts(keys) == InOrder(FirstPlaces(keys))
Lasts(keys) == [i \in DOMAIN Firsts(keys) |-> LastOf(Same(keys, Firsts(keys)[i]))]

LEMMA AssignedIs ==
  ASSUME NEW keys, NEW vals
  PROVE  Assigned(keys, vals) =
           IF \E j \in DOMAIN keys : ~Hashable(keys[j]) THEN Raise
           ELSE Ok(DictOf([i \in DOMAIN Firsts(keys) |-> Entry(keys[Firsts(keys)[i]], vals[Lasts(keys)[i]])]))
BY DEF Assigned, Firsts, Lasts, FirstPlaces

(* Python's == of values is symmetric. *)
LEMMA PyEqSymmetric ==
  ASSUME NEW v, NEW w, PyEq(v, w)
  PROVE  PyEq(w, v)
<1>1. {v.t, w.t} = {w.t, v.t}
  OBVIOUS
<1> QED
  BY <1>1 DEF PyEq

(* Of strings it is equality. *)
LEMMA PyEqString ==
  ASSUME NEW v, NEW w, v.t = "str" \/ w.t = "str"
  PROVE  PyEq(v, w) <=> v = w
BY DEF PyEq

(* The places are places of keys; the keys at the first places are not equal. *)
LEMMA PlacesMade ==
  ASSUME NEW l \in Nat, NEW keys, DOMAIN keys = 1..l
  PROVE  /\ \E m \in Nat : DOMAIN Firsts(keys) = 1..m /\ DOMAIN Lasts(keys) = 1..m
         /\ \A i \in DOMAIN Firsts(keys) :
              /\ Firsts(keys)[i] \in 1..l /\ Lasts(keys)[i] \in 1..l
              /\ Lasts(keys)[i] = Firsts(keys)[i] \/ PyEq(keys[Lasts(keys)[i]], keys[Firsts(keys)[i]])
              /\ Lasts(keys)[i] = LastOf(Same(keys, Firsts(keys)[i]))
         /\ \A i, j \in DOMAIN Firsts(keys) : PyEq(keys[Firsts(keys)[i]], keys[Firsts(keys)[j]]) => i = j
<1> DEFINE K == FirstPlaces(keys)
           o == Firsts(keys)
           m == Cardinality(K)
<1>1. K \in SUBSET (1..l) /\ \A i, j \in K : j \in Same(keys, i) => i <= j
  BY DEF FirstPlaces
<1> HIDE DEF K
<1>2. m \in Nat /\ o \in [1..m -> K] /\ \A i, j \in 1..m : i < j => o[i] < o[j]
  BY <1>1, InOrderMade DEF Firsts, K
<1> HIDE DEF o, m
<1>3. ASSUME NEW i \in 1..m
      PROVE  /\ o[i] \in 1..l /\ LastOf(Same(keys, o[i])) \in 1..l
             /\ LastOf(Same(keys, o[i])) = o[i] \/ PyEq(keys[LastOf(Same(keys, o[i]))], keys[o[i]])
  <2>1. o[i] \in 1..l
    BY <1>1, <1>2
  <2>2. Same(keys, o[i]) \in SUBSET (1..l) /\ o[i] \in Same(keys, o[i])
    BY <2>1 DEF Same
  <2>3. LastOf(Same(keys, o[i])) \in Same(keys, o[i])
    BY <2>2, LastMade
  <2> QED
    BY <2>1, <2>2, <2>3 DEF Same
<1>4. ASSUME NEW i \in 1..m, NEW j \in 1..m, PyEq(keys[o[i]], keys[o[j]])
      PROVE  i = j
  <2>1. o[i] \in K /\ o[j] \in K /\ o[i] \in 1..l /\ o[j] \in 1..l
    BY <1>1, <1>2
  <2>2. PyEq(keys[o[j]], keys[o[i]])
    BY <1>4, PyEqSymmetric
  <2>3. o[i] \in Same(keys, o[j]) /\ o[j] \in Same(keys, o[i])
    BY <1>4, <2>1, <2>2 DEF Same
  <2>4. o[i] = o[j]
    BY <1>1, <2>1, <2>3
  <2>5. ~(i < j) /\ ~(j < i)
    BY <1>2, <2>1, <2>4
  <2> QED
    BY <1>2, <2>5
<1>5. DOMAIN o = 1..m /\ Lasts(keys) = [i \in DOMAIN o |-> LastOf(Same(keys, o[i]))]
  BY <1>2 DEF Lasts, o
<1> QED
  BY <1>2, <1>3, <1>4, <1>5 DEF o

(* Distinct keys: every entry stays where it is. *)
LEMMA DistinctAssigned ==
  ASSUME NEW l \in Nat, NEW keys, NEW vals, DOMAIN keys = 1..l,
         \A j \in 1..l : Hashable(keys[j]),
         \A i, j \in 1..l : PyEq(keys[i], keys[j]) => i = j
  PROVE  Assigned(keys, vals) = Ok(DictOf([j \in 1..l |-> Entry(keys[j], vals[j])]))
<1>1. \A j \in 1..l : Same(keys, j) = {j}
  BY DEF Same
<1>2. FirstPlaces(keys) = 1..l
  BY <1>1 DEF FirstPlaces
<1>3. DOMAIN Firsts(keys) = 1..l /\ \A i \in 1..l : Firsts(keys)[i] = i
  BY <1>2, InOrderAll DEF Firsts
<1>4. ASSUME NEW i \in 1..l  PROVE Lasts(keys)[i] = i
  <2>1. Lasts(keys)[i] = LastOf({i})
    BY <1>1, <1>3 DEF Lasts
  <2>2. {i} \in SUBSET (1..l) /\ {i} # {}
    OBVIOUS
  <2>3. LastOf({i}) \in {i}
    BY <2>2, LastMade
  <2> QED
    BY <2>1, <2>3
<1>5. [i \in DOMAIN Firsts(keys) |-> Entry(keys[Firsts(keys)[i]], vals[Lasts(keys)[i]])]
        = [j \in 1..l |-> Entry(keys[j], vals[j])]
  BY <1>3, <1>4
<1> QED
  BY <1>5, AssignedIs

(* One key: the last value stays. *)
LEMMA OneKeyAssigned ==
  ASSUME NEW l \in Nat \ {0}, NEW keys, NEW vals, NEW key, DOMAIN keys = 1..l,
         \A j \in 1..l : keys[j] = key, Hashable(key), PyEq(key, key)
  PROVE  Assigned(keys, vals) = Ok(DictOf(<<Entry(key, vals[l])>>))
<1>1. \A j \in 1..l : Same(keys, j) = 1..l
  BY DEF Same
<1>2. FirstPlaces(keys) = 1..1
  <2>1. FirstPlaces(keys) = {j \in 1..l : \A i \in 1..l : j <= i}
    BY <1>1 DEF FirstPlaces
  <2> QED
    BY <2>1
<1>3. DOMAIN Firsts(keys) = 1..1 /\ Firsts(keys)[1] = 1
  <2>1. DOMAIN InOrder(1..1) = 1..1 /\ InOrder(1..1)[1] = 1
    BY InOrderAll, 1 \in Nat, 1 \in 1..1
  <2> QED
    BY <1>2, <2>1 DEF Firsts
<1>4. Lasts(keys)[1] = l
  <2>1. Lasts(keys)[1] = LastOf(1..l)
    BY <1>1, <1>3 DEF Lasts
  <2>2. 1..l \in SUBSET (1..l) /\ l \in 1..l
    OBVIOUS
  <2>3. LastOf(1..l) \in 1..l /\ l <= LastOf(1..l)
    BY <2>2, LastMade
  <2> QED
    BY <2>1, <2>3
<1>5. [i \in DOMAIN Firsts(keys) |-> Entry(keys[Firsts(keys)[i]], vals[Lasts(keys)[i]])]
        = <<Entry(key, vals[l])>>
  BY <1>3, <1>4
<1> QED
  BY <1>5, AssignedIs

-----------------------------------------------------------------------------
(***************************************************************************)
(* json_to_py: what json.loads makes of a JSON value.                      *)
(***************************************************************************)
KeysOf(jv) == [j \in DOMAIN jv.c |-> jv.c[j].k]
PyVals(jv) == [j \in DOMAIN jv.c |-> JsonToPy(jv.c[j].v)]

(* JsonToPyTo, at a value. *)
LEMMA JsonToPyAt ==
  ASSUME NEW n \in Nat, NEW jv \in JsonTo[n + 1]
  PROVE  JsonToPyTo[n + 1][jv] = ToPy(JsonToPyTo[n], jv)
<1> DEFINE toPy == JsonToPyTo[n]
<1>1. JsonToPyTo[n + 1] = JsonToPyLevel(toPy, n + 1)
  BY JsonToPyUnfold
<1> HIDE DEF toPy
<1>2. JsonToPyLevel(toPy, n + 1)[jv] = ToPy(toPy, jv)
  BY DEF JsonToPyLevel
<1> QED
  BY <1>1, <1>2 DEF toPy

(* More levels than a value has make no difference. *)
LEMMA JsonToPyStable ==
  ASSUME NEW n \in Nat
  PROVE  \A jv \in JsonTo[n] : JsonToPyTo[n + 1][jv] = JsonToPyTo[n][jv]
<1> DEFINE T == {m \in Nat : \A jv \in JsonTo[m] : JsonToPyTo[m + 1][jv] = JsonToPyTo[m][jv]}
<1>1. 0 \in T
  BY JsonUnfold
<1>2. ASSUME NEW m \in Nat, m \in T  PROVE m + 1 \in T
  <2> SUFFICES ASSUME NEW jv \in JsonTo[m + 1]
               PROVE  JsonToPyTo[(m + 1) + 1][jv] = JsonToPyTo[m + 1][jv]
    OBVIOUS
  <2>1. \A j \in DOMAIN jv.c : jv.c[j].v \in JsonTo[m]
    BY JsonPartsOf, m + 1 \in Nat, (m + 1) - 1 = m
  <2>2. [j \in DOMAIN jv.c |-> JsonToPyTo[m + 1][jv.c[j].v]] = [j \in DOMAIN jv.c |-> JsonToPyTo[m][jv.c[j].v]]
    BY <1>2, <2>1
  <2>3. ToPy(JsonToPyTo[m + 1], jv) = ToPy(JsonToPyTo[m], jv)
    BY <2>2, Zenon DEF ToPy
  <2>4. jv \in JsonTo[(m + 1) + 1]
    BY JsonNext, m + 1 \in Nat
  <2>5. JsonToPyTo[(m + 1) + 1][jv] = ToPy(JsonToPyTo[m + 1], jv)
    BY <2>4, JsonToPyAt, m + 1 \in Nat
  <2>6. JsonToPyTo[m + 1][jv] = ToPy(JsonToPyTo[m], jv)
    BY JsonToPyAt
  <2> QED
    BY <2>3, <2>5, <2>6
<1> HIDE DEF T
<1>3. Nat \subseteq T
  BY <1>1, <1>2, LevelInduction
<1> QED
  BY <1>3 DEF T

(* A key of an object, and what a list has instead, is a value. *)
LEMMA KeyIsValue ==
  ASSUME NEW n \in Nat \ {0}, NEW k \in Keys
  PROVE  k \in ValuesTo[n] /\ Hashable(k) /\ WellFormed(k) /\ k = Val(k.t, k.a) /\ k.t # "evil" /\ k.c = <<>>
<1>1. k = [t |-> k.t, a |-> k.a, c |-> k.c] /\ k.c = <<>> /\ k.t \in {"", "str"} /\ k.a \in STRING
  BY DEF Keys
<1>0. k.t \in STRING
  BY <1>1, WordsAssumption DEF JsonTypes
<1>2. WellFormed(k)
  BY <1>1 DEF WellFormed, Formed, ListLike
<1>3. <<>> \in Seq(Pairs(ValuesTo[n - 1])) /\ n - 1 \in Nat /\ (n - 1) + 1 = n
  OBVIOUS
<1>4. k \in ValuesTo[n]
  <2>1. k.c \in Seq(Pairs(ValuesTo[n - 1])) /\ WellFormed([t |-> k.t, a |-> k.a, c |-> k.c])
    BY <1>1, <1>2, <1>3
  <2>2. [t |-> k.t, a |-> k.a, c |-> k.c] \in ValuesTo[(n - 1) + 1]
    BY <1>0, <1>1, <1>3, <2>1, ValueMade
  <2> QED
    BY <1>1, <1>3, <2>2
<1> QED
  BY <1>1, <1>2, <1>4 DEF Hashable, Mapping, Val

(* What a list has instead of keys. *)
LEMMA UnkeyedIsKey == Unkeyed \in Keys
  BY WordsAssumption DEF Unkeyed, Val, Keys

(* Some levels of json_to_py make a value of as many levels, which could stand in the tree. *)
LEMMA JsonToPyMade ==
  ASSUME NEW n \in Nat
  PROVE  \A jv \in JsonTo[n] : /\ JsonToPyTo[n][jv] \in ValuesTo[n] /\ JsonToPyTo[n][jv] \in JsonTo[n]
                               /\ JsonToPyTo[n][jv].t = jv.t
<1> DEFINE Is(m) == \A jv \in JsonTo[m] : /\ JsonToPyTo[m][jv] \in ValuesTo[m] /\ JsonToPyTo[m][jv] \in JsonTo[m]
                                          /\ JsonToPyTo[m][jv].t = jv.t
           T == {m \in Nat : Is(m)}
<1>1. 0 \in T
  BY JsonUnfold
<1>2. ASSUME NEW m \in Nat, m \in T  PROVE m + 1 \in T
  <2>1. ASSUME NEW jv \in JsonTo[m + 1]
        PROVE  /\ JsonToPyTo[m + 1][jv] \in ValuesTo[m + 1] /\ JsonToPyTo[m + 1][jv] \in JsonTo[m + 1]
               /\ JsonToPyTo[m + 1][jv].t = jv.t
    <3> DEFINE l == Len(jv.c)
               keys == [j \in DOMAIN jv.c |-> jv.c[j].k]
               vals == [j \in DOMAIN jv.c |-> JsonToPyTo[m][jv.c[j].v]]
               py == JsonToPyTo[m + 1][jv]
    <3>1. /\ l \in Nat /\ DOMAIN jv.c = 1..l /\ jv.t \in JsonTypes /\ jv.a \in STRING /\ Formed(jv)
          /\ \A j \in 1..l : jv.c[j].k \in Keys /\ jv.c[j].v \in JsonTo[m]
          /\ jv.t = "dict" => \A j \in 1..l : jv.c[j].k.t = "str"
          /\ jv = [t |-> jv.t, a |-> jv.a, c |-> jv.c]
      BY JsonPartsOf, m + 1 \in Nat, (m + 1) - 1 = m
    <3>2. /\ DOMAIN keys = 1..l /\ DOMAIN vals = 1..l
          /\ \A j \in 1..l : /\ keys[j] = jv.c[j].k /\ keys[j] \in Keys
                             /\ vals[j] \in ValuesTo[m] /\ vals[j] \in JsonTo[m]
      BY <1>2, <3>1
    <3>3. \A j \in 1..l : m # 0
      BY <3>1, JsonUnfold
    <3>4. py = ToPy(JsonToPyTo[m], jv)
      BY JsonToPyAt
    <3> HIDE DEF l, py
    <3>5. \A j \in 1..l : Hashable(keys[j]) /\ keys[j] \in ValuesTo[m]
      BY <3>2, <3>3, KeyIsValue
    <3>6. CASE jv.t = "dict"
      <4> DEFINE first == Firsts(keys)
                 last == Lasts(keys)
                 c == [i \in DOMAIN first |-> Entry(keys[first[i]], vals[last[i]])]
      <4>1. py = Assigned(keys, vals).v
        BY <3>4, <3>6, Zenon DEF ToPy
      <4>2. PICK k \in Nat : DOMAIN first = 1..k
        BY <3>1, <3>2, PlacesMade
      <4>3. /\ \A i \in 1..k : first[i] \in 1..l /\ last[i] \in 1..l
            /\ \A i, j \in 1..k : PyEq(keys[first[i]], keys[first[j]]) => i = j
        BY <3>1, <3>2, <4>2, PlacesMade
      <4>4. Assigned(keys, vals) = Ok(DictOf(c))
        BY <3>2, <3>5, AssignedIs, ZenonT(60)
      <4>5. py = DictOf(c)
        BY <4>1, <4>4, Ok(DictOf(c)).v = DictOf(c), ZenonT(60) DEF Ok
      <4> HIDE DEF first, last, vals, keys
      <4>6. ASSUME NEW i \in 1..k
            PROVE  /\ c[i] \in Pairs(ValuesTo[m]) /\ c[i] \in Members(JsonTo[m])
                   /\ c[i].k = keys[first[i]] /\ c[i].k.t = "str" /\ Hashable(c[i].k)
        <5>1. first[i] \in 1..l /\ last[i] \in 1..l
          BY <4>3
        <5>2. /\ keys[first[i]] \in Keys /\ keys[first[i]] \in ValuesTo[m] /\ Hashable(keys[first[i]])
              /\ vals[last[i]] \in ValuesTo[m] /\ vals[last[i]] \in JsonTo[m] /\ keys[first[i]].t = "str"
          BY <3>1, <3>2, <3>5, <3>6, <5>1
        <5>3. c[i] = Entry(keys[first[i]], vals[last[i]])
          BY <4>2
        <5> QED
          BY <5>2, <5>3 DEF Entry, Pairs, Members
      <4>7. c \in Seq(Pairs(ValuesTo[m])) /\ c \in Seq(Members(JsonTo[m])) /\ DOMAIN c = 1..k
        BY <4>2, <4>6, SMTT(40)
      <4>8. \A i, j \in 1..k : PyEq(c[i].k, c[j].k) => i = j
        BY <4>3, <4>6
      <4> HIDE DEF c
      <4>9. py = [t |-> "dict", a |-> "", c |-> c]
        BY <4>5 DEF DictOf, Container
      <4>10. Formed(py) /\ WellFormed(py)
        <5>1. py.t = "dict" /\ py.a = "" /\ py.c = c
          BY <4>9
        <5>2. Formed(py)
          BY <5>1 DEF Formed, ListLike
        <5>3. \A i \in DOMAIN c : Hashable(c[i].k) /\ \A j \in DOMAIN c : PyEq(c[i].k, c[j].k) => i = j
          BY <4>6, <4>7, <4>8
        <5> QED
          BY <5>1, <5>2, <5>3 DEF WellFormed
      <4>11. py \in ValuesTo[m + 1]
        <5>1. "dict" \in STRING /\ "" \in STRING
          BY WordsAssumption DEF JsonTypes
        <5> QED
          BY <4>7, <4>9, <4>10, <5>1, ValueMade
      <4>12. py \in JsonTo[m + 1]
        <5>1. "dict" \in JsonTypes /\ "" \in STRING /\ \A i \in DOMAIN c : c[i].k.t = "str"
          BY <4>6, <4>7, WordsAssumption DEF JsonTypes
        <5> QED
          BY <4>7, <4>9, <4>10, <5>1, JsonMade
      <4> QED
        <5>1. py \in ValuesTo[m + 1] /\ py \in JsonTo[m + 1] /\ py.t = "dict"
          BY <4>9, <4>11, <4>12
        <5> QED
          BY <3>6, <5>1 DEF py
    <3>7. CASE jv.t = "list"
      <4> DEFINE c == [j \in DOMAIN vals |-> Entry(Unkeyed, vals[j])]
      <4>1. py = ListOf("list", vals)
        BY <3>4, <3>7, Zenon DEF ToPy
      <4> HIDE DEF vals
      <4>3. \A j \in 1..l : c[j] \in Pairs(ValuesTo[m]) /\ c[j] \in Members(JsonTo[m]) /\ c[j].k = Unkeyed
        BY <3>2, <3>3, UnkeyedIsKey, KeyIsValue DEF Entry, Pairs, Members
      <4>4. c \in Seq(Pairs(ValuesTo[m])) /\ c \in Seq(Members(JsonTo[m])) /\ DOMAIN c = 1..l
        BY <3>1, <3>2, <4>3 DEF l
      <4>5. py = [t |-> "list", a |-> "", c |-> c]
        BY <4>1 DEF ListOf, Container
      <4> HIDE DEF c
      <4>6. Formed(py) /\ WellFormed(py)
        BY <4>3, <4>4, <4>5 DEF Formed, WellFormed, ListLike
      <4>7. py \in ValuesTo[m + 1]
        <5>1. "list" \in STRING /\ "" \in STRING
          BY WordsAssumption DEF JsonTypes
        <5> QED
          BY <4>4, <4>5, <4>6, <5>1, ValueMade
      <4>8. py \in JsonTo[m + 1]
        <5>1. "list" \in JsonTypes /\ "" \in STRING /\ "list" # "dict"
          BY WordsAssumption DEF JsonTypes
        <5> QED
          BY <4>4, <4>5, <4>6, <5>1, JsonMade
      <4> QED
        <5>1. py.t = "list"
          BY <4>5
        <5> QED
          BY <3>7, <4>7, <4>8, <5>1 DEF py
    <3>8. CASE jv.t \notin {"dict", "list"}
      <4>1. py = jv
        BY <3>4, <3>8, Zenon DEF ToPy
      <4>2. jv.c = <<>> /\ WellFormed(jv)
        BY <3>1, <3>8 DEF WellFormed, Formed, JsonTypes
      <4>3. jv \in ValuesTo[m + 1]
        <5>1. jv.t \in STRING
          BY <3>1, WordsAssumption
        <5>2. <<>> \in Seq(Pairs(ValuesTo[m]))
          OBVIOUS
        <5> QED
          BY <3>1, <4>2, <5>1, <5>2, ValueMade
      <4> QED
        BY <4>1, <4>3 DEF py
    <3> QED
      BY <3>6, <3>7, <3>8
  <2> QED
    BY <2>1
<1> HIDE DEF T
<1>3. Nat \subseteq T
  BY <1>1, <1>2, LevelInduction
<1> QED
  BY <1>3 DEF T

(* json_to_py, case by case. *)
LEMMA JsonToPyIs ==
  ASSUME NEW jv \in JsonValues
  PROVE  /\ jv.t = "dict" => JsonToPy(jv) = Assigned(KeysOf(jv), PyVals(jv)).v
         /\ jv.t = "list" => JsonToPy(jv) = ListOf("list", PyVals(jv))
         /\ jv.t \notin {"dict", "list"} => JsonToPy(jv) = jv
         /\ JsonToPy(jv) \in Values /\ JsonToPy(jv) \in JsonValues /\ JsonToPy(jv).t = jv.t
<1> DEFINE n == ValueDepth - 1
<1>1. n \in Nat /\ n + 1 = ValueDepth /\ ValueDepth \in Nat
  BY DepthAssumption
<1>2. \A j \in DOMAIN jv.c : jv.c[j].v \in JsonTo[n]
  BY JsonParts
<1>3. JsonToPy(jv) = JsonToPyTo[n + 1][jv] /\ jv \in JsonTo[n + 1]
  BY <1>1 DEF JsonToPy, JsonValues
<1> HIDE DEF n
<1>4. JsonToPy(jv) = ToPy(JsonToPyTo[n], jv)
  BY <1>1, <1>3, JsonToPyAt
<1>5. \A j \in DOMAIN jv.c : JsonToPyTo[n][jv.c[j].v] = JsonToPy(jv.c[j].v)
  BY <1>1, <1>2, JsonToPyStable DEF JsonToPy
<1>6. [j \in DOMAIN jv.c |-> JsonToPyTo[n][jv.c[j].v]] = PyVals(jv)
  BY <1>5 DEF PyVals
<1>7. /\ jv.t = "dict" => JsonToPy(jv) = Assigned(KeysOf(jv), PyVals(jv)).v
      /\ jv.t = "list" => JsonToPy(jv) = ListOf("list", PyVals(jv))
      /\ jv.t \notin {"dict", "list"} => JsonToPy(jv) = jv
  BY <1>4, <1>6, Zenon DEF ToPy, KeysOf
<1>8. JsonToPy(jv) \in Values /\ JsonToPy(jv) \in JsonValues /\ JsonToPy(jv).t = jv.t
  BY <1>1, JsonToPyMade DEF JsonToPy, JsonValues, Values
<1> QED
  BY <1>7, <1>8

(* A JSON value whose objects repeat no key is what json.loads makes of it. *)
LEMMA JsonToPySame ==
  ASSUME NEW jv \in JsonValues, jv \in Values
  PROVE  JsonToPy(jv) = jv
<1> DEFINE Is(m) == \A v \in JsonTo[m] : v \in Values => JsonToPyTo[m][v] = v
           T == {m \in Nat : Is(m)}
<1>1. 0 \in T
  BY JsonUnfold
<1>2. ASSUME NEW m \in Nat, m \in T  PROVE m + 1 \in T
  <2>1. ASSUME NEW v \in JsonTo[m + 1], v \in Values  PROVE JsonToPyTo[m + 1][v] = v
    <3> DEFINE l == Len(v.c)
               keys == [j \in DOMAIN v.c |-> v.c[j].k]
               vals == [j \in DOMAIN v.c |-> JsonToPyTo[m][v.c[j].v]]
               py == JsonToPyTo[m + 1][v]
    <3>1. /\ l \in Nat /\ DOMAIN v.c = 1..l /\ WellFormed(v) /\ Formed(v)
          /\ \A j \in 1..l : v.c[j] = Entry(v.c[j].k, v.c[j].v) /\ v.c[j].v \in Values
          /\ v = [t |-> v.t, a |-> v.a, c |-> v.c]
      BY <2>1, Parts
    <3>2. \A j \in 1..l : v.c[j].v \in JsonTo[m]
      BY <3>1, JsonPartsOf, m + 1 \in Nat, (m + 1) - 1 = m
    <3>3. DOMAIN vals = 1..l /\ DOMAIN keys = 1..l /\ \A j \in 1..l : vals[j] = v.c[j].v /\ keys[j] = v.c[j].k
      BY <1>2, <3>1, <3>2
    <3>4. py = ToPy(JsonToPyTo[m], v)
      BY JsonToPyAt
    <3>5. v.c = [j \in 1..l |-> Entry(v.c[j].k, v.c[j].v)]
      <4>1. v.c \in Seq(Members(JsonTo[m]))
        BY JsonPartsOf, m + 1 \in Nat, (m + 1) - 1 = m
      <4> QED
        BY <3>1, <4>1
    <3> HIDE DEF py, l
    <3>6. CASE v.t = "dict"
      <4>1. py = Assigned(keys, vals).v
        BY <3>4, <3>6, Zenon DEF ToPy
      <4>2. /\ \A j \in 1..l : Hashable(keys[j])
            /\ \A i, j \in 1..l : PyEq(keys[i], keys[j]) => i = j
        BY <3>1, <3>3, <3>6 DEF WellFormed
      <4> HIDE DEF keys, vals
      <4>3. Assigned(keys, vals) = Ok(DictOf([j \in 1..l |-> Entry(keys[j], vals[j])]))
        BY <3>1, <3>3, <4>2, DistinctAssigned, SMTT(40)
      <4>4. [j \in 1..l |-> Entry(keys[j], vals[j])] = v.c
        BY <3>3, <3>5
      <4>5. py = [t |-> "dict", a |-> "", c |-> v.c]
        <5>1. Assigned(keys, vals) = Ok(DictOf(v.c))
          BY <4>3, <4>4, Zenon
        <5>2. py = DictOf(v.c)
          BY <4>1, <5>1, OkIs, Zenon
        <5> QED
          BY <5>2, DictOfIs, Zenon
      <4> QED
        BY <3>1, <3>6, <4>5 DEF Formed, py
    <3>7. CASE v.t = "list"
      <4>1. py = ListOf("list", vals)
        BY <3>4, <3>7, Zenon DEF ToPy
      <4> HIDE DEF vals
      <4>2. [j \in DOMAIN vals |-> Entry(Unkeyed, vals[j])] = v.c
        BY <3>1, <3>3, <3>5, <3>7 DEF Formed, ListLike
      <4>3. py = [t |-> "list", a |-> "", c |-> v.c]
        BY <4>1, <4>2 DEF ListOf, Container
      <4> QED
        BY <3>1, <3>7, <4>3 DEF Formed, py
    <3>8. CASE v.t \notin {"dict", "list"}
      BY <3>4, <3>8, Zenon DEF ToPy, py
    <3> QED
      BY <3>6, <3>7, <3>8 DEF py
  <2> QED
    BY <2>1
<1> HIDE DEF T
<1>3. Nat \subseteq T
  BY <1>1, <1>2, LevelInduction
<1>4. ValueDepth \in T
  BY <1>3, DepthAssumption
<1> QED
  BY <1>4 DEF T, JsonValues, JsonToPy

(* Only null becomes None. *)
LEMMA JsonNone ==
  ASSUME NEW jv \in JsonValues
  PROVE  JsonToPy(jv) = NoneVal <=> jv = NoneVal
<1>1. JsonToPy(jv).t = jv.t /\ (jv.t = "NoneType" => JsonToPy(jv) = jv)
  BY JsonToPyIs
<1>2. NoneVal.t = "NoneType"
  BY DEF NoneVal, Val
<1> QED
  BY <1>1, <1>2

(* A list of JSON values, item by item. *)
LEMMA JsonItems ==
  ASSUME NEW jv \in JsonValues, jv.t = "list"
  PROVE  /\ DOMAIN JsonToPy(jv).c = DOMAIN jv.c /\ Len(JsonToPy(jv).c) = Len(jv.c)
         /\ \A j \in DOMAIN jv.c : JsonToPy(jv).c[j].v = JsonToPy(jv.c[j].v)
<1> DEFINE vals == PyVals(jv)
<1>1. Len(jv.c) \in Nat /\ DOMAIN jv.c = 1..Len(jv.c)
  BY JsonParts
<1>2. DOMAIN vals = DOMAIN jv.c /\ \A j \in DOMAIN jv.c : vals[j] = JsonToPy(jv.c[j].v)
  BY DEF PyVals
<1>3. JsonToPy(jv) = ListOf("list", vals)
  BY JsonToPyIs
<1> HIDE DEF vals
<1>4. /\ DOMAIN ListOf("list", vals).c = DOMAIN jv.c /\ Len(ListOf("list", vals).c) = Len(jv.c)
      /\ \A j \in DOMAIN jv.c : ListOf("list", vals).c[j].v = vals[j]
  BY <1>1, <1>2, ListOfIs
<1> QED
  BY <1>2, <1>3, <1>4

(* What an object becomes. *)
LEMMA JsonObject ==
  ASSUME NEW jv \in JsonValues, jv.t = "dict"
  PROVE  /\ DOMAIN KeysOf(jv) = DOMAIN jv.c /\ \A j \in DOMAIN jv.c : KeysOf(jv)[j] = jv.c[j].k /\ Hashable(jv.c[j].k)
         /\ JsonToPy(jv) =
              DictOf([i \in DOMAIN Firsts(KeysOf(jv)) |->
                        Entry(KeysOf(jv)[Firsts(KeysOf(jv))[i]], PyVals(jv)[Lasts(KeysOf(jv))[i]])])
<1> DEFINE c == [i \in DOMAIN Firsts(KeysOf(jv)) |->
                   Entry(KeysOf(jv)[Firsts(KeysOf(jv))[i]], PyVals(jv)[Lasts(KeysOf(jv))[i]])]
<1>1. DOMAIN KeysOf(jv) = DOMAIN jv.c /\ \A j \in DOMAIN jv.c : KeysOf(jv)[j] = jv.c[j].k
  BY DEF KeysOf
<1>2. \A j \in DOMAIN jv.c : Hashable(jv.c[j].k)
  <2>1. \A j \in DOMAIN jv.c : jv.c[j].k.t = "str"
    BY JsonParts
  <2> QED
    BY <2>1 DEF Hashable, Mapping
<1>3. Assigned(KeysOf(jv), PyVals(jv)) = Ok(DictOf(c))
  BY <1>1, <1>2, AssignedIs
<1>4. JsonToPy(jv) = Assigned(KeysOf(jv), PyVals(jv)).v
  BY JsonToPyIs
<1> HIDE DEF c
<1>5. JsonToPy(jv) = DictOf(c)
  BY <1>3, <1>4 DEF Ok
<1> QED
  BY <1>1, <1>2, <1>5 DEF c

(* Every key of an object is one of the dict. *)
LEMMA KeyKept ==
  ASSUME NEW jv \in JsonValues, jv.t = "dict", NEW j \in DOMAIN jv.c
  PROVE  \E i \in DOMAIN JsonToPy(jv).c : JsonToPy(jv).c[i].k = jv.c[j].k
<1> DEFINE keys == KeysOf(jv)
           l == Len(jv.c)
           o == Firsts(keys)
           K == FirstPlaces(keys)
<1>0. l \in Nat /\ DOMAIN jv.c = 1..l /\ \A i \in 1..l : jv.c[i].k.t = "str"
  BY JsonParts
<1>1. /\ l \in Nat /\ DOMAIN keys = 1..l /\ \A i \in 1..l : keys[i] = jv.c[i].k /\ keys[i].t = "str"
      /\ j \in 1..l /\ DOMAIN jv.c = 1..l
  BY <1>0 DEF KeysOf
<1> HIDE DEF keys, l
<1>2. Same(keys, j) \in SUBSET Nat /\ j \in Same(keys, j)
  BY <1>1 DEF Same
<1>3. PICK k \in Same(keys, j) : \A i \in Same(keys, j) : k <= i
  BY <1>2, VI!LeastNat, Same(keys, j) # {}
<1>4. k \in 1..l /\ keys[k] = keys[j]
  BY <1>1, <1>3, PyEqString DEF Same
<1>5. \A i \in Same(keys, k) : i \in Same(keys, j)
  BY <1>1, <1>4, PyEqString DEF Same
<1>6. k \in K
  BY <1>1, <1>3, <1>4, <1>5 DEF FirstPlaces
<1>7. K \in SUBSET (1..l)
  BY <1>1 DEF FirstPlaces
<1>8. PICK i \in 1..Cardinality(K) : InOrder(K)[i] = k
  BY <1>1, <1>6, <1>7, InOrderMade
<1>9. i \in DOMAIN o /\ o[i] = k
  BY <1>1, <1>7, <1>8, InOrderMade DEF Firsts
<1>10. JsonToPy(jv).c = [m \in DOMAIN o |-> Entry(keys[o[m]], PyVals(jv)[Lasts(keys)[m]])]
  <2> DEFINE c == [m \in DOMAIN o |-> Entry(keys[o[m]], PyVals(jv)[Lasts(keys)[m]])]
  <2>1. JsonToPy(jv) = DictOf(c)
    BY JsonObject DEF keys
  <2> HIDE DEF c
  <2>2. JsonToPy(jv).c = c
    BY <2>1, DictOfIs
  <2> QED
    BY <2>2 DEF c
<1>11. i \in DOMAIN JsonToPy(jv).c /\ JsonToPy(jv).c[i].k = keys[k]
  BY <1>9, <1>10 DEF Entry
<1> QED
  BY <1>1, <1>4, <1>11

(* An object without members. *)
LEMMA JsonEmpty ==
  ASSUME NEW jv \in JsonValues, jv.t = "dict", jv.c = <<>>
  PROVE  JsonToPy(jv) = jv
<1>1. DOMAIN KeysOf(jv) = 1..0
  <2>1. DOMAIN KeysOf(jv) = DOMAIN jv.c
    BY DEF KeysOf
  <2> QED
    BY <2>1
<1> DEFINE keys == KeysOf(jv)
           vals == PyVals(jv)
           c == [j \in 1..0 |-> Entry(keys[j], vals[j])]
<1>4. JsonToPy(jv) = Assigned(keys, vals).v
  BY JsonToPyIs
<1>2. Assigned(keys, vals) = Ok(DictOf(c))
  <2>1. DOMAIN keys = 1..0 /\ 0 \in Nat /\ \A j \in 1..0 : FALSE
    BY <1>1
  <2> HIDE DEF keys, vals
  <2> QED
    BY <2>1, DistinctAssigned
<1>3. c = <<>>
  OBVIOUS
<1> HIDE DEF keys, vals, c
<1>5. JsonToPy(jv) = [t |-> "dict", a |-> "", c |-> <<>>]
  <2>1. JsonToPy(jv) = DictOf(<<>>)
    BY <1>2, <1>3, <1>4, OkIs, Zenon
  <2> QED
    BY <2>1, DictOfIs, Zenon
<1>6. jv.a = "" /\ jv = [t |-> jv.t, a |-> jv.a, c |-> jv.c]
  BY JsonParts DEF Formed
<1> QED
  BY <1>5, <1>6

(* The item of a key that is there is the value of the last entry with it. *)
LEMMA GetItemMade ==
  ASSUME NEW l \in Nat, NEW c, DOMAIN c = 1..l, NEW key, HasKey(c, key)
  PROVE  \E j \in DOMAIN c : /\ GetItem(c, key) = c[j].v /\ PyEq(c[j].k, key)
                             /\ \A i \in DOMAIN c : PyEq(c[i].k, key) => i <= j
<1> DEFINE K == {j \in DOMAIN c : PyEq(c[j].k, key)}
           Final(j) == PyEq(c[j].k, key) /\ \A i \in DOMAIN c : PyEq(c[i].k, key) => i <= j
<1>1. K \in SUBSET (1..l) /\ K # {}
  BY DEF HasKey
<1>2. PICK j \in K : \A i \in K : i <= j
  BY <1>1, GreatestNat
<1>3. j \in DOMAIN c /\ Final(j)
  BY <1>2
<1>4. GetItem(c, key) = c[CHOOSE i \in DOMAIN c : Final(i)].v
  BY DEF GetItem
<1> HIDE DEF Final, K
<1>5. (CHOOSE i \in DOMAIN c : Final(i)) \in DOMAIN c /\ Final(CHOOSE i \in DOMAIN c : Final(i))
  BY <1>3
<1> QED
  BY <1>4, <1>5 DEF Final

(* An object that has the one key only, however often, is a record of the last value. *)
LEMMA JsonRecordIs ==
  ASSUME NEW jv \in JsonValues, jv.t = "dict", jv.c # <<>>, \A j \in DOMAIN jv.c : jv.c[j].k = InnerKey
  PROVE  /\ HasKey(jv.c, InnerKey) /\ \E j \in DOMAIN jv.c : GetItem(jv.c, InnerKey) = jv.c[j].v
         /\ JsonToPy(jv) = Wrapped(JsonToPy(GetItem(jv.c, InnerKey)))
<1> DEFINE l == Len(jv.c)
<1>1. l \in Nat \ {0} /\ DOMAIN jv.c = 1..l
  <2>1. Len(jv.c) \in Nat /\ DOMAIN jv.c = 1..Len(jv.c) /\ jv.c \in Seq(Members(JsonTo[ValueDepth - 1]))
    BY JsonPartsOf, DepthAssumption DEF JsonValues
  <2>2. Len(jv.c) # 0
    BY <2>1, EmptySeq
  <2> QED
    BY <2>1, <2>2
<1>2. PyEq(InnerKey, InnerKey) /\ InnerKey.t = "str" /\ Hashable(InnerKey)
  BY DEF PyEq, InnerKey, Val, Hashable, Mapping
<1>3. HasKey(jv.c, InnerKey) /\ l \in DOMAIN jv.c
  BY <1>1, <1>2 DEF HasKey
<1>4. GetItem(jv.c, InnerKey) = jv.c[l].v
  <2>1. PICK j \in DOMAIN jv.c : /\ GetItem(jv.c, InnerKey) = jv.c[j].v
                                 /\ \A i \in DOMAIN jv.c : PyEq(jv.c[i].k, InnerKey) => i <= j
    BY <1>1, <1>3, GetItemMade
  <2>2. l <= j /\ j <= l
    BY <1>1, <1>2, <1>3, <2>1
  <2> QED
    BY <1>1, <2>1, <2>2
<1>5. DOMAIN KeysOf(jv) = 1..l /\ \A j \in 1..l : KeysOf(jv)[j] = InnerKey
  BY <1>1 DEF KeysOf
<1>6. PyVals(jv)[l] = JsonToPy(jv.c[l].v)
  BY <1>3 DEF PyVals
<1> HIDE DEF l
<1>7. Assigned(KeysOf(jv), PyVals(jv)) = Ok(DictOf(<<Entry(InnerKey, PyVals(jv)[l])>>))
  BY <1>1, <1>2, <1>5, OneKeyAssigned
<1>8. JsonToPy(jv) = DictOf(<<Entry(InnerKey, PyVals(jv)[l])>>)
  BY <1>7, JsonToPyIs DEF Ok
<1> QED
  BY <1>3, <1>4, <1>6, <1>8 DEF Wrapped

-----------------------------------------------------------------------------
(* How fields nest. *)
LEMMA FieldParts ==
  ASSUME NEW m \in Nat, NEW f \in FieldsTo[m + 1]
  PROVE  /\ f.kind \in Kinds /\ f.opts \in SUBSET STRING /\ f.none \in BOOLEAN /\ Furnished(f)
         /\ Len(f.inner) \in Nat /\ DOMAIN f.inner = 1..Len(f.inner)
         /\ \A j \in DOMAIN f.inner : f.inner[j] \in FieldsTo[m]
         /\ Len(f.vals) \in Nat /\ DOMAIN f.vals = 1..Len(f.vals)
         /\ \A j \in DOMAIN f.vals : f.vals[j] \in Validators
         /\ f.vals = [j \in 1..Len(f.vals) |-> f.vals[j]]
<1>1. f \in FieldsOf(FieldsTo[m])
  BY FieldsUnfold
<1>2. /\ f.kind \in Kinds /\ f.opts \in SUBSET STRING /\ f.inner \in Seq(FieldsTo[m])
      /\ f.vals \in Seq(Validators) /\ f.none \in BOOLEAN /\ Furnished(f)
  BY <1>1 DEF FieldsOf
<1> QED
  BY <1>2, SMTT(40)

(* The fields that the kinds of fields are furnished with. *)
LEMMA FieldInner ==
  ASSUME NEW m \in Nat, NEW f \in FieldsTo[m + 1]
  PROVE  /\ f.kind \in {"List", "Enum", "Nested", "Pluck"} => DOMAIN f.inner = 1..1 /\ f.inner[1] \in FieldsTo[m]
         /\ f.kind = "Dict" => DOMAIN f.inner = 1..2 /\ f.inner[1] \in FieldsTo[m] /\ f.inner[2] \in FieldsTo[m]
         /\ f.kind = "None" => f.vals = <<>> /\ f.inner = <<>> /\ f.none = FALSE /\ ~Processed(f)
<1>1. f.kind \in {"List", "Enum", "Nested", "Pluck"} => DOMAIN f.inner = 1..1
  BY FieldParts DEF Furnished
<1>2. f.kind = "Dict" => DOMAIN f.inner = 1..2
  BY FieldParts DEF Furnished
<1>3. f.kind = "None" => f.vals = <<>> /\ f.inner = <<>> /\ f.none = FALSE /\ ~Processed(f)
  <2> HAVE f.kind = "None"
  <2>1. f = NoField
    BY FieldParts DEF Furnished
  <2> QED
    BY <2>1 DEF NoField, FieldOf, Processed
<1>4. \A j \in DOMAIN f.inner : f.inner[j] \in FieldsTo[m]
  BY FieldParts
<1> QED
  BY <1>1, <1>2, <1>3, <1>4, 1 \in 1..1, 1 \in 1..2, 2 \in 1..2

-----------------------------------------------------------------------------
(***************************************************************************)
(* What marshmallow's fields and the core's elements come to.              *)
(***************************************************************************)
StockOut(r) == r \in {Invalid, Raise, Interrupted} \/ r = Ok(r.v)
CoreOut(r) == r \in {Defer, Raise, Interrupted} \/ r = Ok(r.v)

(* An outcome is told by its kind. *)
LEMMA StockKinds ==
  ASSUME NEW r, StockOut(r)
  PROVE  /\ r.o \in {"ok", "invalid", "raise", "interrupt"}
         /\ r.o = "ok" => r = Ok(r.v)
         /\ r.o = "invalid" => r = Invalid
         /\ r.o = "raise" => r = Raise
         /\ r.o = "interrupt" => r = Interrupted
<1>1. Ok(r.v).o = "ok"
  BY OkIs
<1> QED
  BY <1>1 DEF StockOut, Invalid, Raise, Interrupted

LEMMA CoreKinds ==
  ASSUME NEW r, CoreOut(r)
  PROVE  /\ r.o \in {"ok", "defer", "raise", "interrupt"}
         /\ r.o = "ok" => r = Ok(r.v)
         /\ r.o = "defer" => r = Defer
         /\ r.o = "raise" => r = Raise
         /\ r.o = "interrupt" => r = Interrupted
<1>1. Ok(r.v).o = "ok"
  BY OkIs
<1> QED
  BY <1>1 DEF CoreOut, Defer, Raise, Interrupted

(* A value is an outcome of both. *)
LEMMA OkOut ==
  ASSUME NEW v
  PROVE  StockOut(Ok(v)) /\ CoreOut(Ok(v)) /\ Ok(v).o = "ok" /\ Ok(v).v = v
BY OkIs DEF StockOut, CoreOut

(* So are the exceptions. *)
LEMMA ExceptionsOut ==
  /\ StockOut(Invalid) /\ StockOut(Raise) /\ StockOut(Interrupted)
  /\ CoreOut(Defer) /\ CoreOut(Raise) /\ CoreOut(Interrupted)
  /\ Invalid.o = "invalid" /\ Raise.o = "raise" /\ Interrupted.o = "interrupt" /\ Defer.o = "defer"
BY DEF StockOut, CoreOut, Invalid, Raise, Interrupted, Defer

(* What is called by name makes a value, or fails. *)
LEMMA CallOut ==
  ASSUME NEW fn, NEW v
  PROVE  StockOut(Call(fn, v))
BY OkOut, ExceptionsOut DEF Call

(* The outcomes of some steps. *)
Outs(l, outs) == DOMAIN outs = 1..l /\ \A j \in 1..l : StockOut(outs[j])
Cores(l, outs) == DOMAIN outs = 1..l /\ \A j \in 1..l : CoreOut(outs[j])

LEMMA CollectOut ==
  ASSUME NEW l \in Nat, NEW outs, Outs(l, outs)
  PROVE  /\ StockOut(Collect(outs))
         /\ Some(outs, Errors) => Collect(outs).o \in Errors
         /\ ~Some(outs, Errors) => Collect(outs) \in {Invalid, Ok(Vals(outs))}
         /\ (\A j \in 1..l : outs[j].o = "ok") => Collect(outs) = Ok(Vals(outs))
<1>1. CASE Some(outs, Errors)
  <2>1. PICK k \in 1..l : FirstIn(outs, Errors) = outs[k] /\ outs[k].o \in Errors
    BY <1>1, FirstFound DEF Outs
  <2>2. Collect(outs) = outs[k]
    BY <1>1, <2>1 DEF Collect
  <2>3. ~\A j \in 1..l : outs[j].o = "ok"
    BY <2>1 DEF Errors
  <2> QED
    BY <1>1, <2>1, <2>2, <2>3 DEF Outs
<1>2. CASE ~Some(outs, Errors)
  <2>1. (\A j \in 1..l : outs[j].o = "ok") => ~Some(outs, {"invalid"})
    BY DEF Some, Outs
  <2>2. Collect(outs) = IF Some(outs, {"invalid"}) THEN Invalid ELSE Ok(Vals(outs))
    BY <1>2 DEF Collect
  <2> QED
    BY <1>2, <2>1, <2>2, OkOut, ExceptionsOut
<1> QED
  BY <1>1, <1>2

LEMMA CollectedOut ==
  ASSUME NEW l \in Nat, NEW outs, Outs(l, outs), NEW type
  PROVE  /\ StockOut(Collected(type, outs))
         /\ Some(outs, Errors) => Collected(type, outs).o \in Errors
         /\ (\A j \in 1..l : outs[j].o = "ok") => Collected(type, outs) = Ok(ListOf(type, Vals(outs)))
<1> DEFINE r == Collect(outs)
<1>1. /\ StockOut(r) /\ (Some(outs, Errors) => r.o \in Errors)
      /\ (\A j \in 1..l : outs[j].o = "ok") => r = Ok(Vals(outs))
  BY CollectOut
<1>2. Collected(type, outs) = IF r.o = "ok" THEN Ok(ListOf(type, r.v)) ELSE r
  BY DEF Collected, Then
<1> HIDE DEF r
<1>3. r.o \in Errors => r.o # "ok"
  BY DEF Errors
<1> QED
  BY <1>1, <1>2, <1>3, OkOut

(* A dict that is assigned entry by entry, or an unhashable key. *)
LEMMA AssignedOut ==
  ASSUME NEW keys, NEW vals
  PROVE  StockOut(Assigned(keys, vals)) /\ CoreOut(Assigned(keys, vals))
         /\ Assigned(keys, vals).o \in {"ok", "raise"}
<1> DEFINE c == [i \in DOMAIN Firsts(keys) |-> Entry(keys[Firsts(keys)[i]], vals[Lasts(keys)[i]])]
<1>1. Assigned(keys, vals) = Raise \/ Assigned(keys, vals) = Ok(DictOf(c))
  BY AssignedIs
<1> HIDE DEF c
<1> QED
  BY <1>1, OkOut, ExceptionsOut

LEMMA StockDictOut ==
  ASSUME NEW l \in Nat, NEW keys, NEW vals, Outs(l, keys), Outs(l, vals)
  PROVE  StockOut(StockDict(keys, vals))
<1> DEFINE sets == [j \in DOMAIN vals |-> StockSet(keys[j], vals[j])]
<1>1. Outs(l, sets)
  BY ExceptionsOut DEF Outs, StockSet
<1>2. StockDict(keys, vals) =
        IF Some(keys, Errors) THEN FirstIn(keys, Errors)
        ELSE IF Some(sets, Errors) THEN FirstIn(sets, Errors)
        ELSE IF Some(keys, {"invalid"}) \/ Some(vals, {"invalid"}) THEN Invalid
        ELSE Assigned(Vals(keys), Vals(vals))
  BY DEF StockDict
<1> HIDE DEF sets
<1>3. Some(keys, Errors) => StockOut(FirstIn(keys, Errors))
  BY FirstFound DEF Outs
<1>4. Some(sets, Errors) => StockOut(FirstIn(sets, Errors))
  BY <1>1, FirstFound DEF Outs
<1> QED
  BY <1>2, <1>3, <1>4, AssignedOut, ExceptionsOut

(* The validators let a value through, or fail. *)
LEMMA JudgeOut ==
  ASSUME NEW l \in Nat, NEW verdicts, DOMAIN verdicts = 1..l, NEW v
  PROVE  /\ Judge(verdicts, v) \in {Ok(v), Invalid, Raise, Interrupted}
         /\ Some(verdicts, Errors) => Judge(verdicts, v).o \in Errors
<1>1. CASE Some(verdicts, Errors)
  <2>1. PICK k \in 1..l : FirstIn(verdicts, Errors) = verdicts[k] /\ verdicts[k].o \in Errors
    BY <1>1, FirstFound
  <2>2. Judge(verdicts, v) = Stop(verdicts[k].o)
    BY <1>1, <2>1 DEF Judge, Errors
  <2>3. Stop("raise") = Raise /\ Stop("interrupt") = Interrupted
    BY DEF Stop, Raise, Interrupted
  <2> QED
    BY <2>1, <2>2, <2>3, ExceptionsOut DEF Errors
<1>2. CASE ~Some(verdicts, Errors)
  BY <1>2 DEF Judge, Errors
<1> QED
  BY <1>1, <1>2

LEMMA StockValidatedOut ==
  ASSUME NEW l \in Nat, NEW vals, DOMAIN vals = 1..l, NEW v
  PROVE  /\ StockOut(StockValidated(vals, v))
         /\ StockValidated(vals, v).o = "ok" => StockValidated(vals, v) = Ok(v)
<1> DEFINE verdicts == [j \in DOMAIN vals |-> [o |-> StockValidate(vals[j], v)]]
<1>1. DOMAIN verdicts = 1..l
  OBVIOUS
<1>2. StockValidated(vals, v) = Judge(verdicts, v)
  BY DEF StockValidated
<1> HIDE DEF verdicts
<1>3. Judge(verdicts, v) \in {Ok(v), Invalid, Raise, Interrupted}
  BY <1>1, JudgeOut
<1> QED
  BY <1>2, <1>3, OkOut, ExceptionsOut

-----------------------------------------------------------------------------
(* Field.deserialize of fields of m levels comes to a value or an exception. *)
DesOut(des, m) == \A g \in FieldsTo[m] : \A w \in Values : \A p \in Partials : StockOut(des[g][w][p])

LEMMA RecordOut ==
  ASSUME NEW m \in Nat, NEW des, DesOut(des, m), NEW f, f.inner[1] \in FieldsTo[m],
         NEW v \in Values, NEW p \in Partials
  PROVE  StockOut(Record(des, f, v, p))
<1> DEFINE outs == [j \in DOMAIN v.c |-> IF v.c[j].k = InnerKey THEN des[f.inner[1]][v.c[j].v][p] ELSE Invalid]
           r == des[f.inner[1]][v.c[1].v][p]
<1>1. Len(v.c) \in Nat /\ DOMAIN v.c = 1..Len(v.c) /\ \A j \in DOMAIN v.c : v.c[j].v \in Values
  BY Parts, SMTT(40)
<1>2. Outs(Len(v.c), outs)
  BY <1>1, ExceptionsOut DEF Outs, DesOut
<1>3. v.c # <<>> => StockOut(r)
  <2>1. v.c # <<>> => 1 \in DOMAIN v.c
    <3>1. v.c \in Seq(Pairs(ValuesTo[ValueDepth - 1])) /\ Len(v.c) \in Nat
      BY ValueParts, DepthAssumption DEF Values
    <3>2. v.c # <<>> => Len(v.c) # 0
      BY <3>1, EmptySeq
    <3> QED
      BY <1>1, <3>1, <3>2
  <2> QED
    BY <1>1, <2>1 DEF DesOut
<1>4. Record(des, f, v, p) =
        IF v.t # "dict" THEN Invalid
        ELSE IF \E j \in DOMAIN v.c : v.c[j].k # InnerKey THEN Collect(outs)
        ELSE IF v.c = <<>> THEN IF p = "all" THEN Ok(v) ELSE Invalid
        ELSE IF r.o = "ok" THEN Ok(Wrapped(r.v)) ELSE r
  BY DEF Record, Then
<1> HIDE DEF outs, r
<1> QED
  BY <1>1, <1>2, <1>3, <1>4, CollectOut, OkOut, ExceptionsOut

LEMMA LoadOneOut ==
  ASSUME NEW m \in Nat, NEW des, DesOut(des, m), NEW f, f.inner[1] \in FieldsTo[m],
         NEW v, NEW p \in Partials, StockOut(Record(des, f, v, p))
  PROVE  StockOut(LoadOne(des, f, v, p))
<1> DEFINE r == Record(des, f, v, p)
<1>1. LoadOne(des, f, v, p) = IF r.o = "ok" THEN Ok(Posted(f, r.v, v, p)) ELSE r
  BY DEF LoadOne, Then
<1> QED
  BY <1>1, OkOut

LEMMA LoadManyOut ==
  ASSUME NEW l \in Nat, NEW des, NEW f, NEW items, NEW p, DOMAIN items = 1..l,
         \A j \in 1..l : StockOut(Record(des, f, items[j], p))
  PROVE  StockOut(LoadMany(des, f, items, p))
<1> DEFINE outs == [j \in DOMAIN items |-> Record(des, f, items[j], p)]
           r == Collect(outs)
           ds == [j \in DOMAIN r.v |-> Posted(f, r.v[j], items[j], p)]
<1>1. LoadMany(des, f, items, p) = IF r.o = "ok" THEN Ok(ListOf("list", ds)) ELSE r
  BY DEF LoadMany, Then
<1>2. Outs(l, outs)
  BY DEF Outs
<1> HIDE DEF outs, ds
<1> QED
  BY <1>1, <1>2, CollectOut, OkOut

(* A record around a value, for a Pluck: as deep as may be, it is loaded like any other. *)
LEMMA WrappedRecord ==
  ASSUME NEW des, NEW f, NEW v, NEW p
  PROVE  /\ Record(des, f, Wrapped(v), p) =
              IF des[f.inner[1]][v][p].o = "ok" THEN Ok(Wrapped(des[f.inner[1]][v][p].v))
              ELSE des[f.inner[1]][v][p]
         /\ Wrapped(v).t = "dict" /\ DOMAIN Wrapped(v).c = 1..1 /\ Wrapped(v).c # <<>>
         /\ Wrapped(v).c[1].k = InnerKey /\ Wrapped(v).c[1].v = v
         /\ HasKey(Wrapped(v).c, InnerKey) /\ GetItem(Wrapped(v).c, InnerKey) = v
<1> DEFINE w == Wrapped(v)
<1>1. w = DictOf(<<Entry(InnerKey, v)>>)
  BY DEF Wrapped
<1>2. w.t = "dict" /\ w.c = <<Entry(InnerKey, v)>>
  BY <1>1, DictOfIs
<1> HIDE DEF w
<1>3. DOMAIN w.c = 1..1 /\ w.c # <<>> /\ w.c[1] = Entry(InnerKey, v)
  BY <1>2
<1>4. w.c[1].k = InnerKey /\ w.c[1].v = v /\ 1 \in DOMAIN w.c /\ \A j \in DOMAIN w.c : j = 1
  BY <1>3 DEF Entry
<1>5. PyEq(InnerKey, InnerKey)
  BY DEF PyEq, InnerKey, Val
<1>6. HasKey(w.c, InnerKey)
  BY <1>4, <1>5 DEF HasKey
<1>7. GetItem(w.c, InnerKey) = v
  BY <1>3, <1>4, <1>6, GetItemMade, SMTT(40)
<1>8. Record(des, f, w, p) =
        IF des[f.inner[1]][v][p].o = "ok" THEN Ok(Wrapped(des[f.inner[1]][v][p].v)) ELSE des[f.inner[1]][v][p]
  BY <1>2, <1>3, <1>4 DEF Record, Then
<1> QED
  BY <1>2, <1>3, <1>4, <1>6, <1>7, <1>8 DEF w

(* Field._deserialize, by the kind of field; the rest is unfolded where it is used. *)
LEMMA RawIs ==
  ASSUME NEW des, NEW f, NEW v, NEW p
  PROVE  /\ f.kind \in {"None", "Raw", "Foreign"} => DeserializeRaw(des, f, v, p) = Ok(v)
         /\ f.kind = "String" => DeserializeRaw(des, f, v, p) =
              IF v.t \in {"str", "substr"} THEN Ok(Val("str", v.a))
              ELSE IF v.t = "bytes" THEN Call("decode", v) ELSE Invalid
         /\ f.kind = "Integer" => DeserializeRaw(des, f, v, p) =
              IF "strict" \in f.opts /\ v.t \notin {"int", "subint"} THEN Invalid ELSE NumberOf("int", v)
         /\ f.kind = "Float" => DeserializeRaw(des, f, v, p) = DeserializeFloat(f, v)
         /\ f.kind = "Boolean" => DeserializeRaw(des, f, v, p) = DeserializeBoolean(f, v)
         /\ f.kind = "UUID" => DeserializeRaw(des, f, v, p) = IF v.t = "uuid" THEN Ok(v) ELSE UUIDCall(v)
         /\ f.kind = "Temporal" => DeserializeRaw(des, f, v, p) = IF v.t = "date" THEN Ok(v) ELSE Call("date", v)
         /\ f.kind \in HeldKinds => DeserializeRaw(des, f, v, p) = Call("held", v)
         /\ f.kind = "Constant" => DeserializeRaw(des, f, v, p) = Ok(Val("str", "constant"))
<1>1. f.kind \in {"None", "Raw", "Foreign"} => DeserializeRaw(des, f, v, p) = Ok(v)
  <2>1. f.kind = "None" => DeserializeRaw(des, f, v, p) = Ok(v)
    BY DEF DeserializeRaw, HeldKinds
  <2>2. f.kind = "Raw" => DeserializeRaw(des, f, v, p) = Ok(v)
    BY DEF DeserializeRaw, HeldKinds
  <2>3. f.kind = "Foreign" => DeserializeRaw(des, f, v, p) = Ok(v)
    BY DEF DeserializeRaw, HeldKinds
  <2> QED
    BY <2>1, <2>2, <2>3
<1>2. f.kind = "String" => DeserializeRaw(des, f, v, p) =
        IF v.t \in {"str", "substr"} THEN Ok(Val("str", v.a))
        ELSE IF v.t = "bytes" THEN Call("decode", v) ELSE Invalid
  BY DEF DeserializeRaw, HeldKinds
<1>3. f.kind = "Integer" => DeserializeRaw(des, f, v, p) =
        IF "strict" \in f.opts /\ v.t \notin {"int", "subint"} THEN Invalid ELSE NumberOf("int", v)
  BY DEF DeserializeRaw, HeldKinds
<1>4. f.kind = "Float" => DeserializeRaw(des, f, v, p) = DeserializeFloat(f, v)
  BY DEF DeserializeRaw, HeldKinds
<1>5. f.kind = "Boolean" => DeserializeRaw(des, f, v, p) = DeserializeBoolean(f, v)
  BY DEF DeserializeRaw, HeldKinds
<1>6. f.kind = "UUID" => DeserializeRaw(des, f, v, p) = IF v.t = "uuid" THEN Ok(v) ELSE UUIDCall(v)
  BY DEF DeserializeRaw, HeldKinds, Instance
<1>7. f.kind = "Temporal" => DeserializeRaw(des, f, v, p) = IF v.t = "date" THEN Ok(v) ELSE Call("date", v)
  BY SMTT(40) DEF DeserializeRaw, HeldKinds, Instance
<1>8. f.kind \in HeldKinds => DeserializeRaw(des, f, v, p) = Call("held", v)
  <2>1. f.kind \in HeldKinds => f.kind \notin {"None", "Raw", "Foreign", "String", "Integer", "Float", "Boolean", "UUID", "Temporal"}
    BY DEF HeldKinds
  <2> QED
    BY <2>1 DEF DeserializeRaw, HeldKinds
<1>9. f.kind = "Constant" => DeserializeRaw(des, f, v, p) = Ok(Val("str", "constant"))
  BY DEF DeserializeRaw, HeldKinds
<1> QED
  BY <1>1, <1>2, <1>3, <1>4, <1>5, <1>6, <1>7, <1>8, <1>9

(* Field._deserialize comes to a value or an exception. *)
LEMMA RawOut ==
  ASSUME NEW m \in Nat, NEW des, DesOut(des, m), NEW f \in FieldsTo[m + 1], NEW v \in Values, NEW p \in Partials
  PROVE  StockOut(DeserializeRaw(des, f, v, p))
<1>1. /\ Len(v.c) \in Nat /\ DOMAIN v.c = 1..Len(v.c)
      /\ \A j \in DOMAIN v.c : v.c[j].v \in Values /\ v.c[j].k \in Values
  BY Parts
<1>2. CASE f.kind \in {"None", "Raw", "Foreign"}
  BY <1>2, RawIs, OkOut
<1>3. CASE f.kind = "String"
  BY <1>3, RawIs, OkOut, CallOut, ExceptionsOut
<1>4. CASE f.kind \in {"Integer", "Float"}
  <2>1. \A fn : StockOut(NumberOf(fn, v))
    BY CallOut, ExceptionsOut DEF NumberOf
  <2>2. StockOut(DeserializeFloat(f, v))
    BY <2>1, OkOut, ExceptionsOut DEF DeserializeFloat, Then
  <2> QED
    BY <1>4, <2>1, <2>2, RawIs, ExceptionsOut
<1>5. CASE f.kind = "Boolean"
  <2>1. StockOut(DeserializeBoolean(f, v))
    BY OkOut, ExceptionsOut DEF DeserializeBoolean
  <2> QED
    BY <1>5, <2>1, RawIs
<1>6. CASE f.kind \in {"UUID", "Temporal", "Constant"} \cup HeldKinds
  <2>1. StockOut(UUIDCall(v))
    BY CallOut, SMTT(40) DEF UUIDCall
  <2> QED
    BY <1>6, <2>1, RawIs, OkOut, CallOut DEF HeldKinds
<1>7. CASE f.kind = "Enum"
  <2>1. StockOut(des[f.inner[1]][v][p])
    BY <1>7, FieldInner DEF DesOut
  <2>2. DeserializeRaw(des, f, v, p) = Instance("enum", v, Then(des[f.inner[1]][v][p], LAMBDA x : EnumCall(f, x)))
    BY <1>7 DEF DeserializeRaw
  <2> QED
    BY <2>1, <2>2, OkOut, CallOut DEF Instance, Then, EnumCall
<1>8. CASE f.kind = "List"
  <2> DEFINE outs == [j \in DOMAIN v.c |-> des[f.inner[1]][v.c[j].v][p]]
  <2>1. Outs(Len(v.c), outs)
    BY <1>1, <1>8, FieldInner DEF DesOut, Outs
  <2>2. DeserializeRaw(des, f, v, p) = IF ListLike(v) THEN Collected("list", outs) ELSE Invalid
    BY <1>8 DEF DeserializeRaw
  <2> HIDE DEF outs
  <2> QED
    BY <1>1, <2>1, <2>2, CollectedOut, ExceptionsOut, SMTT(40)
<1>9. CASE f.kind = "Tuple"
  <2> DEFINE outs == [j \in DOMAIN v.c |-> des[f.inner[j]][v.c[j].v][p]]
  <2>1. Len(v.c) = Len(f.inner) => \A j \in DOMAIN v.c : f.inner[j] \in FieldsTo[m]
    BY <1>1, FieldParts
  <2>2. Len(v.c) = Len(f.inner) => Outs(Len(v.c), outs)
    BY <1>1, <2>1 DEF DesOut, Outs
  <2>3. DeserializeRaw(des, f, v, p) =
          IF ListLike(v) /\ Len(v.c) = Len(f.inner) THEN Collected("tuple", outs) ELSE Invalid
    BY <1>9 DEF DeserializeRaw
  <2> HIDE DEF outs
  <2> QED
    BY <1>1, <2>2, <2>3, CollectedOut, ExceptionsOut
<1>10. CASE f.kind = "Dict"
  <2> DEFINE keys == [j \in DOMAIN v.c |-> des[f.inner[1]][v.c[j].k][p]]
             vals == [j \in DOMAIN v.c |-> des[f.inner[2]][v.c[j].v][p]]
  <2>1. Outs(Len(v.c), keys) /\ Outs(Len(v.c), vals)
    BY <1>1, <1>10, FieldInner DEF DesOut, Outs
  <2>2. DeserializeRaw(des, f, v, p) = IF v.t # "dict" THEN Invalid ELSE StockDict(keys, vals)
    BY <1>10 DEF DeserializeRaw
  <2> HIDE DEF keys, vals
  <2> QED
    BY <1>1, <2>1, <2>2, StockDictOut, ExceptionsOut, SMTT(40)
<1>11. CASE f.kind = "Nested"
  <2>1. f.inner[1] \in FieldsTo[m]
    BY <1>11, FieldInner
  <2>2. \A w \in Values : StockOut(Record(des, f, w, p))
    BY <2>1, RecordOut
  <2>3. StockOut(LoadOne(des, f, v, p))
    BY <2>1, <2>2, LoadOneOut
  <2>4. DOMAIN Items(v) = 1..Len(v.c) /\ \A j \in 1..Len(v.c) : StockOut(Record(des, f, Items(v)[j], p))
    BY <1>1, <2>2 DEF Items
  <2>5. StockOut(LoadMany(des, f, Items(v), p))
    BY <1>1, <2>4, LoadManyOut
  <2>6. DeserializeRaw(des, f, v, p) =
          IF "many" \notin f.opts THEN LoadOne(des, f, v, p)
          ELSE IF ListLike(v) THEN LoadMany(des, f, Items(v), p) ELSE Invalid
    BY <1>11 DEF DeserializeRaw
  <2> QED
    BY <2>3, <2>5, <2>6, ExceptionsOut
<1>12. CASE f.kind = "Pluck"
  <2> DEFINE items == [j \in DOMAIN v.c |-> Wrapped(v.c[j].v)]
  <2>1. f.inner[1] \in FieldsTo[m]
    BY <1>12, FieldInner
  <2>2. \A w \in Values : StockOut(Record(des, f, Wrapped(w), p))
    BY <2>1, WrappedRecord, OkOut DEF DesOut
  <2>3. StockOut(LoadOne(des, f, Wrapped(v), p))
    BY <2>1, <2>2, LoadOneOut
  <2>4. DOMAIN items = 1..Len(v.c) /\ \A j \in 1..Len(v.c) : StockOut(Record(des, f, items[j], p))
    BY <1>1, <2>2
  <2>5. DeserializeRaw(des, f, v, p) =
          IF "many" \notin f.opts THEN LoadOne(des, f, Wrapped(v), p)
          ELSE IF ListLike(v) THEN LoadMany(des, f, items, p) ELSE Invalid
    BY <1>12 DEF DeserializeRaw
  <2> HIDE DEF items
  <2>6. StockOut(LoadMany(des, f, items, p))
    BY <1>1, <2>4, LoadManyOut
  <2> QED
    BY <2>3, <2>5, <2>6, ExceptionsOut
<1>13. f.kind \in Kinds
  BY FieldParts
<1> QED
  BY <1>2, <1>3, <1>4, <1>5, <1>6, <1>7, <1>8, <1>9, <1>10, <1>11, <1>12, <1>13 DEF Kinds

(* So does Field.deserialize. *)
LEMMA ValueOut ==
  ASSUME NEW m \in Nat, NEW des, DesOut(des, m), NEW f \in FieldsTo[m + 1], NEW v \in Values, NEW p \in Partials
  PROVE  StockOut(DeserializeValue(des, f, v, p))
<1> DEFINE r == DeserializeRaw(des, f, v, p)
           s == Then(r, LAMBDA x : StockValidated(f.vals, x))
<1>1. StockOut(r)
  BY RawOut
<1>2. \A x : StockOut(StockValidated(f.vals, x))
  BY FieldParts, StockValidatedOut
<1> HIDE DEF r
<1>3. StockOut(s)
  BY <1>1, <1>2 DEF Then
<1>4. DeserializeValue(des, f, v, p) =
        IF f.kind = "None" THEN Ok(v)
        ELSE IF v = NoneVal THEN IF f.none THEN Ok(v) ELSE Invalid
        ELSE IF s.o = "ok" THEN Ok(Process(f, s.v)) ELSE s
  BY DEF DeserializeValue, Then, r
<1> QED
  BY <1>3, <1>4, OkOut, ExceptionsOut

(* DeserializeTo, at a field and a value. *)
LEMMA DeserializeIs ==
  ASSUME NEW n \in Nat, NEW f \in FieldsTo[n + 1], NEW v \in Values, NEW p \in Partials
  PROVE  DeserializeTo[n + 1][f][v][p] = DeserializeValue(DeserializeTo[n], f, v, p)
<1> DEFINE des == DeserializeTo[n]
<1>1. DeserializeTo[n + 1] = DeserializeLevel(des, n + 1)
  BY DeserializeUnfold
<1> HIDE DEF des
<1>2. DeserializeLevel(des, n + 1)[f] = [w \in Values |-> [q \in Partials |-> DeserializeValue(des, f, w, q)]]
  BY DEF DeserializeLevel
<1>3. [w \in Values |-> [q \in Partials |-> DeserializeValue(des, f, w, q)]][v][p] = DeserializeValue(des, f, v, p)
  OBVIOUS
<1> QED
  BY <1>1, <1>2, <1>3 DEF des

(* Field.deserialize of marshmallow comes to a value or an exception, at every level. *)
LEMMA DeserializeOut ==
  ASSUME NEW n \in Nat
  PROVE  DesOut(DeserializeTo[n], n)
<1> DEFINE T == {m \in Nat : DesOut(DeserializeTo[m], m)}
<1>1. 0 \in T
  BY FieldsUnfold DEF DesOut
<1>2. ASSUME NEW m \in Nat, m \in T  PROVE m + 1 \in T
  <2>1. DesOut(DeserializeTo[m], m)
    BY <1>2
  <2>2. ASSUME NEW f \in FieldsTo[m + 1], NEW v \in Values, NEW p \in Partials
        PROVE  StockOut(DeserializeTo[m + 1][f][v][p])
    BY <2>1, ValueOut, DeserializeIs
  <2> QED
    BY <2>2 DEF DesOut
<1> HIDE DEF T
<1>3. Nat \subseteq T
  BY <1>1, <1>2, LevelInduction
<1> QED
  BY <1>3 DEF T


-----------------------------------------------------------------------------
(***************************************************************************)
(* The elements, by the kind of field.                                     *)
(***************************************************************************)
LEMMA VariantIs ==
  ASSUME NEW f
  PROVE  /\ f.kind = "None" => Variant(f) = "Absent"
         /\ f.kind = "Raw" => Variant(f) = "Passthrough"
         /\ f.kind = "String" => Variant(f) = "Str"
         /\ f.kind = "Integer" => Variant(f) = IF "strict" \in f.opts THEN "IntStrict" ELSE "Int"
         /\ f.kind = "UUID" => Variant(f) = "Uuid"
         /\ f.kind \in HeldKinds => Variant(f) \in HeldVariants
         /\ f.kind \in {"Float", "Boolean", "Temporal", "Constant", "Enum", "List", "Tuple", "Pluck"} =>
              Variant(f) = f.kind
         /\ f.kind = "Dict" => Variant(f) = IF f.inner = <<NoField, NoField>> THEN "Dict" ELSE "DictTyped"
         /\ f.kind = "Nested" => Variant(f) = IF "post_load" \in f.opts THEN "NestedPostLoad" ELSE "Nested"
BY DEF Variant, Variants, Tags, Built, HeldKinds, HeldVariants

(* LoadElement::apply, by the kind of field. *)
LEMMA ApplyIs ==
  ASSUME NEW elements, NEW n, NEW f, NEW v, NEW p
  PROVE  /\ f.kind \in {"None", "Raw"} => Apply(elements, n, f, v, p) = Ok(v)
         /\ f.kind = "String" => Apply(elements, n, f, v, p) = ApplyStr(v)
         /\ f.kind = "Integer" => Apply(elements, n, f, v, p) =
              IF "strict" \in f.opts THEN IF v.t = "int" THEN Ok(v) ELSE Defer ELSE ApplyNumber("int", v)
         /\ f.kind = "Float" => Apply(elements, n, f, v, p) = CheckNan(f, ApplyNumber("float", v))
         /\ f.kind = "Boolean" => Apply(elements, n, f, v, p) = ApplyBoolean(f, v)
         /\ f.kind = "UUID" => Apply(elements, n, f, v, p) = IF v.t = "uuid" THEN Ok(v) ELSE ToFallback(UUIDCall(v))
         /\ f.kind = "Temporal" =>
              Apply(elements, n, f, v, p) = IF v.t = "date" THEN Ok(v) ELSE ToFallback(Call("date", v))
         /\ f.kind \in HeldKinds => Apply(elements, n, f, v, p) = ToFallback(Call("held", v))
         /\ f.kind = "Constant" => Apply(elements, n, f, v, p) = Ok(Val("str", "constant"))
         /\ f.kind = "Enum" => Apply(elements, n, f, v, p) = ApplyEnum(f, v, elements[f.inner[1]][v][p])
         /\ f.kind = "List" => Apply(elements, n, f, v, p) = ApplyList(elements, f, v, p)
         /\ f.kind = "Tuple" => Apply(elements, n, f, v, p) = ApplyTuple(elements, f, v, p)
         /\ f.kind = "Dict" => Apply(elements, n, f, v, p) =
              IF f.inner = <<NoField, NoField>> THEN IF v.t = "dict" THEN Ok(v) ELSE Defer
              ELSE ApplyDictTyped(elements, f, v, p)
         /\ f.kind = "Nested" => Apply(elements, n, f, v, p) = PostLoaded(f, Run(elements, n, f, v, p))
         /\ f.kind = "Pluck" => Apply(elements, n, f, v, p) = RunPluck(elements, n, f, v, p)
<1>1. f.kind \in {"None", "Raw"} => Apply(elements, n, f, v, p) = Ok(v)
  BY VariantIs DEF Apply, HeldVariants
<1>2. f.kind = "String" => Apply(elements, n, f, v, p) = ApplyStr(v)
  BY VariantIs DEF Apply, HeldVariants
<1>3. f.kind = "Integer" => Apply(elements, n, f, v, p) =
        IF "strict" \in f.opts THEN IF v.t = "int" THEN Ok(v) ELSE Defer ELSE ApplyNumber("int", v)
  BY VariantIs DEF Apply, HeldVariants
<1>4. f.kind = "Float" => Apply(elements, n, f, v, p) = CheckNan(f, ApplyNumber("float", v))
  BY VariantIs DEF Apply, HeldVariants
<1>5. f.kind = "Boolean" => Apply(elements, n, f, v, p) = ApplyBoolean(f, v)
  BY VariantIs DEF Apply, HeldVariants
<1>6. f.kind = "UUID" => Apply(elements, n, f, v, p) = IF v.t = "uuid" THEN Ok(v) ELSE ToFallback(UUIDCall(v))
  BY VariantIs DEF Apply, HeldVariants, Instance
<1>7. f.kind = "Temporal" =>
        Apply(elements, n, f, v, p) = IF v.t = "date" THEN Ok(v) ELSE ToFallback(Call("date", v))
  BY VariantIs DEF Apply, HeldVariants, Instance
<1>8. f.kind \in HeldKinds => Apply(elements, n, f, v, p) = ToFallback(Call("held", v))
  <2> HAVE f.kind \in HeldKinds
  <2>1. Variant(f) \in HeldVariants
    BY VariantIs
  <2>2. Variant(f) \notin {"Passthrough", "Absent", "Str", "Int", "IntStrict", "Float", "Uuid", "Temporal"}
    BY <2>1 DEF HeldVariants
  <2> QED
    BY <2>1, <2>2 DEF Apply, HeldVariants
<1>9. f.kind = "Constant" => Apply(elements, n, f, v, p) = Ok(Val("str", "constant"))
  BY VariantIs DEF Apply, HeldVariants
<1>10. f.kind = "Enum" => Apply(elements, n, f, v, p) = ApplyEnum(f, v, elements[f.inner[1]][v][p])
  BY VariantIs DEF Apply, HeldVariants
<1>11. f.kind = "List" => Apply(elements, n, f, v, p) = ApplyList(elements, f, v, p)
  BY VariantIs DEF Apply, HeldVariants
<1>12. f.kind = "Tuple" => Apply(elements, n, f, v, p) = ApplyTuple(elements, f, v, p)
  BY VariantIs DEF Apply, HeldVariants
<1>13. f.kind = "Dict" => Apply(elements, n, f, v, p) =
         IF f.inner = <<NoField, NoField>> THEN IF v.t = "dict" THEN Ok(v) ELSE Defer
         ELSE ApplyDictTyped(elements, f, v, p)
  BY VariantIs DEF Apply, HeldVariants
<1>14. f.kind = "Nested" => Apply(elements, n, f, v, p) = PostLoaded(f, Run(elements, n, f, v, p))
  BY VariantIs DEF Apply, HeldVariants
<1>15. f.kind = "Pluck" => Apply(elements, n, f, v, p) = RunPluck(elements, n, f, v, p)
  BY VariantIs DEF Apply, HeldVariants
<1> QED
  BY <1>1, <1>2, <1>3, <1>4, <1>5, <1>6, <1>7, <1>8, <1>9, <1>10, <1>11, <1>12, <1>13, <1>14, <1>15

(* LoadElement::apply_json, by the kind of field. *)
LEMMA ApplyJsonIs ==
  ASSUME NEW json, NEW n, NEW f, NEW jv, NEW p
  PROVE  /\ f.kind = "Float" /\ jv.t \in {"int", "float"} =>
              ApplyJson(json, n, f, jv, p) = CheckNan(f, Ok(Val("float", jv.a)))
         /\ f.kind = "Boolean" /\ jv.t = "bool" => ApplyJson(json, n, f, jv, p) = Ok(jv)
         /\ f.kind = "Nested" => ApplyJson(json, n, f, jv, p) = PostLoaded(f, RunJson(json, f, jv, p))
         /\ f.kind = "List" => ApplyJson(json, n, f, jv, p) = ApplyListJson(json, f, jv, p)
         /\ f.kind = "Tuple" => ApplyJson(json, n, f, jv, p) = ApplyTupleJson(json, f, jv, p)
         /\ f.kind = "Dict" /\ f.inner # <<NoField, NoField>> =>
              ApplyJson(json, n, f, jv, p) = ApplyDictTypedJson(json, n, f, jv, p)
         /\ (\/ f.kind \in {"None", "Raw", "String", "Integer", "UUID", "Temporal", "Constant", "Enum", "Pluck"}
             \/ f.kind \in HeldKinds
             \/ f.kind = "Float" /\ jv.t \notin {"int", "float"}
             \/ f.kind = "Boolean" /\ jv.t # "bool"
             \/ f.kind = "Dict" /\ f.inner = <<NoField, NoField>>) =>
              ApplyJson(json, n, f, jv, p) = Elements[n + 1][f][JsonToPy(jv)][p]
<1>1. f.kind = "Float" /\ jv.t \in {"int", "float"} =>
        ApplyJson(json, n, f, jv, p) = CheckNan(f, Ok(Val("float", jv.a)))
  BY VariantIs DEF ApplyJson
<1>2. f.kind = "Boolean" /\ jv.t = "bool" => ApplyJson(json, n, f, jv, p) = Ok(jv)
  BY VariantIs DEF ApplyJson
<1>3. f.kind = "Nested" => ApplyJson(json, n, f, jv, p) = PostLoaded(f, RunJson(json, f, jv, p))
  BY VariantIs DEF ApplyJson
<1>4. f.kind = "List" => ApplyJson(json, n, f, jv, p) = ApplyListJson(json, f, jv, p)
  BY VariantIs DEF ApplyJson
<1>5. f.kind = "Tuple" => ApplyJson(json, n, f, jv, p) = ApplyTupleJson(json, f, jv, p)
  BY VariantIs DEF ApplyJson
<1>6. f.kind = "Dict" /\ f.inner # <<NoField, NoField>> =>
        ApplyJson(json, n, f, jv, p) = ApplyDictTypedJson(json, n, f, jv, p)
  BY VariantIs DEF ApplyJson
<1>7. f.kind \in {"None", "Raw", "String", "Integer", "UUID", "Temporal", "Constant", "Enum", "Pluck"} =>
        ApplyJson(json, n, f, jv, p) = Elements[n + 1][f][JsonToPy(jv)][p]
  BY VariantIs DEF ApplyJson
<1>8. f.kind \in HeldKinds => ApplyJson(json, n, f, jv, p) = Elements[n + 1][f][JsonToPy(jv)][p]
  BY VariantIs DEF ApplyJson, HeldVariants
<1>9. (\/ f.kind = "Float" /\ jv.t \notin {"int", "float"}
       \/ f.kind = "Boolean" /\ jv.t # "bool"
       \/ f.kind = "Dict" /\ f.inner = <<NoField, NoField>>) =>
        ApplyJson(json, n, f, jv, p) = Elements[n + 1][f][JsonToPy(jv)][p]
  BY VariantIs DEF ApplyJson
<1> QED
  BY <1>1, <1>2, <1>3, <1>4, <1>5, <1>6, <1>7, <1>8, <1>9

(* Elements, at a field and a value. *)
LEMMA ElementsAre ==
  ASSUME NEW n \in Nat
  PROVE  /\ \A f : f \in DOMAIN Elements[n + 1] <=> f \in FieldsTo[n + 1] /\ HasElement(Elements[n], f)
         /\ \A f \in DOMAIN Elements[n + 1] : \A v \in Values : \A p \in Partials :
              Elements[n + 1][f][v][p] = Apply(Elements[n], n, f, v, p)
<1> DEFINE elements == Elements[n]
           Mine == {g \in FieldsTo[n + 1] : HasElement(elements, g)}
           Row(f) == [v \in Values |-> [p \in Partials |-> Apply(elements, n, f, v, p)]]
<1>1. Elements[n + 1] = ElementsLevel(elements, n + 1)
  BY ElementsUnfold
<1>2. (n + 1) - 1 = n
  OBVIOUS
<1> HIDE DEF elements
<1>3. DOMAIN ElementsLevel(elements, n + 1) = Mine
  BY DEF ElementsLevel
<1>4. \A f \in Mine : ElementsLevel(elements, n + 1)[f] = Row(f)
  BY <1>2 DEF ElementsLevel
<1>5. DOMAIN Elements[n + 1] = Mine
  BY <1>1, <1>3
<1>6. \A f : f \in Mine <=> f \in FieldsTo[n + 1] /\ HasElement(elements, f)
  OBVIOUS
<1>7. ASSUME NEW f, NEW v \in Values, NEW p \in Partials  PROVE Row(f)[v][p] = Apply(elements, n, f, v, p)
  OBVIOUS
<1> HIDE DEF Mine, Row
<1>8. ASSUME NEW f \in Mine, NEW v \in Values, NEW p \in Partials
      PROVE  Elements[n + 1][f][v][p] = Apply(elements, n, f, v, p)
  BY <1>1, <1>4, <1>7
<1> QED
  BY <1>5, <1>6, <1>8 DEF elements

(* JsonElements, at a field and a JSON value. *)
LEMMA JsonElementsAre ==
  ASSUME NEW n \in Nat
  PROVE  /\ DOMAIN JsonElements[n] = DOMAIN Elements[n]
         /\ \A f \in DOMAIN Elements[n + 1] : \A jv \in JsonValues : \A p \in Partials :
              JsonElements[n + 1][f][jv][p] = ApplyJson(JsonElements[n], n, f, jv, p)
<1>1. ASSUME NEW m \in Nat
      PROVE  /\ DOMAIN JsonElements[m + 1] = DOMAIN Elements[m + 1]
             /\ \A f \in DOMAIN Elements[m + 1] : \A jv \in JsonValues : \A p \in Partials :
                  JsonElements[m + 1][f][jv][p] = ApplyJson(JsonElements[m], m, f, jv, p)
  <2> DEFINE json == JsonElements[m]
             Row(f) == [jv \in JsonValues |-> [p \in Partials |-> ApplyJson(json, m, f, jv, p)]]
  <2>1. JsonElements[m + 1] = JsonElementsLevel(json, m + 1)
    BY JsonElementsUnfold
  <2>2. (m + 1) - 1 = m
    OBVIOUS
  <2> HIDE DEF json
  <2>3. DOMAIN JsonElementsLevel(json, m + 1) = DOMAIN Elements[m + 1]
    BY DEF JsonElementsLevel
  <2>4. \A f \in DOMAIN Elements[m + 1] : JsonElementsLevel(json, m + 1)[f] = Row(f)
    BY <2>2 DEF JsonElementsLevel
  <2>5. ASSUME NEW f, NEW jv \in JsonValues, NEW p \in Partials  PROVE Row(f)[jv][p] = ApplyJson(json, m, f, jv, p)
    OBVIOUS
  <2> HIDE DEF Row
  <2> QED
    BY <2>1, <2>3, <2>4, <2>5 DEF json
<1>2. DOMAIN JsonElements[0] = DOMAIN Elements[0]
  BY ElementsUnfold, JsonElementsUnfold
<1>3. n = 0 \/ (n - 1 \in Nat /\ n = (n - 1) + 1)
  OBVIOUS
<1>4. DOMAIN JsonElements[n] = DOMAIN Elements[n]
  BY <1>1, <1>2, <1>3
<1> QED
  BY <1>1, <1>4

-----------------------------------------------------------------------------
(***************************************************************************)
(* What the steps of the core come to.                                     *)
(***************************************************************************)
(* to_fallback of a call: a value and an interrupt pass. *)
LEMMA ToFallbackIs ==
  ASSUME NEW r, StockOut(r)
  PROVE  /\ CoreOut(ToFallback(r))
         /\ r.o \in {"ok", "interrupt"} => ToFallback(r) = r
         /\ r.o \notin {"ok", "interrupt"} => ToFallback(r) = Defer
<1>1. ToFallback(r) = IF r.o \in {"ok", "interrupt"} THEN r ELSE Defer
  BY DEF ToFallback
<1>2. r.o \in {"ok", "interrupt"} => CoreOut(r)
  BY StockKinds, OkOut, ExceptionsOut
<1> QED
  BY <1>1, <1>2, ExceptionsOut

(* The first item that stops a container, or all the values. *)
LEMMA UpToStopIs ==
  ASSUME NEW l \in Nat, NEW outs, Cores(l, outs)
  PROVE  \/ (\A j \in 1..l : outs[j].o = "ok") /\ UpToStop(outs) = Ok(Vals(outs))
         \/ \E k \in 1..l : /\ UpToStop(outs) = outs[k] /\ outs[k].o \in Stops
                            /\ \A j \in 1..k - 1 : outs[j].o = "ok"
<1>1. \A j \in 1..l : outs[j].o \in Stops \/ outs[j].o = "ok"
  BY CoreKinds DEF Cores, Stops
<1>2. CASE Some(outs, Stops)
  <2>1. PICK k \in 1..l : /\ FirstIn(outs, Stops) = outs[k] /\ outs[k].o \in Stops
                          /\ \A j \in 1..k - 1 : outs[j].o \notin Stops
    BY <1>2, FirstFound DEF Cores
  <2>2. UpToStop(outs) = outs[k]
    BY <1>2, <2>1 DEF UpToStop
  <2>3. \A j \in 1..k - 1 : j \in 1..l
    OBVIOUS
  <2> QED
    BY <1>1, <2>1, <2>2, <2>3
<1>3. CASE ~Some(outs, Stops)
  <2>1. UpToStop(outs) = Ok(Vals(outs))
    BY <1>3 DEF UpToStop
  <2>2. \A j \in 1..l : outs[j].o \notin Stops
    BY <1>3 DEF Some, Cores
  <2> QED
    BY <1>1, <2>1, <2>2
<1> QED
  BY <1>2, <1>3

LEMMA BuiltOfIs ==
  ASSUME NEW l \in Nat, NEW outs, Cores(l, outs), NEW type
  PROVE  /\ CoreOut(BuiltOf(type, outs))
         /\ \/ (\A j \in 1..l : outs[j].o = "ok") /\ BuiltOf(type, outs) = Ok(ListOf(type, Vals(outs)))
            \/ \E k \in 1..l : /\ BuiltOf(type, outs) = outs[k] /\ outs[k].o \in Stops
                               /\ \A j \in 1..k - 1 : outs[j].o = "ok"
<1> DEFINE r == UpToStop(outs)
<1>1. BuiltOf(type, outs) = IF r.o = "ok" THEN Ok(ListOf(type, r.v)) ELSE r
  BY DEF BuiltOf, Then
<1> HIDE DEF r
<1>2. CASE (\A j \in 1..l : outs[j].o = "ok") /\ r = Ok(Vals(outs))
  BY <1>1, <1>2, OkOut
<1>3. ASSUME NEW k \in 1..l, r = outs[k], outs[k].o \in Stops, \A j \in 1..k - 1 : outs[j].o = "ok"
      PROVE  /\ CoreOut(BuiltOf(type, outs)) /\ BuiltOf(type, outs) = outs[k] /\ outs[k].o \in Stops
             /\ \A j \in 1..k - 1 : outs[j].o = "ok"
  <2>1. r.o # "ok"
    BY <1>3 DEF Stops
  <2> QED
    BY <1>1, <1>3, <2>1 DEF Cores
<1> QED
  BY <1>2, <1>3, UpToStopIs DEF r

(* The entries of a typed Dict up to the first that stops it, or the dict of them all. *)
Members_(keys, vals) == [j \in DOMAIN vals |-> SetMember(keys[j], vals[j])]

LEMMA SetItemsIs ==
  ASSUME NEW l \in Nat, NEW keys, NEW vals, Cores(l, keys), Cores(l, vals)
  PROVE  /\ CoreOut(SetItems(keys, vals)) /\ Cores(l, Members_(keys, vals))
         /\ \A j \in 1..l : Members_(keys, vals)[j] = SetMember(keys[j], vals[j])
         /\ \/ /\ \A j \in 1..l : keys[j].o = "ok" /\ vals[j].o = "ok" /\ Hashable(keys[j].v)
               /\ SetItems(keys, vals) = Assigned(Vals(keys), Vals(vals))
               /\ SetItems(keys, vals).o = "ok"
            \/ \E k \in 1..l : /\ SetItems(keys, vals) = Members_(keys, vals)[k]
                               /\ Members_(keys, vals)[k].o \in Stops
                               /\ \A j \in 1..k - 1 : Members_(keys, vals)[j].o = "ok"
<1> DEFINE sets == Members_(keys, vals)
<1>1. \A j \in 1..l : sets[j] = SetMember(keys[j], vals[j])
  BY DEF Cores, Members_
<1>2. DOMAIN sets = 1..l
  BY DEF Cores, Members_
<1>3. Cores(l, sets)
  <2>1. \A j \in 1..l : CoreOut(SetMember(keys[j], vals[j]))
    BY ExceptionsOut DEF SetMember, Cores
  <2> QED
    BY <1>1, <1>2, <2>1 DEF Cores
<1>4. SetItems(keys, vals) = IF Some(sets, Stops) THEN FirstIn(sets, Stops) ELSE Assigned(Vals(keys), Vals(vals))
  BY DEF SetItems, Members_
<1>5. \A j \in 1..l : keys[j].o \in Stops \/ keys[j].o = "ok"
  BY CoreKinds DEF Cores, Stops
<1>6. \A j \in 1..l : sets[j].o \in Stops \/ sets[j].o = "ok"
  BY <1>3, CoreKinds DEF Cores, Stops
<1> HIDE DEF sets
<1>7. CASE Some(sets, Stops)
  <2>1. PICK k \in 1..l : /\ FirstIn(sets, Stops) = sets[k] /\ sets[k].o \in Stops
                          /\ \A j \in 1..k - 1 : sets[j].o \notin Stops
    BY <1>2, <1>7, FirstFound
  <2>2. SetItems(keys, vals) = sets[k]
    BY <1>4, <1>7, <2>1
  <2>3. \A j \in 1..k - 1 : j \in 1..l
    OBVIOUS
  <2>4. \A j \in 1..k - 1 : sets[j].o = "ok"
    BY <1>6, <2>1, <2>3
  <2> QED
    BY <1>1, <1>3, <2>1, <2>2, <2>4 DEF sets, Cores
<1>8. CASE ~Some(sets, Stops)
  <2>1. \A j \in 1..l : sets[j].o = "ok"
    BY <1>2, <1>6, <1>8 DEF Some
  <2>2. ASSUME NEW j \in 1..l  PROVE keys[j].o = "ok" /\ vals[j].o = "ok" /\ Hashable(keys[j].v)
    <3>1. SetMember(keys[j], vals[j]).o = "ok"
      BY <1>1, <2>1
    <3>2. keys[j].o \notin Stops
      BY <3>1 DEF SetMember, Stops
    <3>3. SetMember(keys[j], vals[j]) = IF vals[j].o = "ok" /\ ~Hashable(keys[j].v) THEN Raise ELSE vals[j]
      BY <3>2 DEF SetMember
    <3> QED
      BY <1>5, <3>1, <3>2, <3>3, ExceptionsOut
  <2>3. SetItems(keys, vals) = Assigned(Vals(keys), Vals(vals))
    BY <1>4, <1>8
  <2>4. DOMAIN Vals(keys) = 1..l /\ \A j \in 1..l : Vals(keys)[j] = keys[j].v
    BY DEF Vals, Cores
  <2>5. Assigned(Vals(keys), Vals(vals)).o = "ok"
    <3> DEFINE ks == Vals(keys)
               c == [i \in DOMAIN Firsts(ks) |-> Entry(ks[Firsts(ks)[i]], Vals(vals)[Lasts(ks)[i]])]
    <3>1. ~\E j \in DOMAIN ks : ~Hashable(ks[j])
      BY <2>2, <2>4
    <3>2. Assigned(ks, Vals(vals)) = Ok(DictOf(c))
      BY <3>1, AssignedIs
    <3> HIDE DEF c
    <3> QED
      BY <3>2, OkIs
  <2> QED
    BY <1>1, <1>3, <2>2, <2>3, <2>5, AssignedOut DEF sets
<1> QED
  BY <1>7, <1>8

(* check_validators: the value goes through, or is left to marshmallow, or is interrupted. *)
LEMMA DecideIs ==
  ASSUME NEW verdicts, NEW v
  PROVE  Decide(verdicts, v) \in {Ok(v), Interrupted, Defer}
BY DEF Decide

Checks(f, v) == [j \in DOMAIN f.vals |-> [o |-> Check(ParseValidator(BuildValidator(f.vals[j])), v)]]

LEMMA CheckValidatorsIs ==
  ASSUME NEW f, NEW r, CoreOut(r)
  PROVE  /\ r.o = "ok" => CheckValidators(f, r) = Decide(Checks(f, r.v), r.v)
         /\ r.o # "ok" => CheckValidators(f, r) = r
         /\ CoreOut(CheckValidators(f, r)) /\ CheckValidators(f, r) \in {r, Interrupted, Defer}
<1>1. CheckValidators(f, r) = IF r.o = "ok" THEN Decide(Checks(f, r.v), r.v) ELSE r
  BY DEF CheckValidators, Then, Checks
<1>2. r.o = "ok" => r = Ok(r.v)
  BY CoreKinds
<1> QED
  BY <1>1, <1>2, DecideIs, OkOut, ExceptionsOut

(* Without validators it is as it was. *)
LEMMA NoValidators ==
  ASSUME NEW f, NEW r, CoreOut(r), f.vals = <<>>
  PROVE  CheckValidators(f, r) = r
<1>1. ~Some(Checks(f, r.v), {"fail", "raise", "interrupt"})
  BY DEF Some, Checks
<1>2. Decide(Checks(f, r.v), r.v) = Ok(r.v)
  BY <1>1 DEF Decide
<1> QED
  BY <1>2, CheckValidatorsIs, CoreKinds

(* The hook of a schema takes a value to a value. *)
LEMMA PostLoadedIs ==
  ASSUME NEW f, f.kind = "Nested", NEW r, CoreOut(r)
  PROVE  /\ CoreOut(PostLoaded(f, r))
         /\ "post_load" \in f.opts /\ r.o = "ok" => PostLoaded(f, r) = Ok(PostLoadFn(f, r.v))
         /\ "post_load" \notin f.opts \/ r.o # "ok" => PostLoaded(f, r) = r
<1>1. PostLoaded(f, r) = IF "post_load" \in f.opts THEN IF r.o = "ok" THEN Ok(PostLoadFn(f, r.v)) ELSE r ELSE r
  BY VariantIs DEF PostLoaded, Then
<1> QED
  BY <1>1, OkOut

-----------------------------------------------------------------------------
(***************************************************************************)
(* An element comes to a value, to an AccelFallback or to an exception.    *)
(***************************************************************************)
CoreTyped(elements) == \A g \in DOMAIN elements : \A w \in Values : \A p \in Partials : CoreOut(elements[g][w][p])

(* What _build_load_element needs of the fields in a field. *)
LEMMA HasElementIs ==
  ASSUME NEW elements, NEW f, HasElement(elements, f)
  PROVE  /\ f.kind # "Foreign"
         /\ f.kind \in {"List", "Tuple"} => \A j \in DOMAIN f.inner : /\ f.inner[j] \in DOMAIN elements
                                                                      /\ f.inner[j].vals = <<>> /\ ~Processed(f.inner[j])
         /\ f.kind = "Dict" => \A j \in DOMAIN f.inner : f.inner[j] \in DOMAIN elements /\ ~Processed(f.inner[j])
         /\ f.kind = "Enum" => f.inner[1] \in DOMAIN elements
BY DEF HasElement, HasFieldProcessors

LEMMA HasInner ==
  ASSUME NEW elements, NEW m \in Nat, NEW f \in FieldsTo[m + 1], HasElement(elements, f)
  PROVE  /\ f.kind = "List" => f.inner[1] \in DOMAIN elements /\ f.inner[1].vals = <<>> /\ ~Processed(f.inner[1])
         /\ f.kind = "Dict" => /\ f.inner[1] \in DOMAIN elements /\ ~Processed(f.inner[1])
                              /\ f.inner[2] \in DOMAIN elements /\ ~Processed(f.inner[2])
<1>0. (f.kind = "List" => DOMAIN f.inner = 1..1) /\ (f.kind = "Dict" => DOMAIN f.inner = 1..2)
  BY FieldInner
<1>1. /\ f.kind = "List" => 1 \in DOMAIN f.inner
      /\ f.kind = "Dict" => 1 \in DOMAIN f.inner /\ 2 \in DOMAIN f.inner
  BY <1>0, 1 \in 1..1, 1 \in 1..2, 2 \in 1..2
<1> QED
  BY <1>1, HasElementIs

(* The fields of a schema: a callback, or an element and its validators. *)
LEMMA RunSpecIs ==
  ASSUME NEW elements, NEW n, NEW g, NEW v, NEW p
  PROVE  /\ Callback(elements, g) => RunSpec(elements, n, g, v, p) = ToFallback(DeserializeTo[n][g][v][p])
         /\ ~Callback(elements, g) /\ v = NoneVal =>
              RunSpec(elements, n, g, v, p) = IF g.none THEN Ok(v) ELSE Defer
         /\ ~Callback(elements, g) /\ v # NoneVal =>
              RunSpec(elements, n, g, v, p) = CheckValidators(g, elements[g][v][p])
         /\ ~Callback(elements, g) => ~Processed(g) /\ g \in DOMAIN elements
BY DEF RunSpec, Callback

LEMMA RunSpecOut ==
  ASSUME NEW elements, CoreTyped(elements), NEW n \in Nat, NEW g \in FieldsTo[n], NEW v \in Values, NEW p \in Partials
  PROVE  CoreOut(RunSpec(elements, n, g, v, p))
<1>1. CASE Callback(elements, g)
  BY <1>1, RunSpecIs, DeserializeOut, ToFallbackIs DEF DesOut
<1>2. CASE ~Callback(elements, g) /\ v = NoneVal
  BY <1>2, RunSpecIs, OkOut, ExceptionsOut
<1>3. CASE ~Callback(elements, g) /\ v # NoneVal
  <2>1. CoreOut(elements[g][v][p])
    BY <1>3, RunSpecIs DEF CoreTyped
  <2> QED
    BY <1>3, <2>1, RunSpecIs, CheckValidatorsIs
<1> QED
  BY <1>1, <1>2, <1>3

LEMMA RunOneOut ==
  ASSUME NEW elements, CoreTyped(elements), NEW n \in Nat, NEW f, f.inner[1] \in FieldsTo[n],
         NEW v \in Values, NEW p \in Partials
  PROVE  CoreOut(RunOne(elements, n, f, v, p)) /\ CoreOut(RunOne(elements, n, f, Wrapped(v), p))
<1>1. ASSUME NEW w, HasKey(w.c, InnerKey) => GetItem(w.c, InnerKey) \in Values
      PROVE  CoreOut(RunOne(elements, n, f, w, p))
  <2> DEFINE r == RunSpec(elements, n, f.inner[1], GetItem(w.c, InnerKey), p)
  <2>1. HasKey(w.c, InnerKey) => CoreOut(r)
    BY <1>1, RunSpecOut
  <2>2. RunOne(elements, n, f, w, p) =
          IF w.t # "dict" THEN Defer
          ELSE IF ~HasKey(w.c, InnerKey) THEN IF p = "all" /\ w.c = <<>> THEN Ok(w) ELSE Defer
          ELSE IF r.o = "ok" THEN IF \E j \in DOMAIN w.c : w.c[j].k # InnerKey THEN Defer ELSE Ok(Wrapped(r.v))
          ELSE r
    BY DEF RunOne, Then
  <2> HIDE DEF r
  <2> QED
    BY <2>1, <2>2, OkOut, ExceptionsOut
<1>2. HasKey(v.c, InnerKey) => GetItem(v.c, InnerKey) \in Values
  BY Parts, GetItemMade
<1>3. GetItem(Wrapped(v).c, InnerKey) \in Values
  BY WrappedRecord, ZenonT(60)
<1> QED
  BY <1>1, <1>2, <1>3

LEMMA RunOut ==
  ASSUME NEW elements, CoreTyped(elements), NEW n \in Nat, NEW f, f.inner[1] \in FieldsTo[n],
         NEW v \in Values, NEW p \in Partials
  PROVE  CoreOut(Run(elements, n, f, v, p)) /\ CoreOut(RunPluck(elements, n, f, v, p))
<1> DEFINE items == [j \in DOMAIN v.c |-> Wrapped(v.c[j].v)]
<1>1. Len(v.c) \in Nat /\ DOMAIN v.c = 1..Len(v.c) /\ \A j \in DOMAIN v.c : v.c[j].v \in Values
  BY Parts
<1>2. \A w \in Values : CoreOut(RunOne(elements, n, f, w, p)) /\ CoreOut(RunOne(elements, n, f, Wrapped(w), p))
  BY RunOneOut
<1>3. ASSUME NEW ws, DOMAIN ws = DOMAIN v.c, \A j \in DOMAIN v.c : CoreOut(RunOne(elements, n, f, ws[j], p))
      PROVE  CoreOut(RunMany(elements, n, f, ws, p))
  <2> DEFINE outs == [j \in DOMAIN ws |-> RunOne(elements, n, f, ws[j], p)]
  <2>1. Cores(Len(v.c), outs)
    BY <1>1, <1>3 DEF Cores
  <2>2. RunMany(elements, n, f, ws, p) = BuiltOf("list", outs)
    BY DEF RunMany
  <2> HIDE DEF outs
  <2> QED
    BY <1>1, <2>1, <2>2, BuiltOfIs
<1>4. CoreOut(RunMany(elements, n, f, Items(v), p))
  <2>1. DOMAIN Items(v) = DOMAIN v.c /\ \A j \in DOMAIN v.c : Items(v)[j] = v.c[j].v
    BY DEF Items
  <2> QED
    BY <1>1, <1>2, <1>3, <2>1
<1>5. CoreOut(RunMany(elements, n, f, items, p))
  <2>1. DOMAIN items = DOMAIN v.c /\ \A j \in DOMAIN v.c : items[j] = Wrapped(v.c[j].v)
    OBVIOUS
  <2> HIDE DEF items
  <2> QED
    BY <1>1, <1>2, <1>3, <2>1
<1>6. Run(elements, n, f, v, p) =
        IF "many" \notin f.opts THEN RunOne(elements, n, f, v, p)
        ELSE IF ListLike(v) THEN RunMany(elements, n, f, Items(v), p) ELSE Defer
  BY DEF Run
<1>7. RunPluck(elements, n, f, v, p) =
        IF "many" \notin f.opts THEN RunOne(elements, n, f, Wrapped(v), p)
        ELSE IF ListLike(v) THEN RunMany(elements, n, f, items, p) ELSE Defer
  BY DEF RunPluck
<1> HIDE DEF items
<1> QED
  BY <1>2, <1>4, <1>5, <1>6, <1>7, ExceptionsOut

(* The scalar elements. *)
LEMMA ApplyScalarOut ==
  ASSUME NEW f, NEW v
  PROVE  /\ CoreOut(ApplyStr(v)) /\ CoreOut(ApplyBoolean(f, v))
         /\ \A type : CoreOut(ApplyNumber(type, v))
         /\ \A r : CoreOut(r) => CoreOut(CheckNan(f, r))
         /\ CoreOut(ToFallback(UUIDCall(v))) /\ \A fn, w : CoreOut(ToFallback(Call(fn, w)))
         /\ \A x : CoreOut(ToFallback(EnumCall(f, x)))
<1>1. \A fn, w : CoreOut(ToFallback(Call(fn, w)))
  BY CallOut, ToFallbackIs
<1>2. CoreOut(ApplyStr(v))
  BY <1>1, OkOut, ExceptionsOut DEF ApplyStr
<1>3. CoreOut(ApplyBoolean(f, v))
  BY OkOut, ExceptionsOut DEF ApplyBoolean
<1>4. \A type : CoreOut(ApplyNumber(type, v))
  BY <1>1, OkOut, ExceptionsOut DEF ApplyNumber
<1>5. \A r : CoreOut(r) => CoreOut(CheckNan(f, r))
  BY OkOut, ExceptionsOut DEF CheckNan, Then
<1>6. CoreOut(ToFallback(UUIDCall(v))) /\ \A x : CoreOut(ToFallback(EnumCall(f, x)))
  BY <1>1 DEF UUIDCall, EnumCall
<1> QED
  BY <1>1, <1>2, <1>3, <1>4, <1>5, <1>6

(* The items of a List or Tuple, the keys and values of a Dict. *)
LEMMA ItemOut ==
  ASSUME NEW g, NEW w, NEW r
  PROVE  /\ CoreOut(r) => CoreOut(ListItem(g, w, r)) /\ CoreOut(TupleItem(w, r))
         /\ g.kind # "None" => (CoreOut(r) => CoreOut(DictPart(g, w, r)))
         /\ g.kind = "None" => CoreOut(DictPart(g, w, r))
BY OkOut, ExceptionsOut, CheckValidatorsIs DEF ListItem, TupleItem, DictPart

LEMMA ApplyOut ==
  ASSUME NEW elements, CoreTyped(elements), NEW n \in Nat, NEW f \in FieldsTo[n + 1], HasElement(elements, f),
         NEW v \in Values, NEW p \in Partials
  PROVE  CoreOut(Apply(elements, n, f, v, p))
<1>1. /\ Len(v.c) \in Nat /\ DOMAIN v.c = 1..Len(v.c)
      /\ \A j \in DOMAIN v.c : v.c[j].v \in Values /\ v.c[j].k \in Values
  BY Parts
<1>2. \A g \in DOMAIN elements : \A w \in Values : CoreOut(elements[g][w][p])
  BY DEF CoreTyped
<1>3. CASE f.kind \in {"None", "Raw", "String", "Integer", "Float", "Boolean", "UUID", "Temporal", "Constant"} \cup HeldKinds
  BY <1>3, ApplyIs, ApplyScalarOut, OkOut, ExceptionsOut
<1>4. CASE f.kind = "Enum"
  <2> DEFINE r == elements[f.inner[1]][v][p]
  <2>1. CoreOut(r)
    BY <1>2, <1>4, HasElementIs
  <2>2. ApplyEnum(f, v, r) = IF v.t = "enum" THEN Ok(v) ELSE IF r.o = "ok" THEN ToFallback(EnumCall(f, r.v)) ELSE r
    BY DEF ApplyEnum, Then
  <2>3. Apply(elements, n, f, v, p) = ApplyEnum(f, v, r)
    BY <1>4, ApplyIs
  <2> HIDE DEF r
  <2>4. CoreOut(ToFallback(EnumCall(f, r.v)))
    BY ApplyScalarOut
  <2> QED
    BY <2>1, <2>2, <2>3, <2>4, OkOut
<1>5. CASE f.kind = "List"
  <2> DEFINE outs == [j \in DOMAIN v.c |-> ListItem(f.inner[1], v.c[j].v, elements[f.inner[1]][v.c[j].v][p])]
  <2>1. f.inner[1] \in DOMAIN elements
    BY <1>5, HasInner, SMTT(40)
  <2>2. Cores(Len(v.c), outs)
    BY <1>1, <1>2, <2>1, ItemOut DEF Cores
  <2>3. ApplyList(elements, f, v, p) = IF ~ListLike(v) THEN Defer ELSE BuiltOf("list", outs)
    BY ZenonT(60) DEF ApplyList
  <2> HIDE DEF outs
  <2> QED
    BY <1>1, <1>5, <2>2, <2>3, ApplyIs, BuiltOfIs, ExceptionsOut
<1>6. CASE f.kind = "Tuple"
  <2> DEFINE outs == [j \in DOMAIN v.c |-> TupleItem(v.c[j].v, elements[f.inner[j]][v.c[j].v][p])]
  <2>1. Len(v.c) = Len(f.inner) => \A j \in DOMAIN v.c : f.inner[j] \in DOMAIN elements
    BY <1>1, <1>6, HasElementIs, FieldParts, SMTT(40)
  <2>2. Len(v.c) = Len(f.inner) => Cores(Len(v.c), outs)
    BY <1>1, <1>2, <2>1, ItemOut DEF Cores
  <2>3. ApplyTuple(elements, f, v, p) =
          IF ~ListLike(v) \/ Len(v.c) # Len(f.inner) THEN Defer ELSE BuiltOf("tuple", outs)
    BY ZenonT(60) DEF ApplyTuple
  <2> HIDE DEF outs
  <2> QED
    BY <1>1, <1>6, <2>2, <2>3, ApplyIs, BuiltOfIs, ExceptionsOut
<1>7. CASE f.kind = "Dict"
  <2> DEFINE keys == [j \in DOMAIN v.c |-> DictPart(f.inner[1], v.c[j].k, elements[f.inner[1]][v.c[j].k][p])]
             vals == [j \in DOMAIN v.c |-> DictPart(f.inner[2], v.c[j].v, elements[f.inner[2]][v.c[j].v][p])]
  <2>1. f.inner[1] \in DOMAIN elements /\ f.inner[2] \in DOMAIN elements
    BY <1>7, HasInner, SMTT(40)
  <2>2. Cores(Len(v.c), keys) /\ Cores(Len(v.c), vals)
    BY <1>1, <1>2, <2>1, ItemOut DEF Cores
  <2>3. ApplyDictTyped(elements, f, v, p) = IF v.t # "dict" THEN Defer ELSE SetItems(keys, vals)
    BY ZenonT(60) DEF ApplyDictTyped
  <2> HIDE DEF keys, vals
  <2>4. CoreOut(SetItems(keys, vals))
    BY <1>1, <2>2, SetItemsIs
  <2> QED
    BY <1>7, <2>3, <2>4, ApplyIs, OkOut, ExceptionsOut
<1>8. CASE f.kind \in {"Nested", "Pluck"}
  <2>1. CoreOut(Run(elements, n, f, v, p)) /\ CoreOut(RunPluck(elements, n, f, v, p))
    BY <1>8, FieldInner, RunOut
  <2> QED
    BY <1>8, <2>1, ApplyIs, PostLoadedIs
<1>9. f.kind \in Kinds /\ f.kind # "Foreign"
  BY FieldParts, HasElementIs
<1> QED
  BY <1>3, <1>4, <1>5, <1>6, <1>7, <1>8, <1>9 DEF Kinds

LEMMA ElementsOut ==
  ASSUME NEW n \in Nat
  PROVE  CoreTyped(Elements[n]) /\ DOMAIN Elements[n] \subseteq FieldsTo[n]
<1> DEFINE T == {m \in Nat : CoreTyped(Elements[m]) /\ DOMAIN Elements[m] \subseteq FieldsTo[m]}
<1>1. 0 \in T
  BY ElementsUnfold DEF CoreTyped
<1>2. ASSUME NEW m \in Nat, m \in T  PROVE m + 1 \in T
  <2>1. CoreTyped(Elements[m])
    BY <1>2
  <2>2. ASSUME NEW f \in DOMAIN Elements[m + 1], NEW v \in Values, NEW p \in Partials
        PROVE  CoreOut(Elements[m + 1][f][v][p])
    <3>1. Elements[m + 1][f][v][p] = Apply(Elements[m], m, f, v, p)
      BY ElementsAre
    <3>2. f \in FieldsTo[m + 1] /\ HasElement(Elements[m], f)
      BY ElementsAre
    <3> QED
      BY <2>1, <3>1, <3>2, ApplyOut
  <2> QED
    BY <2>2, ElementsAre DEF CoreTyped
<1> HIDE DEF T
<1>3. Nat \subseteq T
  BY <1>1, <1>2, LevelInduction
<1> QED
  BY <1>3 DEF T

-----------------------------------------------------------------------------
(* Off the JSON tree as well. *)
JsonTyped(json) == \A g \in DOMAIN json : \A jw \in JsonValues : \A p \in Partials : CoreOut(json[g][jw][p])

LEMMA RunSpecJsonOut ==
  ASSUME NEW json, JsonTyped(json), NEW g \in DOMAIN json, NEW jv \in JsonValues, NEW p \in Partials
  PROVE  CoreOut(RunSpecJson(json, g, jv, p))
<1>1. CoreOut(json[g][jv][p])
  BY DEF JsonTyped
<1> QED
  BY <1>1, CheckValidatorsIs, OkOut, ExceptionsOut DEF RunSpecJson

(* LoadSerializer::run_one_json, of an object that has no key but the field's. *)
LEMMA RunOneJsonIs ==
  ASSUME NEW json, NEW f, NEW jv \in JsonValues, NEW p
  PROVE  /\ (\/ jv.t # "dict"
             \/ \E j \in DOMAIN jv.c : jv.c[j].k # InnerKey
             \/ Callback(json, f.inner[1])
             \/ jv.c = <<>> /\ p # "all") => RunOneJson(json, f, jv, p) = Defer
         /\ jv.t = "dict" /\ ~Callback(json, f.inner[1]) /\ jv.c = <<>> /\ p = "all" =>
              RunOneJson(json, f, jv, p) = Ok(jv)
         /\ jv.t = "dict" /\ ~Callback(json, f.inner[1]) /\ jv.c # <<>>
              /\ (\A j \in DOMAIN jv.c : jv.c[j].k = InnerKey) =>
              RunOneJson(json, f, jv, p) =
                IF RunSpecJson(json, f.inner[1], GetItem(jv.c, InnerKey), p).o = "ok"
                THEN Ok(Wrapped(RunSpecJson(json, f.inner[1], GetItem(jv.c, InnerKey), p).v))
                ELSE RunSpecJson(json, f.inner[1], GetItem(jv.c, InnerKey), p)
<1> DEFINE r == RunSpecJson(json, f.inner[1], GetItem(jv.c, InnerKey), p)
<1>1. RunOneJson(json, f, jv, p) =
        IF \/ jv.t # "dict"
           \/ \E j \in DOMAIN jv.c : jv.c[j].k # InnerKey
           \/ Callback(json, f.inner[1])
        THEN Defer
        ELSE IF jv.c = <<>> THEN IF p = "all" THEN Ok(jv) ELSE Defer
        ELSE IF r.o = "ok" THEN Ok(Wrapped(r.v)) ELSE r
  BY DEF RunOneJson, Then
<1> HIDE DEF r
<1>2. ASSUME jv.c = <<>>  PROVE ~\E j \in DOMAIN jv.c : jv.c[j].k # InnerKey
  BY <1>2
<1> QED
  BY <1>1, <1>2 DEF r

LEMMA RunOneJsonOut ==
  ASSUME NEW json, JsonTyped(json), NEW f, NEW jv \in JsonValues, NEW p \in Partials
  PROVE  CoreOut(RunOneJson(json, f, jv, p))
<1> DEFINE r == RunSpecJson(json, f.inner[1], GetItem(jv.c, InnerKey), p)
<1>1. CASE jv.t = "dict" /\ ~Callback(json, f.inner[1]) /\ jv.c # <<>> /\ \A j \in DOMAIN jv.c : jv.c[j].k = InnerKey
  <2>1. GetItem(jv.c, InnerKey) \in JsonValues
    BY <1>1, JsonRecordIs, JsonParts
  <2>2. f.inner[1] \in DOMAIN json
    BY <1>1 DEF Callback
  <2>3. CoreOut(r)
    BY <2>1, <2>2, RunSpecJsonOut
  <2>4. RunOneJson(json, f, jv, p) = IF r.o = "ok" THEN Ok(Wrapped(r.v)) ELSE r
    BY <1>1, RunOneJsonIs, ZenonT(60)
  <2> HIDE DEF r
  <2> QED
    BY <2>3, <2>4, OkOut
<1>2. CASE ~(jv.t = "dict" /\ ~Callback(json, f.inner[1]) /\ jv.c # <<>> /\ \A j \in DOMAIN jv.c : jv.c[j].k = InnerKey)
  <2>1. RunOneJson(json, f, jv, p) \in {Defer, Ok(jv)}
    BY <1>2, RunOneJsonIs
  <2> QED
    BY <2>1, OkOut, ExceptionsOut
<1> QED
  BY <1>1, <1>2

LEMMA ApplyJsonOut ==
  ASSUME NEW n \in Nat, NEW json, JsonTyped(json), DOMAIN json = DOMAIN Elements[n],
         NEW f \in DOMAIN Elements[n + 1], NEW jv \in JsonValues, NEW p \in Partials
  PROVE  CoreOut(ApplyJson(json, n, f, jv, p))
<1>1. /\ Len(jv.c) \in Nat /\ DOMAIN jv.c = 1..Len(jv.c)
      /\ \A j \in DOMAIN jv.c : jv.c[j].v \in JsonValues /\ jv.c[j].k \in Values
  BY JsonParts, KeyIsValue, DepthAssumption DEF Values
<1>2. f \in FieldsTo[n + 1] /\ HasElement(Elements[n], f)
  BY ElementsAre
<1>3. \A g \in DOMAIN json : \A jw \in JsonValues : CoreOut(json[g][jw][p])
  BY DEF JsonTyped
<1>4. CoreOut(Elements[n + 1][f][JsonToPy(jv)][p])
  BY JsonToPyIs, ElementsOut, n + 1 \in Nat DEF CoreTyped
<1>5. CASE f.kind = "List"
  <2> DEFINE outs == [j \in DOMAIN jv.c |-> ListItem(f.inner[1], jv.c[j].v, json[f.inner[1]][jv.c[j].v][p])]
  <2>1. f.inner[1] \in DOMAIN json
    BY <1>2, <1>5, HasInner, SMTT(40)
  <2>2. Cores(Len(jv.c), outs)
    BY <1>1, <1>3, <2>1, ItemOut DEF Cores
  <2>3. ApplyListJson(json, f, jv, p) = IF jv.t # "list" THEN Defer ELSE BuiltOf("list", outs)
    BY ZenonT(60) DEF ApplyListJson
  <2> HIDE DEF outs
  <2> QED
    BY <1>1, <1>5, <2>2, <2>3, ApplyJsonIs, BuiltOfIs, ExceptionsOut, SMTT(40)
<1>6. CASE f.kind = "Tuple"
  <2> DEFINE outs == [j \in DOMAIN jv.c |-> TupleItem(jv.c[j].v, json[f.inner[j]][jv.c[j].v][p])]
  <2>1. Len(jv.c) = Len(f.inner) => \A j \in DOMAIN jv.c : f.inner[j] \in DOMAIN json
    BY <1>1, <1>2, <1>6, HasElementIs, FieldParts, SMTT(40)
  <2>2. Len(jv.c) = Len(f.inner) => Cores(Len(jv.c), outs)
    BY <1>1, <1>3, <2>1, ItemOut DEF Cores
  <2>3. ApplyTupleJson(json, f, jv, p) =
          IF jv.t # "list" \/ Len(jv.c) # Len(f.inner) THEN Defer ELSE BuiltOf("tuple", outs)
    BY ZenonT(60) DEF ApplyTupleJson
  <2> HIDE DEF outs
  <2> QED
    BY <1>1, <1>6, <2>2, <2>3, ApplyJsonIs, BuiltOfIs, ExceptionsOut
<1>7. CASE f.kind = "Dict" /\ f.inner # <<NoField, NoField>>
  <2> DEFINE keys == [j \in DOMAIN jv.c |-> DictPart(f.inner[1], jv.c[j].k, Elements[n][f.inner[1]][jv.c[j].k][p])]
             vals == [j \in DOMAIN jv.c |-> JsonPart(json, f.inner[2], jv.c[j].v, p)]
  <2>1. f.inner[1] \in DOMAIN Elements[n] /\ f.inner[2] \in DOMAIN json
    BY <1>2, <1>7, HasInner
  <2>2. \A w \in Values : CoreOut(Elements[n][f.inner[1]][w][p])
    BY <2>1, ElementsOut, SMTT(40) DEF CoreTyped
  <2>3. Cores(Len(jv.c), keys)
    BY <1>1, <2>2, ItemOut, SMTT(40) DEF Cores
  <2>4. \A j \in DOMAIN jv.c : CoreOut(JsonPart(json, f.inner[2], jv.c[j].v, p))
    BY <1>1, <1>3, <2>1, ItemOut, OkOut DEF JsonPart
  <2>5. Cores(Len(jv.c), vals)
    BY <1>1, <2>4 DEF Cores
  <2>6. ApplyDictTypedJson(json, n, f, jv, p) = IF jv.t # "dict" THEN Defer ELSE SetItems(keys, vals)
    BY ZenonT(60) DEF ApplyDictTypedJson
  <2> HIDE DEF keys, vals
  <2>7. CoreOut(SetItems(keys, vals))
    BY <1>1, <2>3, <2>5, SetItemsIs
  <2> QED
    BY <1>7, <2>6, <2>7, ApplyJsonIs, ExceptionsOut
<1>8. CASE f.kind = "Nested"
  <2> DEFINE outs == [j \in DOMAIN jv.c |-> RunOneJson(json, f, jv.c[j].v, p)]
  <2>1. CoreOut(RunOneJson(json, f, jv, p)) /\ Cores(Len(jv.c), outs)
    BY <1>1, RunOneJsonOut DEF Cores
  <2>2. RunJson(json, f, jv, p) =
          IF "many" \notin f.opts THEN RunOneJson(json, f, jv, p)
          ELSE IF jv.t = "list" THEN BuiltOf("list", outs) ELSE Defer
    BY DEF RunJson
  <2> HIDE DEF outs
  <2>3. CoreOut(RunJson(json, f, jv, p))
    BY <1>1, <2>1, <2>2, BuiltOfIs, ExceptionsOut
  <2> QED
    BY <1>8, <2>3, ApplyJsonIs, PostLoadedIs
<1>9. CASE f.kind \in {"Float", "Boolean"}
  <2>1. CoreOut(CheckNan(f, Ok(Val("float", jv.a)))) /\ CoreOut(Ok(jv))
    BY ApplyScalarOut, OkOut
  <2> QED
    BY <1>4, <1>9, <2>1, ApplyJsonIs
<1>10. CASE \/ f.kind \in {"None", "Raw", "String", "Integer", "UUID", "Temporal", "Constant", "Enum", "Pluck"}
            \/ f.kind \in HeldKinds
            \/ f.kind = "Dict" /\ f.inner = <<NoField, NoField>>
  BY <1>4, <1>10, ApplyJsonIs
<1>11. f.kind \in Kinds /\ f.kind # "Foreign"
  BY <1>2, FieldParts, HasElementIs
<1> QED
  BY <1>5, <1>6, <1>7, <1>8, <1>9, <1>10, <1>11 DEF Kinds

LEMMA JsonElementsOut ==
  ASSUME NEW n \in Nat
  PROVE  JsonTyped(JsonElements[n])
<1> DEFINE T == {m \in Nat : JsonTyped(JsonElements[m])}
<1>1. 0 \in T
  BY JsonElementsUnfold DEF JsonTyped
<1>2. ASSUME NEW m \in Nat, m \in T  PROVE m + 1 \in T
  <2>1. JsonTyped(JsonElements[m]) /\ DOMAIN JsonElements[m] = DOMAIN Elements[m]
    BY <1>2, JsonElementsAre
  <2>2. DOMAIN JsonElements[m + 1] = DOMAIN Elements[m + 1]
    BY JsonElementsAre, m + 1 \in Nat
  <2>3. ASSUME NEW f \in DOMAIN Elements[m + 1], NEW jv \in JsonValues, NEW p \in Partials
        PROVE  CoreOut(JsonElements[m + 1][f][jv][p])
    BY <2>1, JsonElementsAre, ApplyJsonOut
  <2> QED
    BY <2>2, <2>3 DEF JsonTyped
<1> HIDE DEF T
<1>3. Nat \subseteq T
  BY <1>1, <1>2, LevelInduction
<1> QED
  BY <1>3 DEF T

-----------------------------------------------------------------------------
(***************************************************************************)
(* The inductive invariant: what the field is given, and that a result is  *)
(* what the loop of LoadSerializer makes of it.                            *)
(***************************************************************************)
GivenOK ==
  /\ field \in Fields /\ source \in {"dict", "json"} /\ partial \in Partials
  /\ source = "dict" => value \in Values
  /\ source = "json" => value \in JsonInputs

ResultOK ==
  \/ result = Pending
  \/ source = "dict" /\ result = Loaded(field, value, partial)
  \/ source = "json" /\ IsFusable(field) /\ result = RunSpecJson(JsonElements[Levels], field, value, partial)

IInv == GivenOK /\ ResultOK

LEMMA InitIInv == Init => IInv
BY InputsAssumption DEF Init, IInv, GivenOK, ResultOK

LEMMA NextIInv == IInv /\ [Next]_vars => IInv'
<1> SUFFICES ASSUME IInv, [Next]_vars  PROVE IInv'
  OBVIOUS
<1>1. CASE LoadValue
  BY <1>1 DEF LoadValue, IInv, GivenOK, ResultOK
<1>2. CASE LoadJson
  BY <1>2 DEF LoadJson, IInv, GivenOK, ResultOK
<1>3. CASE DecodeJson
  <2>1. value \in JsonValues
    BY <1>3, InputsAssumption DEF DecodeJson, IInv, GivenOK
  <2>2. JsonToPy(value) \in Values
    BY <2>1, JsonToPyIs
  <2> QED
    BY <1>3, <2>2 DEF DecodeJson, IInv, GivenOK, ResultOK
<1>4. CASE UNCHANGED vars
  BY <1>4 DEF vars, IInv, GivenOK, ResultOK, Loaded
<1> QED
  BY <1>1, <1>2, <1>3, <1>4 DEF Next

(* In every reachable state the result is one the load loop computes for the given value. *)
LEMMA Invariance == Spec => []IInv
BY InitIInv, NextIInv, PTL DEF Spec

(* What the invariant says of the result, for every field of the schema. *)
LEMMA ResultIs ==
  ASSUME IInv
  PROVE  /\ field \in FieldsTo[Levels] /\ Levels \in Nat \ {0} /\ partial \in Partials
         /\ source = "dict" => value \in Values
         /\ source = "json" => value \in JsonValues /\ JsonToPy(value) \in Values
         /\ source = "json" /\ result # Pending => field \in DOMAIN Elements[Levels] /\ field \in Fusable[Levels]
         /\ result # Pending => CoreOut(result)
<1>1. /\ field \in FieldsTo[Levels] /\ Levels \in Nat \ {0} /\ partial \in Partials
      /\ source = "dict" => value \in Values
      /\ source = "json" => value \in JsonValues
  BY InputsAssumption, DepthAssumption DEF IInv, GivenOK
<1>2. source = "json" => JsonToPy(value) \in Values
  BY <1>1, JsonToPyIs
<1>3. source = "json" /\ result # Pending => field \in DOMAIN Elements[Levels] /\ field \in Fusable[Levels]
  BY DEF IInv, ResultOK, IsFusable, Callback
<1>4. source = "dict" => CoreOut(Loaded(field, value, partial))
  BY <1>1, ElementsOut, RunSpecOut DEF Loaded
<1>5. source = "json" /\ result # Pending => CoreOut(RunSpecJson(JsonElements[Levels], field, value, partial))
  BY <1>1, <1>3, JsonElementsOut, JsonElementsAre, RunSpecJsonOut
<1> QED
  BY <1>1, <1>2, <1>3, <1>4, <1>5 DEF IInv, GivenOK, ResultOK

(***************************************************************************)
(* The loop gets a value, an AccelFallback or an exception of every        *)
(* element, off the dict and off the JSON tree                             *)
(* (src/load/element.rs:442, src/load/serializer.rs:161).                  *)
(***************************************************************************)
THEOREM TypeCorrect == Spec => []TypeOK
<1>1. ASSUME IInv  PROVE TypeOK
  <2>1. result = Pending \/ CoreOut(result)
    BY <1>1, ResultIs
  <2>2. CoreOut(result) => /\ result.o \in {"pending", "ok", "defer", "raise", "interrupt"}
                           /\ result.o # "ok" => result.v = NoneVal
    BY CoreKinds DEF Defer, Raise, Interrupted
  <2>3. result = Pending => result.o = "pending" /\ result.v = NoneVal
    BY DEF Pending
  <2> QED
    BY <1>1, <2>1, <2>2, <2>3 DEF TypeOK, IInv, GivenOK
<1> QED
  BY <1>1, Invariance, PTL

-----------------------------------------------------------------------------
(***************************************************************************)
(* How the core and marshmallow agree: a value is the same value, and an   *)
(* exception is an exception.                                              *)
(***************************************************************************)
Agrees(core, stock) == (core.o = "ok" => stock = core) /\ (core.o \in Errors => stock.o \in Errors)

LEMMA AgreesEasily ==
  /\ \A s : Agrees(Defer, s)
  /\ \A r : Agrees(r, r)
BY ExceptionsOut DEF Agrees, Errors

(* to_fallback of what marshmallow itself does. *)
LEMMA FallbackAgrees ==
  ASSUME NEW r, StockOut(r)
  PROVE  Agrees(ToFallback(r), r)
BY ToFallbackIs, AgreesEasily

(***************************************************************************)
(* Validator::check (src/load/validators.rs:60): a value that passes it    *)
(* passes the validator of marshmallow, and what interrupts it interrupts  *)
(* that too.                                                               *)
(***************************************************************************)
LEMMA ValidatorParts ==
  ASSUME NEW val
  PROVE  /\ val.kind = "Range" => ParseValidator(BuildValidator(val)) =
              [kind |-> "Range", min |-> val.min, max |-> val.max,
               min_inclusive |-> val.min_inclusive, max_inclusive |-> val.max_inclusive]
         /\ val.kind = "Length" => ParseValidator(BuildValidator(val)) =
              [kind |-> "Length", min |-> val.min, max |-> val.max, equal |-> val.equal]
         /\ val.kind \in {"OneOf", "Equal", "NoneOf", "ContainsOnly"} => ParseValidator(BuildValidator(val)) =
              [kind |-> val.kind, choices |-> val.choices]
         /\ val.kind = "Callable" => ParseValidator(BuildValidator(val)) =
              [kind |-> "Python", choices |-> val.choices]
<1> DEFINE t == BuildValidator(val)
<1>1. CASE val.kind = "Range"
  <2>1. t = <<0, val.min, val.max, val.min_inclusive, val.max_inclusive>>
    BY <1>1 DEF BuildValidator
  <2> HIDE DEF t
  <2>2. t[1] = 0 /\ t[2] = val.min /\ t[3] = val.max /\ t[4] = val.min_inclusive /\ t[5] = val.max_inclusive
    BY <2>1
  <2>3. ParseValidator(t) = [kind |-> "Range", min |-> t[2], max |-> t[3], min_inclusive |-> t[4], max_inclusive |-> t[5]]
    BY <2>2 DEF ParseValidator
  <2> QED
    BY <1>1, <2>2, <2>3 DEF t
<1>2. CASE val.kind = "Length"
  <2>1. t = <<1, val.min, val.max, val.equal>>
    BY <1>2 DEF BuildValidator
  <2> HIDE DEF t
  <2>2. t[1] = 1 /\ t[2] = val.min /\ t[3] = val.max /\ t[4] = val.equal
    BY <2>1
  <2>3. ParseValidator(t) = [kind |-> "Length", min |-> t[2], max |-> t[3], equal |-> t[4]]
    BY <2>2 DEF ParseValidator
  <2> QED
    BY <1>2, <2>2, <2>3 DEF t
<1>3. CASE val.kind \in {"OneOf", "Equal", "NoneOf", "ContainsOnly", "Callable"}
  <2> DEFINE i == CASE val.kind = "OneOf" -> 2 [] val.kind = "Equal" -> 3 [] val.kind = "NoneOf" -> 4
                    [] val.kind = "ContainsOnly" -> 5 [] val.kind = "Callable" -> 6
             kinds == <<"OneOf", "Equal", "NoneOf", "ContainsOnly", "Python">>
  <2>1. t = <<i, val.choices>> /\ i \in 2..6
    BY <1>3 DEF BuildValidator
  <2>2. kinds[i - 1] = IF val.kind = "Callable" THEN "Python" ELSE val.kind
    BY <1>3
  <2> HIDE DEF t, i, kinds
  <2>3. t[1] = i /\ t[2] = val.choices
    BY <2>1
  <2>4. ParseValidator(t) = [kind |-> kinds[t[1] - 1], choices |-> t[2]]
    BY <2>1, <2>3 DEF ParseValidator, kinds
  <2> QED
    BY <1>3, <2>2, <2>3, <2>4 DEF t
<1> QED
  BY <1>1, <1>2, <1>3

Failures == {"fail", "raise", "interrupt"}

(* A membership test; an evil value is interrupted. *)
LEMMA MembershipIs ==
  ASSUME NEW v, NEW choices
  PROVE  /\ In(v, choices) \in {"yes", "no", "typeerror", "interrupt"}
         /\ v.t = "evil" <=> In(v, choices) = "interrupt"
         /\ v.t # "evil" /\ In(v, choices) = "yes" => \E w \in choices.members : PyEq(w, v)
BY DEF In

LEMMA CheckAgrees ==
  ASSUME NEW val \in Validators, NEW v
  PROVE  LET c == Check(ParseValidator(BuildValidator(val)), v)
             s == StockValidate(val, v)
         IN  (c \notin Failures => s \notin Failures) /\ (c = "interrupt" => s = "interrupt")
<1> DEFINE pv == ParseValidator(BuildValidator(val))
           c == Check(pv, v)
           s == StockValidate(val, v)
           Good == (c \notin Failures => s \notin Failures) /\ (c = "interrupt" => s = "interrupt")
<1> SUFFICES Good
  OBVIOUS
<1>1. CASE val.kind = "Range"
  <2>1. pv = [kind |-> "Range", min |-> val.min, max |-> val.max,
              min_inclusive |-> val.min_inclusive, max_inclusive |-> val.max_inclusive]
    BY <1>1, ValidatorParts
  <2> HIDE DEF pv
  <2>2. /\ pv.kind = "Range" /\ pv.min = val.min /\ pv.max = val.max
        /\ pv.min_inclusive = val.min_inclusive /\ pv.max_inclusive = val.max_inclusive
    BY <2>1
  <2>3. /\ val.min \in SUBSET Int /\ val.max \in SUBSET Int
        /\ val.min_inclusive \in BOOLEAN /\ val.max_inclusive \in BOOLEAN
    BY <1>1, ValidatorsAssumption DEF ChoiceKinds
  <2>4. Number(v.a) \in Int
    BY DepthAssumption DEF Number
  <2>5. ASSUME NEW n \in Int  PROVE CheckRange(pv, n) <=> ~RangeFails(val, n)
    BY <2>2, <2>3 DEF CheckRange, RangeFails
  <2>6. CheckRange(pv, Number(v.a)) <=> ~RangeFails(val, Number(v.a))
    BY <2>4, <2>5
  <2>7. c = IF pv.min \cup pv.max = {} THEN "pass"
            ELSE IF v.t = "evil" THEN "interrupt"
            ELSE IF Numeric(v) THEN Verdict(v.a = "nan" \/ CheckRange(pv, Number(v.a))) ELSE "raise"
    BY <2>2 DEF Check
  <2>8. s = IF val.min \cup val.max = {} THEN "pass"
            ELSE IF v.t = "evil" THEN "interrupt"
            ELSE IF ~Numeric(v) THEN "raise"
            ELSE Verdict(v.a = "nan" \/ ~RangeFails(val, Number(v.a)))
    BY <1>1 DEF StockValidate
  <2> HIDE DEF c, s
  <2> QED
    BY <2>2, <2>6, <2>7, <2>8 DEF Verdict, Failures
<1>2. CASE val.kind = "Length"
  <2>1. pv = [kind |-> "Length", min |-> val.min, max |-> val.max, equal |-> val.equal]
    BY <1>2, ValidatorParts
  <2> HIDE DEF pv
  <2>2. pv.kind = "Length" /\ pv.min = val.min /\ pv.max = val.max /\ pv.equal = val.equal
    BY <2>1
  <2>3. LengthFails(pv, Length(v)) <=> LengthFails(val, Length(v))
    BY <2>2 DEF LengthFails
  <2>4. c = IF v.t = "evil" THEN "interrupt" ELSE IF Sized(v) THEN Verdict(~LengthFails(pv, Length(v))) ELSE "raise"
    BY <2>2 DEF Check
  <2>5. s = IF v.t = "evil" THEN "interrupt" ELSE IF ~Sized(v) THEN "raise" ELSE Verdict(~LengthFails(val, Length(v)))
    BY <1>2 DEF StockValidate
  <2> HIDE DEF c, s
  <2> QED
    BY <2>3, <2>4, <2>5 DEF Verdict, Failures
<1>3. CASE val.kind \in {"OneOf", "Equal", "NoneOf", "ContainsOnly"}
  <2> DEFINE in == In(v, val.choices)
  <2>1. pv = [kind |-> val.kind, choices |-> val.choices]
    BY <1>3, ValidatorParts
  <2> HIDE DEF pv
  <2>2. pv.kind = val.kind /\ pv.choices = val.choices
    BY <2>1
  <2>3. /\ in \in {"yes", "no", "typeerror", "interrupt"} /\ (v.t = "evil" <=> in = "interrupt")
        /\ v.t # "evil" /\ in = "yes" => \E w \in val.choices.members : PyEq(w, v)
    BY MembershipIs
  <2>4. CASE val.kind = "Equal"
    <3>1. c = Membership(in, "pass", "fail", "raise")
      BY <2>2, <2>4 DEF Check
    <3>2. s = IF v.t = "evil" THEN "interrupt" ELSE Verdict(\E w \in val.choices.members : PyEq(w, v))
      BY <2>4 DEF StockValidate
    <3> HIDE DEF c, s, in
    <3> QED
      BY <2>3, <3>1, <3>2 DEF Membership, Verdict, Failures
  <2>5. CASE val.kind = "OneOf"
    <3>1. c = Membership(in, "pass", "fail", "raise")
      BY <2>2, <2>5 DEF Check
    <3>2. s = Membership(in, "pass", "fail", "fail")
      BY <2>5 DEF StockValidate
    <3> HIDE DEF c, s, in
    <3> QED
      BY <2>3, <3>1, <3>2 DEF Membership, Failures
  <2>6. CASE val.kind = "NoneOf"
    <3>1. c = Membership(in, "fail", "pass", "pass")
      BY <2>2, <2>6 DEF Check
    <3>2. s = Membership(in, "fail", "pass", "pass")
      BY <2>6 DEF StockValidate
    <3> QED
      BY <3>1, <3>2
  <2>7. CASE val.kind = "ContainsOnly"
    <3>1. c = IF v.t = "evil" THEN "interrupt" ELSE IF ListLike(v) THEN OnlyIn(v, val.choices) ELSE "raise"
      BY <2>2, <2>7 DEF Check
    <3>2. s = IF v.t = "evil" THEN "interrupt" ELSE IF ListLike(v) THEN OnlyIn(v, val.choices) ELSE "raise"
      BY <2>7 DEF StockValidate
    <3> QED
      BY <3>1, <3>2
  <2> QED
    BY <1>3, <2>4, <2>5, <2>6, <2>7
<1>4. CASE val.kind = "Callable"
  <2>1. pv = [kind |-> "Python", choices |-> val.choices]
    BY <1>4, ValidatorParts
  <2> HIDE DEF pv
  <2>2. pv.kind = "Python" /\ pv.choices = val.choices
    BY <2>1
  <2>3. c = IF v.t = "evil" THEN "interrupt" ELSE Verdict(v \notin val.choices.members)
    BY <2>2 DEF Check
  <2>4. s = IF v.t = "evil" THEN "interrupt" ELSE Verdict(v \notin val.choices.members)
    BY <1>4 DEF StockValidate
  <2> QED
    BY <2>3, <2>4
<1>5. val.kind \in {"Range", "Length", "OneOf", "Equal", "NoneOf", "ContainsOnly", "Callable"}
  BY ValidatorsAssumption DEF ChoiceKinds
<1> HIDE DEF Good
<1> QED
  BY <1>1, <1>2, <1>3, <1>4, <1>5

(***************************************************************************)
(* check_validators: all of them let the value through, or the first that  *)
(* does not decides; Field._validate lets them all run.                    *)
(***************************************************************************)
LEMMA DecideAgrees ==
  ASSUME NEW l \in Nat, NEW cs, NEW ss, DOMAIN cs = 1..l, DOMAIN ss = 1..l, NEW v,
         \A j \in 1..l : /\ cs[j].o \notin Failures => ss[j].o \notin Failures
                         /\ cs[j].o = "interrupt" => ss[j].o = "interrupt"
  PROVE  Agrees(Decide(cs, v), Judge(ss, v))
<1>1. Decide(cs, v) = IF ~Some(cs, Failures) THEN Ok(v)
                      ELSE IF FirstIn(cs, Failures).o = "interrupt" THEN Interrupted ELSE Defer
  BY DEF Decide, Failures
<1>2. CASE ~Some(cs, Failures)
  <2>1. \A j \in 1..l : ss[j].o \notin Failures
    BY <1>2 DEF Some
  <2>2. Judge(ss, v) = Ok(v)
    BY <2>1 DEF Judge, Some, Failures
  <2> QED
    BY <1>1, <1>2, <2>2, AgreesEasily
<1>3. CASE Some(cs, Failures)
  <2>1. PICK k \in 1..l : FirstIn(cs, Failures) = cs[k] /\ cs[k].o \in Failures
    BY <1>3, FirstFound
  <2>2. CASE cs[k].o = "interrupt"
    <3>1. Some(ss, Errors)
      BY <2>2 DEF Some, Errors
    <3>2. Judge(ss, v).o \in Errors
      BY <3>1, JudgeOut
    <3>3. Decide(cs, v) = Interrupted
      BY <1>1, <1>3, <2>1, <2>2
    <3> QED
      BY <3>2, <3>3, ExceptionsOut DEF Agrees
  <2>3. CASE cs[k].o # "interrupt"
    BY <1>1, <1>3, <2>1, <2>3, AgreesEasily
  <2> QED
    BY <2>2, <2>3
<1> QED
  BY <1>2, <1>3

LEMMA ChecksAgree ==
  ASSUME NEW m \in Nat, NEW f \in FieldsTo[m + 1], NEW v
  PROVE  Agrees(Decide(Checks(f, v), v), StockValidated(f.vals, v))
<1> DEFINE ss == [j \in DOMAIN f.vals |-> [o |-> StockValidate(f.vals[j], v)]]
           cs == Checks(f, v)
           l == Len(f.vals)
<1>1. l \in Nat /\ DOMAIN f.vals = 1..l /\ \A j \in 1..l : f.vals[j] \in Validators
  BY FieldParts
<1>2. /\ DOMAIN cs = 1..l /\ DOMAIN ss = 1..l
      /\ \A j \in 1..l : cs[j].o = Check(ParseValidator(BuildValidator(f.vals[j])), v)
      /\ \A j \in 1..l : ss[j].o = StockValidate(f.vals[j], v)
  BY <1>1 DEF Checks
<1>3. StockValidated(f.vals, v) = Judge(ss, v)
  BY DEF StockValidated
<1> HIDE DEF cs, ss, l
<1>4. \A j \in 1..l : /\ cs[j].o \notin Failures => ss[j].o \notin Failures
                      /\ cs[j].o = "interrupt" => ss[j].o = "interrupt"
  BY <1>1, <1>2, CheckAgrees
<1>5. Agrees(Decide(cs, v), Judge(ss, v))
  BY <1>1, <1>2, <1>4, DecideAgrees
<1> QED
  BY <1>3, <1>5 DEF cs

(* An element and the validators against _deserialize and _validate. *)
LEMMA NativeAgrees ==
  ASSUME NEW m \in Nat, NEW f \in FieldsTo[m + 1], f.kind # "None", ~Processed(f),
         NEW des, NEW v, v # NoneVal, NEW p, NEW r, CoreOut(r), StockOut(DeserializeRaw(des, f, v, p)),
         Agrees(r, DeserializeRaw(des, f, v, p))
  PROVE  Agrees(CheckValidators(f, r), DeserializeValue(des, f, v, p))
<1> DEFINE raw == DeserializeRaw(des, f, v, p)
           judged == IF raw.o = "ok" THEN StockValidated(f.vals, raw.v) ELSE raw
           s == DeserializeValue(des, f, v, p)
<1>1. s = IF judged.o = "ok" THEN Ok(judged.v) ELSE judged
  BY DEF DeserializeValue, Then, Process
<1>2. StockOut(judged)
  BY FieldParts, StockValidatedOut
<1>3. s = judged
  <2> HIDE DEF judged
  <2> QED
    BY <1>1, <1>2, StockKinds
<1>4. CASE r.o = "ok"
  <2>1. raw = r
    BY <1>4 DEF Agrees
  <2>2. judged = StockValidated(f.vals, r.v)
    BY <1>4, <2>1
  <2>3. CheckValidators(f, r) = Decide(Checks(f, r.v), r.v)
    BY <1>4, CheckValidatorsIs
  <2> HIDE DEF judged, s
  <2> QED
    BY <1>3, <2>2, <2>3, ChecksAgree DEF s
<1>5. CASE r.o # "ok"
  <2>1. CheckValidators(f, r) = r
    BY <1>5, CheckValidatorsIs
  <2>2. r.o \in Errors => judged.o \in Errors
    BY DEF Agrees, Errors
  <2> HIDE DEF judged, s
  <2> QED
    BY <1>3, <1>5, <2>1, <2>2 DEF Agrees, s
<1> QED
  BY <1>4, <1>5

-----------------------------------------------------------------------------
(***************************************************************************)
(* Containers: if the items agree, what is made of them agrees.            *)
(***************************************************************************)
ItemsAgree(l, outs, stock) == Cores(l, outs) /\ Outs(l, stock) /\ \A j \in 1..l : Agrees(outs[j], stock[j])

LEMMA AllAgree ==
  ASSUME NEW l \in Nat, NEW outs, NEW stock, ItemsAgree(l, outs, stock), \A j \in 1..l : outs[j].o = "ok"
  PROVE  /\ \A j \in 1..l : stock[j] = outs[j]
         /\ DOMAIN Vals(outs) = 1..l /\ \A j \in 1..l : Vals(outs)[j] = outs[j].v
         /\ Vals(stock) = Vals(outs)
         /\ Collect(stock) = Ok(Vals(outs))
<1>1. \A j \in 1..l : stock[j] = outs[j]
  BY DEF ItemsAgree, Agrees
<1>2. DOMAIN outs = 1..l /\ DOMAIN stock = 1..l
  BY DEF ItemsAgree, Cores, Outs
<1>3. Vals(stock) = Vals(outs)
  BY <1>1, <1>2 DEF Vals
<1>4. DOMAIN Vals(outs) = 1..l /\ \A j \in 1..l : Vals(outs)[j] = outs[j].v
  BY <1>2 DEF Vals
<1>5. Collect(stock) = Ok(Vals(stock))
  BY <1>1, CollectOut DEF ItemsAgree
<1> QED
  BY <1>1, <1>3, <1>4, <1>5

LEMMA StopAgrees ==
  ASSUME NEW l \in Nat, NEW outs, NEW stock, ItemsAgree(l, outs, stock), NEW k \in 1..l, outs[k].o \in Errors
  PROVE  /\ Some(stock, Errors) /\ Collect(stock).o \in Errors
         /\ \A type : Collected(type, stock).o \in Errors
<1>1. Outs(l, stock) /\ stock[k].o \in Errors /\ k \in DOMAIN stock
  BY DEF ItemsAgree, Agrees, Outs
<1>2. Some(stock, Errors)
  BY <1>1 DEF Some
<1> QED
  BY <1>1, <1>2, CollectOut, CollectedOut

LEMMA ListAgrees ==
  ASSUME NEW l \in Nat, NEW outs, NEW stock, ItemsAgree(l, outs, stock), NEW type
  PROVE  Agrees(BuiltOf(type, outs), Collected(type, stock))
<1> DEFINE b == BuiltOf(type, outs)
           c == Collected(type, stock)
<1> SUFFICES Agrees(b, c)
  OBVIOUS
<1>1. CASE (\A j \in 1..l : outs[j].o = "ok") /\ b = Ok(ListOf(type, Vals(outs)))
  <2>1. \A j \in 1..l : stock[j].o = "ok"
    BY <1>1, AllAgree
  <2>2. c = Ok(ListOf(type, Vals(stock)))
    BY <2>1, CollectedOut DEF ItemsAgree
  <2>3. Vals(stock) = Vals(outs)
    BY <1>1, AllAgree
  <2>4. c = b
    BY <1>1, <2>2, <2>3
  <2> QED
    BY <2>4, AgreesEasily
<1>2. ASSUME NEW k \in 1..l, b = outs[k], outs[k].o \in Stops
      PROVE  Agrees(b, c)
  <2>1. outs[k].o \in Errors => c.o \in Errors
    BY StopAgrees
  <2>2. outs[k].o # "ok"
    BY <1>2 DEF Stops
  <2> HIDE DEF b, c
  <2> QED
    BY <1>2, <2>1, <2>2 DEF Agrees
<1>3. Cores(l, outs)
  BY DEF ItemsAgree
<1>4. \/ (\A j \in 1..l : outs[j].o = "ok") /\ b = Ok(ListOf(type, Vals(outs)))
      \/ \E k \in 1..l : b = outs[k] /\ outs[k].o \in Stops
  BY <1>3, BuiltOfIs
<1> HIDE DEF b, c
<1> QED
  BY <1>1, <1>2, <1>4

(* A key that cannot be hashed raises in both. *)
LEMMA DictAgrees ==
  ASSUME NEW l \in Nat, NEW keys, NEW vals, NEW skeys, NEW svals,
         ItemsAgree(l, keys, skeys), ItemsAgree(l, vals, svals)
  PROVE  Agrees(SetItems(keys, vals), StockDict(skeys, svals))
<1> DEFINE sets == [j \in DOMAIN svals |-> StockSet(skeys[j], svals[j])]
           core == SetItems(keys, vals)
           stock == StockDict(skeys, svals)
           members == Members_(keys, vals)
<1> SUFFICES Agrees(core, stock)
  OBVIOUS
<1>1. Cores(l, keys) /\ Cores(l, vals) /\ Outs(l, skeys) /\ Outs(l, svals)
  BY DEF ItemsAgree
<1>2. stock = IF Some(skeys, Errors) THEN FirstIn(skeys, Errors)
              ELSE IF Some(sets, Errors) THEN FirstIn(sets, Errors)
              ELSE IF Some(skeys, {"invalid"}) \/ Some(svals, {"invalid"}) THEN Invalid
              ELSE Assigned(Vals(skeys), Vals(svals))
  BY DEF StockDict
<1>3. DOMAIN sets = 1..l /\ \A j \in 1..l : sets[j] = StockSet(skeys[j], svals[j])
  BY <1>1 DEF Outs
<1> HIDE DEF sets, core, stock, members
<1>4. CASE /\ \A j \in 1..l : keys[j].o = "ok" /\ vals[j].o = "ok" /\ Hashable(keys[j].v)
           /\ core = Assigned(Vals(keys), Vals(vals))
  <2>1. \A j \in 1..l : skeys[j] = keys[j] /\ svals[j] = vals[j]
    BY <1>4, AllAgree
  <2>2. Vals(skeys) = Vals(keys) /\ Vals(svals) = Vals(vals)
    BY <1>4, AllAgree
  <2>3. \A j \in 1..l : sets[j].o = "ok"
    BY <1>3, <1>4, <2>1 DEF StockSet
  <2>4. ~Some(skeys, Errors) /\ ~Some(sets, Errors) /\ ~Some(skeys, {"invalid"}) /\ ~Some(svals, {"invalid"})
    BY <1>1, <1>3, <1>4, <2>1, <2>3 DEF Some, Outs, Errors
  <2>5. stock = core
    BY <1>2, <1>4, <2>2, <2>4
  <2> QED
    BY <2>5, AgreesEasily DEF core, stock
<1>5. ASSUME NEW k \in 1..l, core = members[k], members[k].o \in Stops, members[k] = SetMember(keys[k], vals[k])
      PROVE  Agrees(core, stock)
  <2>1. /\ keys[k].o = "ok" => skeys[k] = keys[k]
        /\ keys[k].o \in Errors => skeys[k].o \in Errors
        /\ vals[k].o = "ok" => svals[k] = vals[k]
        /\ vals[k].o \in Errors => svals[k].o \in Errors
    BY DEF ItemsAgree, Agrees
  <2>2. /\ keys[k].o \in {"ok", "defer", "raise", "interrupt"}
        /\ vals[k].o \in {"ok", "defer", "raise", "interrupt"}
    BY <1>1, CoreKinds DEF Cores
  <2>3. SUFFICES ASSUME core.o \in Errors  PROVE stock.o \in Errors
    BY <1>5 DEF Agrees, Stops
  <2>4. skeys[k].o \in Errors \/ sets[k].o \in Errors
    <3>1. CASE keys[k].o \in Stops
      BY <1>5, <2>1, <2>3, <3>1 DEF SetMember
    <3>2. CASE keys[k].o \notin Stops /\ vals[k].o = "ok"
      <4>1. keys[k].o = "ok" /\ skeys[k] = keys[k] /\ svals[k] = vals[k]
        BY <2>1, <2>2, <3>2 DEF Stops
      <4>2. members[k] = IF ~Hashable(keys[k].v) THEN Raise ELSE vals[k]
        BY <1>5, <3>2 DEF SetMember
      <4>3. ~Hashable(keys[k].v)
        BY <1>5, <3>2, <4>2 DEF Stops
      <4>4. sets[k] = Raise
        BY <1>3, <3>2, <4>1, <4>3 DEF StockSet
      <4> QED
        BY <4>4, ExceptionsOut DEF Errors
    <3>3. CASE keys[k].o \notin Stops /\ vals[k].o # "ok"
      <4>1. members[k] = vals[k]
        BY <1>5, <3>3 DEF SetMember
      <4>2. vals[k].o \in Errors /\ svals[k].o \in Errors
        BY <1>5, <2>1, <2>3, <4>1
      <4>3. sets[k] = svals[k]
        BY <1>3, <4>2 DEF StockSet, Errors
      <4> QED
        BY <4>2, <4>3
    <3> QED
      BY <3>1, <3>2, <3>3
  <2>5. Some(skeys, Errors) \/ Some(sets, Errors)
    BY <1>1, <1>3, <2>4 DEF Some, Outs
  <2>6. Some(skeys, Errors) => FirstIn(skeys, Errors).o \in Errors
    BY <1>1, FirstFound DEF Outs
  <2>7. Some(sets, Errors) => FirstIn(sets, Errors).o \in Errors
    BY <1>3, FirstFound
  <2> QED
    BY <1>2, <2>5, <2>6, <2>7
<1>6. \/ /\ \A j \in 1..l : keys[j].o = "ok" /\ vals[j].o = "ok" /\ Hashable(keys[j].v)
         /\ core = Assigned(Vals(keys), Vals(vals))
      \/ \E k \in 1..l : core = members[k] /\ members[k].o \in Stops /\ members[k] = SetMember(keys[k], vals[k])
  BY <1>1, SetItemsIs DEF core, members
<1> QED
  BY <1>4, <1>5, <1>6

(* What a hook that is not told more than the record makes of it. *)
LEMMA HookAgrees ==
  ASSUME NEW f, f.kind = "Nested", PlainHook(f), NEW d, NEW original, NEW other, NEW p, NEW q
  PROVE  PostLoad(f, d, original, p) = PostLoad(f, d, other, q)
<1>1. "reads_original" \notin f.opts /\ "reads_partial" \notin f.opts
  BY DEF PlainHook
<1> QED
  BY <1>1 DEF PostLoad

(* The parts of a field that the hypotheses are about. *)
LEMMA PlainParts ==
  ASSUME NEW m \in Nat, NEW f \in PlainTo[m + 1]
  PROVE  /\ f \in FieldsTo[m + 1] /\ PlainEnum(f) /\ PlainHook(f) /\ PlainBoolean(f)
         /\ \A j \in DOMAIN f.inner : f.inner[j] \in PlainTo[m]
<1>1. f \in PlainStep(PlainTo[m], m + 1)
  BY PlainUnfold
<1>2. (m + 1) # 0 /\ (m + 1) - 1 = m
  OBVIOUS
<1> QED
  BY <1>1, <1>2 DEF PlainStep

LEMMA PlainInner ==
  ASSUME NEW m \in Nat, NEW f \in PlainTo[m + 1]
  PROVE  /\ f.kind \in {"List", "Enum", "Nested", "Pluck"} => f.inner[1] \in PlainTo[m]
         /\ f.kind = "Dict" => f.inner[1] \in PlainTo[m] /\ f.inner[2] \in PlainTo[m]
<1>1. /\ f.kind \in {"List", "Enum", "Nested", "Pluck"} => DOMAIN f.inner = 1..1
      /\ f.kind = "Dict" => DOMAIN f.inner = 1..2
  BY PlainParts, FieldInner
<1>2. \A j \in DOMAIN f.inner : f.inner[j] \in PlainTo[m]
  BY PlainParts
<1> QED
  BY <1>1, <1>2, 1 \in 1..1, 1 \in 1..2, 2 \in 1..2

-----------------------------------------------------------------------------
(***************************************************************************)
(* One field, and the record and schema around it.                         *)
(***************************************************************************)
(* Elements agree with the fields they are of, validators included. *)
LikeStock(elements, n) ==
  \A g \in DOMAIN elements : g \in PlainTo[n] /\ ~Processed(g) =>
    \A w \in Values : \A p \in Partials :
      w # NoneVal => Agrees(CheckValidators(g, elements[g][w][p]), DeserializeTo[n][g][w][p])

(* Field.deserialize of a None, and without a field. *)
LEMMA DeserializeNone ==
  ASSUME NEW n \in Nat, NEW g \in FieldsTo[n], NEW p \in Partials
  PROVE  /\ NoneVal \in Values =>
              DeserializeTo[n][g][NoneVal][p] = IF g.kind = "None" \/ g.none THEN Ok(NoneVal) ELSE Invalid
         /\ g.kind = "None" => \A v \in Values : DeserializeTo[n][g][v][p] = Ok(v)
<1>1. n # 0 /\ n - 1 \in Nat /\ n = (n - 1) + 1
  BY FieldsUnfold
<1>2. \A v \in Values : DeserializeTo[n][g][v][p] = DeserializeValue(DeserializeTo[n - 1], g, v, p)
  BY <1>1, DeserializeIs
<1> QED
  BY <1>2 DEF DeserializeValue

LEMMA RunSpecAgrees ==
  ASSUME NEW elements, CoreTyped(elements), NEW n \in Nat, LikeStock(elements, n),
         NEW g \in FieldsTo[n], g \in PlainTo[n], NEW v \in Values, NEW p \in Partials
  PROVE  Agrees(RunSpec(elements, n, g, v, p), DeserializeTo[n][g][v][p])
<1>1. CASE Callback(elements, g)
  <2>1. StockOut(DeserializeTo[n][g][v][p])
    BY DeserializeOut DEF DesOut
  <2> QED
    BY <1>1, <2>1, RunSpecIs, FallbackAgrees
<1>2. CASE ~Callback(elements, g) /\ v = NoneVal
  <2>1. RunSpec(elements, n, g, v, p) = IF g.none THEN Ok(v) ELSE Defer
    BY <1>2, RunSpecIs
  <2>2. g.none => DeserializeTo[n][g][v][p] = Ok(v)
    BY <1>2, DeserializeNone
  <2> QED
    BY <2>1, <2>2, AgreesEasily
<1>3. CASE ~Callback(elements, g) /\ v # NoneVal
  <2>1. ~Processed(g) /\ g \in DOMAIN elements
    BY <1>3, RunSpecIs
  <2>2. RunSpec(elements, n, g, v, p) = CheckValidators(g, elements[g][v][p])
    BY <1>3, RunSpecIs
  <2> QED
    BY <1>3, <2>1, <2>2 DEF LikeStock
<1> QED
  BY <1>1, <1>2, <1>3, SMTT(40)

LEMMA WrappedIs ==
  ASSUME NEW v
  PROVE  /\ Wrapped(v).t = "dict" /\ HasKey(Wrapped(v).c, InnerKey) /\ GetItem(Wrapped(v).c, InnerKey) = v
         /\ ~\E j \in DOMAIN Wrapped(v).c : Wrapped(v).c[j].k # InnerKey
<1> DEFINE w == Wrapped(v)
<1>1. /\ w.t = "dict" /\ HasKey(w.c, InnerKey) /\ GetItem(w.c, InnerKey) = v
      /\ DOMAIN w.c = 1..1 /\ w.c[1].k = InnerKey
  BY WrappedRecord
<1> HIDE DEF w
<1>2. ~\E j \in DOMAIN w.c : w.c[j].k # InnerKey
  BY <1>1
<1> QED
  BY <1>1, <1>2, SMTT(40) DEF w

(* LoadSerializer::run_one against Schema.load. *)
LEMMA RunOneAgrees ==
  ASSUME NEW elements, CoreTyped(elements), NEW n \in Nat, LikeStock(elements, n),
         NEW f, f.inner[1] \in FieldsTo[n], f.inner[1] \in PlainTo[n], NEW v \in Values, NEW p \in Partials
  PROVE  /\ Agrees(RunOne(elements, n, f, v, p), Record(DeserializeTo[n], f, v, p))
         /\ Agrees(RunOne(elements, n, f, Wrapped(v), p), Record(DeserializeTo[n], f, Wrapped(v), p))
<1> DEFINE des == DeserializeTo[n]
           g == f.inner[1]
           r(w) == RunSpec(elements, n, g, w, p)
<1>1. \A w \in Values : Agrees(r(w), des[g][w][p]) /\ CoreOut(r(w)) /\ StockOut(des[g][w][p])
  BY RunSpecAgrees, RunSpecOut, DeserializeOut DEF DesOut
<1>2. \A w : RunOne(elements, n, f, w, p) =
          IF w.t # "dict" THEN Defer
          ELSE IF ~HasKey(w.c, InnerKey) THEN IF p = "all" /\ w.c = <<>> THEN Ok(w) ELSE Defer
          ELSE IF r(GetItem(w.c, InnerKey)).o = "ok"
               THEN IF \E j \in DOMAIN w.c : w.c[j].k # InnerKey THEN Defer ELSE Ok(Wrapped(r(GetItem(w.c, InnerKey)).v))
          ELSE r(GetItem(w.c, InnerKey))
  BY DEF RunOne, Then
<1>3. Agrees(RunOne(elements, n, f, Wrapped(v), p), Record(des, f, Wrapped(v), p))
  <2> DEFINE core == RunOne(elements, n, f, Wrapped(v), p)
             stock == Record(des, f, Wrapped(v), p)
             d == des[g][v][p]
             s == r(v)
  <2>1. /\ Wrapped(v).t = "dict" /\ HasKey(Wrapped(v).c, InnerKey) /\ GetItem(Wrapped(v).c, InnerKey) = v
        /\ ~\E j \in DOMAIN Wrapped(v).c : Wrapped(v).c[j].k # InnerKey
    BY WrappedIs
  <2>2. core = IF s.o = "ok" THEN Ok(Wrapped(s.v)) ELSE s
    BY <1>2, <2>1, SMTT(40)
  <2>3. stock = IF d.o = "ok" THEN Ok(Wrapped(d.v)) ELSE d
    BY WrappedRecord
  <2>4. Agrees(s, d) /\ StockOut(d)
    BY <1>1
  <2> HIDE DEF s, d, core, stock
  <2>5. Agrees(core, stock)
    BY <2>2, <2>3, <2>4, OkOut DEF Agrees, Errors
  <2> QED
    BY <2>5 DEF core, stock
<1>4. Agrees(RunOne(elements, n, f, v, p), Record(des, f, v, p))
  <2> DEFINE core == RunOne(elements, n, f, v, p)
             stock == Record(des, f, v, p)
             item == GetItem(v.c, InnerKey)
             outs == [j \in DOMAIN v.c |-> IF v.c[j].k = InnerKey THEN des[g][v.c[j].v][p] ELSE Invalid]
  <2> SUFFICES Agrees(core, stock)
    OBVIOUS
  <2>1. /\ Len(v.c) \in Nat /\ DOMAIN v.c = 1..Len(v.c) /\ WellFormed(v)
        /\ \A j \in DOMAIN v.c : v.c[j].v \in Values
    BY Parts
  <2>2. stock = IF v.t # "dict" THEN Invalid
                ELSE IF \E j \in DOMAIN v.c : v.c[j].k # InnerKey THEN Collect(outs)
                ELSE IF v.c = <<>> THEN IF p = "all" THEN Ok(v) ELSE Invalid
                ELSE IF des[g][v.c[1].v][p].o = "ok" THEN Ok(Wrapped(des[g][v.c[1].v][p].v))
                ELSE des[g][v.c[1].v][p]
    BY DEF Record, Then
  <2> HIDE DEF core, stock, des, g, r
  <2>3. CASE v.t # "dict"
    BY <1>2, <2>3, AgreesEasily, SMTT(40) DEF core
  <2>4. CASE v.t = "dict" /\ ~HasKey(v.c, InnerKey)
    <3>1. v.c = <<>> => ~\E j \in DOMAIN v.c : v.c[j].k # InnerKey
      OBVIOUS
    <3>2. core = IF p = "all" /\ v.c = <<>> THEN Ok(v) ELSE Defer
      BY <1>2, <2>4 DEF core
    <3> QED
      BY <2>2, <2>4, <3>1, <3>2, AgreesEasily
  <2>5. CASE v.t = "dict" /\ HasKey(v.c, InnerKey)
    <3>1. PICK k \in DOMAIN v.c : item = v.c[k].v /\ PyEq(v.c[k].k, InnerKey)
      BY <2>1, <2>5, GetItemMade
    <3>2. v.c[k].k = InnerKey /\ item \in Values
      BY <2>1, <3>1, PyEqString DEF InnerKey, Val
    <3>3. Agrees(r(item), des[g][item][p]) /\ CoreOut(r(item)) /\ StockOut(des[g][item][p])
      BY <1>1, <3>2
    <3>4. core = IF r(item).o = "ok"
                 THEN IF \E j \in DOMAIN v.c : v.c[j].k # InnerKey THEN Defer ELSE Ok(Wrapped(r(item).v))
                 ELSE r(item)
      BY <1>2, <2>5 DEF core
    <3>5. CASE \E j \in DOMAIN v.c : v.c[j].k # InnerKey
      <4>1. stock = Collect(outs)
        BY <2>2, <2>5, <3>5, SMTT(40)
      <4>2. Outs(Len(v.c), outs) /\ outs[k] = des[g][item][p]
        BY <1>1, <2>1, <3>1, <3>2, ExceptionsOut DEF Outs
      <4>3. outs[k].o \in Errors => Some(outs, Errors)
        BY <2>1, <4>2 DEF Some, Outs
      <4> HIDE DEF outs
      <4>4. outs[k].o \in Errors => stock.o \in Errors
        BY <2>1, <4>1, <4>2, <4>3, CollectOut, SMTT(40)
      <4> QED
        BY <3>3, <3>4, <3>5, <4>2, <4>4, AgreesEasily DEF Agrees
    <3>6. CASE ~\E j \in DOMAIN v.c : v.c[j].k # InnerKey
      <4>1. \A j \in DOMAIN v.c : j = k
        BY <2>1, <2>5, <3>1, <3>6 DEF WellFormed
      <4>2. 1 \in DOMAIN v.c
        BY <2>1
      <4>3. v.c # <<>>
        BY <4>2
      <4>4. v.c[1].v = item
        BY <3>1, <4>1, <4>2, SMTT(40)
      <4>5. stock = IF des[g][item][p].o = "ok" THEN Ok(Wrapped(des[g][item][p].v)) ELSE des[g][item][p]
        BY <2>2, <2>5, <3>6, <4>3, <4>4
      <4> QED
        BY <3>3, <3>4, <3>6, <4>5, OkOut DEF Agrees, Errors
    <3> QED
      BY <3>5, <3>6
  <2> QED
    BY <2>3, <2>4, <2>5
<1> QED
  BY <1>3, <1>4 DEF des

-----------------------------------------------------------------------------
(* The records of a schema with many=True, and its hook on each. *)
LEMMA ManyAgrees ==
  ASSUME NEW l \in Nat, NEW outs, NEW des, NEW f, NEW items, NEW p, DOMAIN items = 1..l,
         Cores(l, outs),
         \A j \in 1..l : StockOut(Record(des, f, items[j], p)) /\ Agrees(outs[j], Record(des, f, items[j], p))
  PROVE  /\ "post_load" \notin f.opts => Agrees(BuiltOf("list", outs), LoadMany(des, f, items, p))
         /\ f.kind = "Nested" /\ PlainHook(f) /\ "many" \in f.opts =>
              Agrees(PostLoaded(f, BuiltOf("list", outs)), LoadMany(des, f, items, p))
<1> DEFINE b == BuiltOf("list", outs)
           stock == LoadMany(des, f, items, p)
           recs == [j \in DOMAIN items |-> Record(des, f, items[j], p)]
           c == Collect(recs)
           ds == [j \in DOMAIN c.v |-> Posted(f, c.v[j], items[j], p)]
           hooked == PostLoaded(f, b)
           xs == Vals(outs)
<1> SUFFICES /\ "post_load" \notin f.opts => Agrees(b, stock)
             /\ f.kind = "Nested" /\ PlainHook(f) /\ "many" \in f.opts => Agrees(hooked, stock)
  OBVIOUS
<1>1. stock = IF c.o = "ok" THEN Ok(ListOf("list", ds)) ELSE c
  BY DEF LoadMany, Then
<1>2. ItemsAgree(l, outs, recs)
  BY DEF ItemsAgree, Outs
<1>3. CoreOut(b) /\ \/ (\A j \in 1..l : outs[j].o = "ok") /\ b = Ok(ListOf("list", xs))
                    \/ \E k \in 1..l : b = outs[k] /\ outs[k].o \in Stops
  BY BuiltOfIs
<1>4. f.kind = "Nested" =>
        /\ "post_load" \in f.opts /\ b.o = "ok" => hooked = Ok(PostLoadFn(f, b.v))
        /\ "post_load" \notin f.opts \/ b.o # "ok" => hooked = b
  BY <1>3, PostLoadedIs
<1>5. CASE (\A j \in 1..l : outs[j].o = "ok") /\ b = Ok(ListOf("list", xs))
  <2>1. c = Ok(xs) /\ DOMAIN xs = 1..l
    BY <1>2, <1>5, AllAgree
  <2>2. c.o = "ok" /\ c.v = xs
    BY <2>1, OkIs
  <2>3. DOMAIN ds = 1..l /\ \A j \in 1..l : ds[j] = Posted(f, xs[j], items[j], p)
    BY <2>1, <2>2
  <2>4. ds = [j \in 1..l |-> ds[j]]
    BY <2>1, <2>2
  <2>5. xs = [j \in 1..l |-> xs[j]]
    BY <2>1 DEF Vals
  <2>6. b.o = "ok" /\ b.v = ListOf("list", xs)
    BY <1>5, OkIs
  <2> HIDE DEF c, ds, b, hooked, stock, recs, xs
  <2>7. stock = Ok(ListOf("list", ds))
    BY <1>1, <2>2
  <2>8. CASE "post_load" \notin f.opts
    <3>1. \A j \in 1..l : ds[j] = xs[j]
      BY <2>3, <2>8 DEF Posted
    <3>2. ds = xs
      BY <2>4, <2>5, <3>1
    <3>3. stock = b
      BY <1>5, <2>7, <3>2
    <3> QED
      BY <1>4, <2>8, <3>3, AgreesEasily
  <2>9. CASE "post_load" \in f.opts /\ f.kind = "Nested" /\ PlainHook(f) /\ "many" \in f.opts
    <3> DEFINE L == ListOf("list", xs)
               ps == [j \in DOMAIN L.c |-> PostLoad(f, L.c[j].v, L.c[j].v, "none")]
    <3>1. DOMAIN L.c = 1..l /\ \A j \in 1..l : L.c[j].v = xs[j]
      BY <2>1, ListOfIs
    <3>2. PostLoadFn(f, L) = ListOf("list", ps)
      BY <2>9 DEF PostLoadFn
    <3> HIDE DEF L
    <3>3. \A j \in 1..l : PostLoad(f, L.c[j].v, L.c[j].v, "none") = ds[j]
      <4>1. \A j \in 1..l : ds[j] = PostLoad(f, xs[j], items[j], p)
        BY <2>3, <2>9 DEF Posted
      <4> QED
        BY <2>9, <3>1, <4>1, HookAgrees
    <3>4. ps = [j \in 1..l |-> ds[j]]
      BY <3>1, <3>3
    <3> HIDE DEF ps
    <3>5. hooked = stock
      BY <1>4, <2>4, <2>6, <2>7, <2>9, <3>2, <3>4 DEF L
    <3> QED
      BY <2>9, <3>5, AgreesEasily
  <2> QED
    BY <2>8, <2>9
<1>6. ASSUME NEW k \in 1..l, b = outs[k], outs[k].o \in Stops
      PROVE  Agrees(b, stock) /\ (f.kind = "Nested" => Agrees(hooked, stock))
  <2>1. outs[k].o \in Errors => c.o \in Errors
    BY <1>2, StopAgrees
  <2>2. c.o \in Errors => c.o # "ok"
    BY DEF Errors
  <2>3. b.o # "ok"
    BY <1>6 DEF Stops
  <2> HIDE DEF c, ds, b, hooked, stock, recs
  <2>4. Agrees(b, stock)
    BY <1>1, <1>6, <2>1, <2>2, <2>3 DEF Agrees
  <2> QED
    BY <1>4, <2>3, <2>4
<1> HIDE DEF b, stock, hooked, xs
<1> QED
  BY <1>3, <1>5, <1>6

(* Nested and Pluck (src/load/element.rs:215): the schema in them. *)
LEMMA SchemaAgrees ==
  ASSUME NEW elements, CoreTyped(elements), NEW n \in Nat, LikeStock(elements, n),
         NEW f \in FieldsTo[n + 1], f \in PlainTo[n + 1], HasElement(elements, f), f.kind \in {"Nested", "Pluck"},
         NEW v \in Values, NEW p \in Partials
  PROVE  Agrees(Apply(elements, n, f, v, p), DeserializeRaw(DeserializeTo[n], f, v, p))
<1> DEFINE des == DeserializeTo[n]
           stock == DeserializeRaw(des, f, v, p)
           core == Apply(elements, n, f, v, p)
           l == Len(v.c)
<1> SUFFICES Agrees(core, stock)
  OBVIOUS
<1>1. l \in Nat /\ DOMAIN v.c = 1..l /\ \A j \in DOMAIN v.c : v.c[j].v \in Values
  BY Parts
<1>2. f.inner[1] \in FieldsTo[n] /\ f.inner[1] \in PlainTo[n] /\ PlainHook(f)
  BY FieldInner, PlainInner, PlainParts
<1>3. ASSUME NEW w \in Values
      PROVE  /\ Agrees(RunOne(elements, n, f, w, p), Record(des, f, w, p))
             /\ CoreOut(RunOne(elements, n, f, w, p)) /\ StockOut(Record(des, f, w, p))
             /\ Agrees(RunOne(elements, n, f, Wrapped(w), p), Record(des, f, Wrapped(w), p))
             /\ CoreOut(RunOne(elements, n, f, Wrapped(w), p)) /\ StockOut(Record(des, f, Wrapped(w), p))
  <2>1. DesOut(des, n)
    BY DeserializeOut
  <2>2. StockOut(Record(des, f, w, p))
    BY <1>2, <2>1, RecordOut, SMTT(40)
  <2>3. StockOut(des[f.inner[1]][w][p])
    BY <1>2, <2>1, SMTT(40) DEF DesOut
  <2>4. StockOut(Record(des, f, Wrapped(w), p))
    BY <2>3, WrappedRecord, OkOut
  <2> QED
    BY <1>2, <2>2, <2>4, RunOneAgrees, RunOneOut
<1> HIDE DEF des
<1>4. ASSUME NEW ws, DOMAIN ws = 1..l, \A j \in 1..l : ws[j] = v.c[j].v \/ ws[j] = Wrapped(v.c[j].v)
      PROVE  /\ "post_load" \notin f.opts => Agrees(RunMany(elements, n, f, ws, p), LoadMany(des, f, ws, p))
             /\ f.kind = "Nested" /\ "many" \in f.opts =>
                  Agrees(PostLoaded(f, RunMany(elements, n, f, ws, p)), LoadMany(des, f, ws, p))
  <2> DEFINE outs == [j \in DOMAIN ws |-> RunOne(elements, n, f, ws[j], p)]
  <2>1. RunMany(elements, n, f, ws, p) = BuiltOf("list", outs)
    BY DEF RunMany
  <2>2. Cores(l, outs) /\ \A j \in 1..l : outs[j] = RunOne(elements, n, f, ws[j], p)
    BY <1>1, <1>3, <1>4 DEF Cores
  <2>3. \A j \in 1..l : StockOut(Record(des, f, ws[j], p)) /\ Agrees(outs[j], Record(des, f, ws[j], p))
    BY <1>1, <1>3, <1>4, <2>2
  <2> HIDE DEF outs
  <2> QED
    BY <1>1, <1>2, <1>4, <2>1, <2>2, <2>3, ManyAgrees
<1>5. CASE f.kind = "Nested"
  <2> DEFINE one == RunOne(elements, n, f, v, p)
             rec == Record(des, f, v, p)
  <2>1. core = PostLoaded(f, Run(elements, n, f, v, p))
    BY <1>5, ApplyIs
  <2>2. Run(elements, n, f, v, p) =
          IF "many" \notin f.opts THEN one
          ELSE IF ListLike(v) THEN RunMany(elements, n, f, Items(v), p) ELSE Defer
    BY DEF Run
  <2>3. stock = IF "many" \notin f.opts THEN LoadOne(des, f, v, p)
                ELSE IF ListLike(v) THEN LoadMany(des, f, Items(v), p) ELSE Invalid
    BY <1>5 DEF DeserializeRaw, HeldKinds
  <2>4. Agrees(one, rec) /\ CoreOut(one)
    BY <1>3
  <2>5. CASE "many" \notin f.opts
    <3>1. LoadOne(des, f, v, p) = IF rec.o = "ok" THEN Ok(Posted(f, rec.v, v, p)) ELSE rec
      BY DEF LoadOne, Then
    <3>2. /\ "post_load" \in f.opts /\ one.o = "ok" => PostLoaded(f, one) = Ok(PostLoadFn(f, one.v))
          /\ "post_load" \notin f.opts \/ one.o # "ok" => PostLoaded(f, one) = one
      BY <1>5, <2>4, PostLoadedIs
    <3>3. one.o = "ok" => one = Ok(one.v)
      BY <2>4, CoreKinds
    <3>4. PostLoadFn(f, one.v) = PostLoad(f, one.v, one.v, "none")
      BY <2>5 DEF PostLoadFn
    <3>5. PostLoad(f, one.v, one.v, "none") = PostLoad(f, one.v, v, p)
      BY <1>2, <1>5, HookAgrees
    <3>6. Posted(f, one.v, v, p) = IF "post_load" \in f.opts THEN PostLoad(f, one.v, v, p) ELSE one.v
      BY DEF Posted
    <3>7. stock = LoadOne(des, f, v, p) /\ core = PostLoaded(f, one)
      BY <2>1, <2>2, <2>3, <2>5
    <3> HIDE DEF one, rec, stock, core
    <3>8. CASE one.o = "ok"
      <4>1. rec = one
        BY <2>4, <3>8 DEF Agrees
      <4>2. stock = core
        BY <3>1, <3>2, <3>3, <3>4, <3>5, <3>6, <3>7, <3>8, <4>1
      <4> QED
        BY <4>2, AgreesEasily
    <3>9. CASE one.o # "ok"
      <4>1. core = one
        BY <3>2, <3>7, <3>9
      <4>2. one.o \in Errors => stock.o \in Errors
        BY <2>4, <3>1, <3>7 DEF Agrees, Errors
      <4> QED
        BY <3>9, <4>1, <4>2 DEF Agrees
    <3> QED
      BY <3>8, <3>9
  <2>6. CASE "many" \in f.opts /\ ~ListLike(v)
    <3>1. core = Defer
      BY <1>5, <2>1, <2>2, <2>6, PostLoadedIs, ExceptionsOut
    <3> QED
      BY <3>1, AgreesEasily
  <2>7. CASE "many" \in f.opts /\ ListLike(v)
    <3>1. DOMAIN Items(v) = 1..l /\ \A j \in 1..l : Items(v)[j] = v.c[j].v
      BY <1>1 DEF Items
    <3>2. Agrees(PostLoaded(f, RunMany(elements, n, f, Items(v), p)), LoadMany(des, f, Items(v), p))
      BY <1>4, <1>5, <2>7, <3>1
    <3> QED
      BY <2>1, <2>2, <2>3, <2>7, <3>2
  <2> QED
    BY <2>5, <2>6, <2>7
<1>6. CASE f.kind = "Pluck"
  <2> DEFINE one == RunOne(elements, n, f, Wrapped(v), p)
             rec == Record(des, f, Wrapped(v), p)
             items == [j \in DOMAIN v.c |-> Wrapped(v.c[j].v)]
  <2>1. "post_load" \notin f.opts
    BY <1>6 DEF HasElement
  <2>2. core = IF "many" \notin f.opts THEN one
               ELSE IF ListLike(v) THEN RunMany(elements, n, f, items, p) ELSE Defer
    BY <1>6, ApplyIs, ZenonT(60) DEF RunPluck
  <2>3. stock = IF "many" \notin f.opts THEN LoadOne(des, f, Wrapped(v), p)
                ELSE IF ListLike(v) THEN LoadMany(des, f, items, p) ELSE Invalid
    BY <1>6 DEF DeserializeRaw, HeldKinds
  <2>4. Agrees(one, rec) /\ StockOut(rec)
    BY <1>3
  <2>5. LoadOne(des, f, Wrapped(v), p) = IF rec.o = "ok" THEN Ok(rec.v) ELSE rec
    BY <2>1 DEF LoadOne, Then, Posted
  <2>6. rec.o = "ok" => rec = Ok(rec.v)
    BY <2>4, StockKinds
  <2>7. DOMAIN items = 1..l /\ \A j \in 1..l : items[j] = Wrapped(v.c[j].v)
    BY <1>1
  <2> HIDE DEF items, one, rec
  <2>8. Agrees(RunMany(elements, n, f, items, p), LoadMany(des, f, items, p))
    BY <1>4, <2>1, <2>7
  <2> HIDE DEF core, stock
  <2> QED
    BY <2>2, <2>3, <2>4, <2>5, <2>6, <2>8, AgreesEasily
<1> HIDE DEF core, stock
<1> QED
  BY <1>5, <1>6

-----------------------------------------------------------------------------
(* The elements of scalars. *)
LEMMA ScalarAgrees ==
  ASSUME NEW elements, NEW n, NEW des, NEW f, NEW v \in Values, NEW p,
         f.kind \in {"None", "Raw", "String", "Integer", "Float", "Boolean", "UUID", "Temporal", "Constant"} \cup HeldKinds
  PROVE  Agrees(Apply(elements, n, f, v, p), DeserializeRaw(des, f, v, p))
<1> DEFINE core == Apply(elements, n, f, v, p)
           stock == DeserializeRaw(des, f, v, p)
<1> SUFFICES Agrees(core, stock)
  OBVIOUS
<1>1. \A fn, w : StockOut(Call(fn, w)) /\ Agrees(ToFallback(Call(fn, w)), Call(fn, w))
  BY CallOut, FallbackAgrees
<1>2. CASE f.kind \in {"None", "Raw", "Constant"}
  <2>1. core = stock
    BY <1>2, ApplyIs, RawIs
  <2> QED
    BY <2>1, AgreesEasily
<1>3. CASE f.kind = "String"
  <2>1. core = IF v.t = "str" THEN Ok(v) ELSE IF v.t = "bytes" THEN ToFallback(Call("decode", v)) ELSE Defer
    BY <1>3, ApplyIs DEF ApplyStr
  <2>2. stock = IF v.t \in {"str", "substr"} THEN Ok(Val("str", v.a))
                ELSE IF v.t = "bytes" THEN Call("decode", v) ELSE Invalid
    BY <1>3, RawIs
  <2>3. v.t = "str" => Val("str", v.a) = v
    BY Parts DEF Formed, Val
  <2> HIDE DEF core, stock
  <2> QED
    BY <1>1, <2>1, <2>2, <2>3, AgreesEasily
<1>4. ASSUME NEW type
      PROVE  Agrees(ApplyNumber(type, v), NumberOf(type, v)) \/ type \notin {"int", "float"}
  <2> SUFFICES ASSUME type \in {"int", "float"}  PROVE Agrees(ApplyNumber(type, v), NumberOf(type, v))
    OBVIOUS
  <2>1. ApplyNumber(type, v) =
          IF v.t = "bool" THEN Defer ELSE IF v.t = type THEN Ok(v) ELSE ToFallback(Call(type, v))
    BY DEF ApplyNumber
  <2>2. NumberOf(type, v) = IF v.t = "bool" THEN Invalid ELSE Call(type, v)
    BY DEF NumberOf
  <2>3. v.t = type => Call(type, v) = Ok(v)
    BY DEF Call
  <2> QED
    BY <1>1, <2>1, <2>2, <2>3, AgreesEasily
<1>5. CASE f.kind = "Integer"
  <2>1. core = IF "strict" \in f.opts THEN IF v.t = "int" THEN Ok(v) ELSE Defer ELSE ApplyNumber("int", v)
    BY <1>5, ApplyIs
  <2>2. stock = IF "strict" \in f.opts /\ v.t \notin {"int", "subint"} THEN Invalid ELSE NumberOf("int", v)
    BY <1>5, RawIs
  <2>3. v.t = "int" => NumberOf("int", v) = Ok(v)
    BY DEF NumberOf, Call
  <2> HIDE DEF core, stock
  <2> QED
    BY <1>4, <2>1, <2>2, <2>3, AgreesEasily
<1>6. CASE f.kind = "Float"
  <2> DEFINE r == ApplyNumber("float", v)
             s == NumberOf("float", v)
  <2>1. core = IF r.o = "ok" THEN IF r.v.a = "nan" /\ "allow_nan" \notin f.opts THEN Defer ELSE Ok(r.v) ELSE r
    BY <1>6, ApplyIs DEF CheckNan, Then
  <2>2. stock = IF s.o = "ok" THEN IF s.v.a = "nan" /\ "allow_nan" \notin f.opts THEN Invalid ELSE Ok(s.v) ELSE s
    BY <1>6, RawIs DEF DeserializeFloat, Then
  <2>3. Agrees(r, s)
    BY <1>4
  <2> HIDE DEF r, s, core, stock
  <2> QED
    BY <2>1, <2>2, <2>3, ExceptionsOut, OkOut DEF Agrees, Errors
<1>7. CASE f.kind = "Boolean"
  <2>1. core = IF In(v, Truthy(f)) = "interrupt" THEN Interrupted
               ELSE IF In(v, Truthy(f)) = "yes" THEN Ok(Val("bool", "1"))
               ELSE IF In(v, Truthy(f)) = "no" /\ In(v, Falsy(f)) = "yes" THEN Ok(Val("bool", "0"))
               ELSE Defer
    BY <1>7, ApplyIs DEF ApplyBoolean
  <2>2. stock = IF In(v, Truthy(f)) = "interrupt" THEN Interrupted
                ELSE IF In(v, Truthy(f)) = "yes" THEN Ok(Val("bool", "1"))
                ELSE IF In(v, Truthy(f)) = "no" /\ In(v, Falsy(f)) = "yes" THEN Ok(Val("bool", "0"))
                ELSE Invalid
    BY <1>7, RawIs DEF DeserializeBoolean
  <2> HIDE DEF core, stock
  <2>3. core = stock \/ core = Defer
    BY <2>1, <2>2
  <2> QED
    BY <2>3, AgreesEasily
<1>8. CASE f.kind = "UUID"
  <2>1. Agrees(ToFallback(UUIDCall(v)), UUIDCall(v))
    BY <1>1 DEF UUIDCall
  <2>2. core = IF v.t = "uuid" THEN Ok(v) ELSE ToFallback(UUIDCall(v))
    BY <1>8, ApplyIs
  <2>3. stock = IF v.t = "uuid" THEN Ok(v) ELSE UUIDCall(v)
    BY <1>8, RawIs
  <2> QED
    BY <2>1, <2>2, <2>3, AgreesEasily
<1>9. CASE f.kind = "Temporal"
  <2>1. core = IF v.t = "date" THEN Ok(v) ELSE ToFallback(Call("date", v))
    BY <1>9, ApplyIs
  <2>2. stock = IF v.t = "date" THEN Ok(v) ELSE Call("date", v)
    BY <1>9, RawIs
  <2> QED
    BY <1>1, <2>1, <2>2, AgreesEasily
<1>10. CASE f.kind \in HeldKinds
  <2>1. core = ToFallback(Call("held", v)) /\ stock = Call("held", v)
    BY <1>10, ApplyIs, RawIs
  <2> QED
    BY <1>1, <2>1
<1> QED
  BY <1>2, <1>3, <1>5, <1>6, <1>7, <1>8, <1>9, <1>10

(* The elements of what is around other fields. *)
LEMMA AroundAgrees ==
  ASSUME NEW elements, CoreTyped(elements), NEW n \in Nat, LikeStock(elements, n),
         NEW f \in FieldsTo[n + 1], f \in PlainTo[n + 1], HasElement(elements, f),
         f.kind \in {"Enum", "List", "Tuple", "Dict"},
         NEW v \in Values, v # NoneVal, NEW p \in Partials
  PROVE  Agrees(Apply(elements, n, f, v, p), DeserializeRaw(DeserializeTo[n], f, v, p))
<1> DEFINE des == DeserializeTo[n]
           core == Apply(elements, n, f, v, p)
           stock == DeserializeRaw(des, f, v, p)
           l == Len(v.c)
<1> SUFFICES Agrees(core, stock)
  OBVIOUS
<1>1. /\ l \in Nat /\ DOMAIN v.c = 1..l /\ \A j \in DOMAIN v.c : v.c[j].v \in Values /\ v.c[j].k \in Values
      /\ WellFormed(v) /\ Formed(v)
  BY Parts
<1>2. ASSUME NEW g \in FieldsTo[n], NEW w \in Values
      PROVE  StockOut(des[g][w][p]) /\ (w = NoneVal => des[g][w][p] = IF g.kind = "None" \/ g.none THEN Ok(w) ELSE Invalid)
  BY DeserializeOut, DeserializeNone DEF DesOut
<1>3. ASSUME NEW g \in FieldsTo[n], g \in PlainTo[n], g \in DOMAIN elements, ~Processed(g),
             NEW w \in Values, w # NoneVal
      PROVE  /\ CoreOut(elements[g][w][p]) /\ Agrees(CheckValidators(g, elements[g][w][p]), des[g][w][p])
             /\ g.vals = <<>> => Agrees(elements[g][w][p], des[g][w][p])
  <2>1. CoreOut(elements[g][w][p])
    BY <1>3 DEF CoreTyped
  <2>2. Agrees(CheckValidators(g, elements[g][w][p]), des[g][w][p])
    BY <1>3 DEF LikeStock
  <2>3. g.vals = <<>> => CheckValidators(g, elements[g][w][p]) = elements[g][w][p]
    BY <2>1, NoValidators
  <2> QED
    BY <2>1, <2>2, <2>3
<1> HIDE DEF des
<1>4. CASE f.kind = "Enum"
  <2> DEFINE g == f.inner[1]
             r == elements[g][v][p]
             d == des[g][v][p]
  <2>1. g \in FieldsTo[n] /\ g \in PlainTo[n] /\ g \in DOMAIN elements /\ PlainEnum(f)
    BY <1>4, FieldInner, PlainInner, PlainParts, HasElementIs
  <2>2. ~Processed(g) /\ g.vals = <<>>
    BY <1>4, <2>1 DEF PlainEnum, HasFieldProcessors
  <2>3. Agrees(r, d)
    BY <1>3, <2>1, <2>2, SMTT(40)
  <2>4. core = IF v.t = "enum" THEN Ok(v) ELSE IF r.o = "ok" THEN ToFallback(EnumCall(f, r.v)) ELSE r
    BY <1>4, ApplyIs DEF ApplyEnum, Then
  <2>5. stock = IF v.t = "enum" THEN Ok(v) ELSE IF d.o = "ok" THEN EnumCall(f, d.v) ELSE d
    BY <1>4 DEF DeserializeRaw, HeldKinds, Instance, Then
  <2> HIDE DEF g, r, d, core, stock
  <2>6. Agrees(ToFallback(EnumCall(f, r.v)), EnumCall(f, r.v))
    BY CallOut, FallbackAgrees DEF EnumCall
  <2> QED
    BY <2>3, <2>4, <2>5, <2>6, AgreesEasily DEF Agrees, Errors
<1>5. CASE f.kind = "List"
  <2> DEFINE g == f.inner[1]
             outs == [j \in DOMAIN v.c |-> ListItem(g, v.c[j].v, elements[g][v.c[j].v][p])]
             recs == [j \in DOMAIN v.c |-> des[g][v.c[j].v][p]]
  <2>1. g \in FieldsTo[n] /\ g \in PlainTo[n] /\ g \in DOMAIN elements /\ g.vals = <<>> /\ ~Processed(g)
    BY <1>5, FieldInner, PlainInner, HasInner
  <2>2. core = IF ~ListLike(v) THEN Defer ELSE BuiltOf("list", outs)
    BY <1>5, ApplyIs DEF ApplyList
  <2>3. stock = IF ListLike(v) THEN Collected("list", recs) ELSE Invalid
    BY <1>5 DEF DeserializeRaw, HeldKinds
  <2> HIDE DEF g
  <2>4. ASSUME NEW w \in Values
        PROVE  CoreOut(ListItem(g, w, elements[g][w][p])) /\ Agrees(ListItem(g, w, elements[g][w][p]), des[g][w][p])
    <3>1. CASE w # NoneVal
      BY <1>3, <2>1, <3>1 DEF ListItem
    <3>2. CASE w = NoneVal
      BY <1>2, <2>1, <3>2, AgreesEasily, OkOut, ExceptionsOut, SMTT(40) DEF ListItem
    <3> QED
      BY <3>1, <3>2
  <2>5. ItemsAgree(l, outs, recs)
    BY <1>1, <1>2, <2>1, <2>4 DEF ItemsAgree, Cores, Outs
  <2> HIDE DEF outs, recs, core, stock
  <2> QED
    BY <1>1, <2>2, <2>3, <2>5, ListAgrees, AgreesEasily
<1>6. CASE f.kind = "Tuple"
  <2> DEFINE outs == [j \in DOMAIN v.c |-> TupleItem(v.c[j].v, elements[f.inner[j]][v.c[j].v][p])]
             recs == [j \in DOMAIN v.c |-> des[f.inner[j]][v.c[j].v][p]]
  <2>1. core = IF ~ListLike(v) \/ Len(v.c) # Len(f.inner) THEN Defer ELSE BuiltOf("tuple", outs)
    BY <1>6, ApplyIs DEF ApplyTuple
  <2>2. stock = IF ListLike(v) /\ Len(v.c) = Len(f.inner) THEN Collected("tuple", recs) ELSE Invalid
    BY <1>6 DEF DeserializeRaw, HeldKinds
  <2>3. CASE Len(v.c) = Len(f.inner)
    <3>1. ASSUME NEW j \in 1..l
          PROVE  /\ f.inner[j] \in FieldsTo[n] /\ f.inner[j] \in PlainTo[n] /\ f.inner[j] \in DOMAIN elements
                 /\ f.inner[j].vals = <<>> /\ ~Processed(f.inner[j])
      <4>1. j \in DOMAIN f.inner
        BY <2>3, FieldParts
      <4>2. f.inner[j] \in FieldsTo[n]
        BY <4>1, FieldParts
      <4>3. f.inner[j] \in PlainTo[n]
        BY <4>1, PlainParts
      <4>4. f.inner[j] \in DOMAIN elements /\ f.inner[j].vals = <<>> /\ ~Processed(f.inner[j])
        <5>1. \A i \in DOMAIN f.inner : /\ f.inner[i] \in DOMAIN elements
                                        /\ f.inner[i].vals = <<>> /\ ~Processed(f.inner[i])
          BY <1>6, HasElementIs, SMTT(40)
        <5> QED
          BY <4>1, <5>1
      <4> QED
        BY <4>2, <4>3, <4>4
    <3>2. ASSUME NEW j \in 1..l
          PROVE  /\ CoreOut(TupleItem(v.c[j].v, elements[f.inner[j]][v.c[j].v][p]))
                 /\ Agrees(TupleItem(v.c[j].v, elements[f.inner[j]][v.c[j].v][p]), des[f.inner[j]][v.c[j].v][p])
                 /\ StockOut(des[f.inner[j]][v.c[j].v][p])
      <4>1. v.c[j].v \in Values
        BY <1>1, SMTT(40)
      <4> QED
        BY <1>2, <1>3, <3>1, <4>1, AgreesEasily, ExceptionsOut DEF TupleItem
    <3>3. ItemsAgree(l, outs, recs)
      BY <1>1, <3>2 DEF ItemsAgree, Cores, Outs
    <3> HIDE DEF outs, recs, core, stock
    <3> QED
      BY <1>1, <2>1, <2>2, <2>3, <3>3, ListAgrees, AgreesEasily
  <2> HIDE DEF outs, recs, core, stock
  <2> QED
    BY <2>1, <2>3, AgreesEasily, SMTT(40)
<1>7. CASE f.kind = "Dict"
  <2> DEFINE g == f.inner[1]
             h == f.inner[2]
             keys == [j \in DOMAIN v.c |-> DictPart(g, v.c[j].k, elements[g][v.c[j].k][p])]
             vals == [j \in DOMAIN v.c |-> DictPart(h, v.c[j].v, elements[h][v.c[j].v][p])]
             skeys == [j \in DOMAIN v.c |-> des[g][v.c[j].k][p]]
             svals == [j \in DOMAIN v.c |-> des[h][v.c[j].v][p]]
  <2>1. /\ g \in FieldsTo[n] /\ g \in PlainTo[n] /\ g \in DOMAIN elements /\ ~Processed(g)
        /\ h \in FieldsTo[n] /\ h \in PlainTo[n] /\ h \in DOMAIN elements /\ ~Processed(h)
    BY <1>7, FieldInner, PlainInner, HasInner
  <2>2. core = IF f.inner = <<NoField, NoField>> THEN IF v.t = "dict" THEN Ok(v) ELSE Defer
               ELSE IF v.t # "dict" THEN Defer ELSE SetItems(keys, vals)
    <3>1. core = IF f.inner = <<NoField, NoField>> THEN IF v.t = "dict" THEN Ok(v) ELSE Defer
                 ELSE ApplyDictTyped(elements, f, v, p)
      BY <1>7, ApplyIs
    <3>2. ApplyDictTyped(elements, f, v, p) = IF v.t # "dict" THEN Defer ELSE SetItems(keys, vals)
      BY ZenonT(60) DEF ApplyDictTyped
    <3> HIDE DEF keys, vals, core
    <3> QED
      BY <3>1, <3>2
  <2>3. stock = IF v.t # "dict" THEN Invalid ELSE StockDict(skeys, svals)
    BY <1>7 DEF DeserializeRaw, HeldKinds
  <2>4. f.inner = <<NoField, NoField>> => g.kind = "None" /\ h.kind = "None"
    BY DEF NoField, FieldOf
  <2> HIDE DEF g, h
  <2>5. ASSUME NEW i \in {g, h}, NEW w \in Values
        PROVE  /\ CoreOut(DictPart(i, w, elements[i][w][p]))
               /\ Agrees(DictPart(i, w, elements[i][w][p]), des[i][w][p]) /\ StockOut(des[i][w][p])
               /\ i.kind = "None" => des[i][w][p] = Ok(w)
    <3>1. i \in FieldsTo[n] /\ i \in PlainTo[n] /\ i \in DOMAIN elements /\ ~Processed(i)
      BY <2>1
    <3>2. i.kind = "None" => des[i][w][p] = Ok(w)
      BY <3>1, DeserializeNone DEF des
    <3>3. CASE i.kind = "None"
      BY <3>2, <3>3, AgreesEasily, OkOut DEF DictPart
    <3>4. CASE i.kind # "None" /\ w = NoneVal
      BY <1>2, <3>1, <3>4, AgreesEasily, ExceptionsOut DEF DictPart
    <3>5. CASE i.kind # "None" /\ w # NoneVal
      BY <1>2, <1>3, <3>1, <3>5, CheckValidatorsIs, SMTT(40) DEF DictPart
    <3> QED
      BY <3>2, <3>3, <3>4, <3>5
  <2>6. ItemsAgree(l, keys, skeys) /\ ItemsAgree(l, vals, svals)
    BY <1>1, <2>5 DEF ItemsAgree, Cores, Outs
  <2>7. CASE f.inner = <<NoField, NoField>> /\ v.t = "dict"
    <3> DEFINE ks == [j \in 1..l |-> v.c[j].k]
               ws == [j \in 1..l |-> v.c[j].v]
               c == [j \in 1..l |-> Entry(ks[j], ws[j])]
    <3>1. \A j \in 1..l : skeys[j] = Ok(v.c[j].k) /\ svals[j] = Ok(v.c[j].v)
      BY <1>1, <2>4, <2>5, <2>7
    <3>2. \A j \in 1..l : skeys[j].o = "ok" /\ skeys[j].v = ks[j] /\ svals[j].o = "ok" /\ svals[j].v = ws[j]
      <4>1. \A j \in 1..l : ks[j] = v.c[j].k /\ ws[j] = v.c[j].v
        OBVIOUS
      <4> HIDE DEF skeys, svals, ks, ws
      <4> QED
        BY <3>1, <4>1, OkIs
    <3>3. DOMAIN skeys = 1..l /\ DOMAIN svals = 1..l
      BY <1>1
    <3>4. \A j \in 1..l : Hashable(ks[j]) /\ \A i \in 1..l : PyEq(ks[j], ks[i]) => j = i
      BY <1>1, <2>7 DEF WellFormed
    <3>5. DOMAIN ks = 1..l
      OBVIOUS
    <3> HIDE DEF skeys, svals
    <3>6. Vals(skeys) = ks /\ Vals(svals) = ws
      BY <3>2, <3>3 DEF Vals
    <3> HIDE DEF ks, ws
    <3>7. StockDict(skeys, svals) = Assigned(ks, ws)
      <4> DEFINE sets == [j \in DOMAIN svals |-> StockSet(skeys[j], svals[j])]
      <4>1. DOMAIN sets = 1..l /\ \A j \in 1..l : sets[j].o = "ok"
        BY <3>2, <3>3, <3>4 DEF StockSet
      <4>2. StockDict(skeys, svals) =
              IF Some(skeys, Errors) THEN FirstIn(skeys, Errors)
              ELSE IF Some(sets, Errors) THEN FirstIn(sets, Errors)
              ELSE IF Some(skeys, {"invalid"}) \/ Some(svals, {"invalid"}) THEN Invalid
              ELSE Assigned(Vals(skeys), Vals(svals))
        BY DEF StockDict
      <4> HIDE DEF sets
      <4>3. ~Some(skeys, Errors) /\ ~Some(sets, Errors) /\ ~Some(skeys, {"invalid"}) /\ ~Some(svals, {"invalid"})
        BY <3>2, <3>3, <4>1 DEF Some, Errors
      <4> QED
        BY <3>6, <4>2, <4>3
    <3>8. Assigned(ks, ws) = Ok(DictOf(c))
      BY <1>1, <3>4, <3>5, DistinctAssigned
    <3>9. DictOf(c) = v
      <4>1. \A j \in 1..l : c[j] = v.c[j]
        BY Parts, <1>1 DEF ks, ws
      <4>2. v.c = [j \in 1..l |-> v.c[j]]
        <5>1. v.c \in Seq(Pairs(ValuesTo[ValueDepth - 1]))
          BY ValueParts, DepthAssumption DEF Values
        <5> QED
          BY <1>1, <5>1, SMTT(40)
      <4>3. c = v.c
        BY <4>1, <4>2
      <4>4. v = [t |-> v.t, a |-> v.a, c |-> v.c] /\ v.a = ""
        BY Parts, <1>1, <2>7 DEF Formed
      <4> QED
        BY <2>7, <4>3, <4>4, DictOfIs
    <3>10. core = Ok(v) /\ stock = Ok(v)
      BY <2>2, <2>3, <2>7, <3>7, <3>8, <3>9
    <3> QED
      BY <3>10, AgreesEasily
  <2> HIDE DEF keys, vals, skeys, svals
  <2>8. Agrees(SetItems(keys, vals), StockDict(skeys, svals))
    BY <1>1, <2>6, DictAgrees
  <2> HIDE DEF core, stock
  <2> QED
    BY <2>2, <2>3, <2>7, <2>8, AgreesEasily
<1> QED
  BY <1>4, <1>5, <1>6, <1>7

(***************************************************************************)
(* LoadElement::apply (src/load/element.rs:143-429): whatever a plain      *)
(* field nests and whatever it is given, its element with the validators   *)
(* after it makes what Field.deserialize makes, or leaves the record to    *)
(* it; an exception that comes out of it comes out of marshmallow too.     *)
(***************************************************************************)
THEOREM ElementsLikeStock ==
  ASSUME NEW n \in Nat
  PROVE  LikeStock(Elements[n], n)
<1> DEFINE T == {m \in Nat : LikeStock(Elements[m], m)}
<1>1. 0 \in T
  BY ElementsUnfold DEF LikeStock
<1>2. ASSUME NEW m \in Nat, m \in T  PROVE m + 1 \in T
  <2>1. LikeStock(Elements[m], m) /\ CoreTyped(Elements[m]) /\ CoreTyped(Elements[m + 1])
    BY <1>2, ElementsOut, m + 1 \in Nat
  <2>2. ASSUME NEW f \in DOMAIN Elements[m + 1], f \in PlainTo[m + 1], ~Processed(f),
               NEW v \in Values, NEW p \in Partials, v # NoneVal
        PROVE  Agrees(CheckValidators(f, Elements[m + 1][f][v][p]), DeserializeTo[m + 1][f][v][p])
    <3> DEFINE r == Elements[m + 1][f][v][p]
               des == DeserializeTo[m]
    <3>1. f \in FieldsTo[m + 1] /\ HasElement(Elements[m], f) /\ r = Apply(Elements[m], m, f, v, p)
      BY <2>2, ElementsAre
    <3>2. CoreOut(r)
      BY <2>1, <2>2 DEF CoreTyped
    <3>3. DeserializeTo[m + 1][f][v][p] = DeserializeValue(des, f, v, p)
      BY <3>1, DeserializeIs
    <3>4. StockOut(DeserializeRaw(des, f, v, p))
      BY <3>1, DeserializeOut, RawOut
    <3>5. f.kind \in Kinds /\ f.kind # "Foreign"
      BY <3>1, FieldParts, HasElementIs
    <3>6. Agrees(r, DeserializeRaw(des, f, v, p))
      <4>1. CASE f.kind \in {"Nested", "Pluck"}
        BY <2>1, <2>2, <3>1, <4>1, SchemaAgrees
      <4>2. CASE f.kind \in {"Enum", "List", "Tuple", "Dict"}
        BY <2>1, <2>2, <3>1, <4>2, AroundAgrees
      <4>3. CASE f.kind \in {"None", "Raw", "String", "Integer", "Float", "Boolean", "UUID", "Temporal", "Constant"} \cup HeldKinds
        BY <3>1, <4>3, ScalarAgrees
      <4> QED
        BY <3>5, <4>1, <4>2, <4>3 DEF Kinds
    <3>7. CASE f.kind = "None"
      <4>1. r = Ok(v)
        BY <3>1, <3>7, ApplyIs
      <4>2. CheckValidators(f, r) = r
        BY <3>1, <3>2, <3>7, FieldInner, NoValidators
      <4>3. DeserializeValue(des, f, v, p) = Ok(v)
        BY <3>7 DEF DeserializeValue
      <4> QED
        BY <3>3, <4>1, <4>2, <4>3, AgreesEasily
    <3>8. CASE f.kind # "None"
      <4> HIDE DEF r, des
      <4>1. Agrees(CheckValidators(f, r), DeserializeValue(des, f, v, p))
        BY <2>2, <3>1, <3>2, <3>4, <3>6, <3>8, NativeAgrees
      <4> QED
        BY <3>3, <4>1 DEF r
    <3> QED
      BY <3>7, <3>8
  <2> QED
    BY <2>2 DEF LikeStock
<1> HIDE DEF T
<1>3. Nat \subseteq T
  BY <1>1, <1>2, LevelInduction
<1> QED
  BY <1>3 DEF T

(* What the load loop makes of a field that is there. *)
LEMMA LoadedAgrees ==
  ASSUME PlainFields, NEW f \in Fields, NEW v \in Values, NEW p \in Partials
  PROVE  Agrees(Loaded(f, v, p), DeserializeTo[Levels][f][v][p])
BY InputsAssumption, DepthAssumption, ElementsOut, ElementsLikeStock, RunSpecAgrees DEF PlainFields, Loaded

-----------------------------------------------------------------------------
(***************************************************************************)
(* Off the JSON tree (apply_json): the parts of a value that is not        *)
(* ambiguous are not ambiguous.                                            *)
(***************************************************************************)
LEMMA UniformIs ==
  ASSUME NEW n \in Nat, NEW jv
  PROVE  jv \in UniformTo[n + 1] <=> /\ jv \in JsonTo[n + 1]
                                     /\ jv.t = "dict" => UniformKeys(jv)
                                     /\ \A j \in DOMAIN jv.c : jv.c[j].v \in UniformTo[n]
BY UniformUnfold DEF UniformStep

LEMMA UniformNext ==
  ASSUME NEW n \in Nat
  PROVE  UniformTo[n] \subseteq UniformTo[n + 1]
<1> DEFINE T == {m \in Nat : UniformTo[m] \subseteq UniformTo[m + 1]}
<1>1. 0 \in T
  BY UniformUnfold
<1>2. ASSUME NEW m \in Nat, m \in T  PROVE m + 1 \in T
  <2> SUFFICES ASSUME NEW jv \in UniformTo[m + 1]  PROVE jv \in UniformTo[(m + 1) + 1]
    OBVIOUS
  <2>1. /\ jv \in JsonTo[m + 1] /\ (jv.t = "dict" => UniformKeys(jv))
        /\ \A j \in DOMAIN jv.c : jv.c[j].v \in UniformTo[m]
    BY UniformIs
  <2>2. jv \in JsonTo[(m + 1) + 1]
    BY <2>1, JsonNext, m + 1 \in Nat
  <2>3. \A j \in DOMAIN jv.c : jv.c[j].v \in UniformTo[m + 1]
    BY <1>2, <2>1
  <2> QED
    BY <2>1, <2>2, <2>3, UniformIs, m + 1 \in Nat
<1> HIDE DEF T
<1>3. Nat \subseteq T
  BY <1>1, <1>2, LevelInduction
<1> QED
  BY <1>3 DEF T

LEMMA UniformParts ==
  ASSUME NEW jv \in UniformTo[ValueDepth]
  PROVE  (jv.t = "dict" => UniformKeys(jv)) /\ \A j \in DOMAIN jv.c : jv.c[j].v \in UniformTo[ValueDepth]
<1> DEFINE n == ValueDepth - 1
<1>1. n \in Nat /\ ValueDepth = n + 1
  BY DepthAssumption
<1> HIDE DEF n
<1>2. (jv.t = "dict" => UniformKeys(jv)) /\ \A j \in DOMAIN jv.c : jv.c[j].v \in UniformTo[n]
  BY <1>1, UniformIs
<1> QED
  BY <1>1, <1>2, UniformNext

(* A value whose objects repeat no key is one of them. *)
LEMMA ValuesUniform ==
  ASSUME NEW jv \in JsonValues, jv \in Values
  PROVE  jv \in UniformTo[ValueDepth]
<1> DEFINE T == {m \in Nat : \A v \in JsonTo[m] : v \in Values => v \in UniformTo[m]}
<1>1. 0 \in T
  BY JsonUnfold
<1>2. ASSUME NEW m \in Nat, m \in T  PROVE m + 1 \in T
  <2>1. ASSUME NEW v \in JsonTo[m + 1], v \in Values  PROVE v \in UniformTo[m + 1]
    <3>1. WellFormed(v) /\ \A j \in DOMAIN v.c : v.c[j].v \in Values
      BY <2>1, Parts
    <3>2. /\ \A j \in DOMAIN v.c : v.c[j].v \in JsonTo[m]
          /\ v.t = "dict" => \A j \in DOMAIN v.c : v.c[j].k.t = "str"
      BY JsonPartsOf, m + 1 \in Nat, (m + 1) - 1 = m
    <3>3. \A j \in DOMAIN v.c : v.c[j].v \in UniformTo[m]
      BY <1>2, <3>1, <3>2
    <3>4. v.t = "dict" => UniformKeys(v)
      BY <3>1, <3>2, PyEqString DEF WellFormed, UniformKeys
    <3> QED
      BY <3>3, <3>4, UniformIs
  <2> QED
    BY <2>1
<1> HIDE DEF T
<1>3. Nat \subseteq T
  BY <1>1, <1>2, LevelInduction
<1>4. ValueDepth \in T
  BY <1>3, DepthAssumption
<1> QED
  BY <1>4 DEF T, JsonValues

(***************************************************************************)
(* What the tree makes, against what the dict makes: a value is the same   *)
(* one, and without repeated keys so is everything else, or it is seen to  *)
(* be unknown before it raises.                                            *)
(***************************************************************************)
Mirrors(exact, json, dict) ==
  /\ json.o = "ok" => dict = json
  /\ exact => LikeDict(json, dict)

LEMMA MirrorsSame ==
  ASSUME NEW exact, NEW r
  PROVE  Mirrors(exact, r, r)
BY DEF Mirrors, LikeDict

(* The validators, after both. *)
LEMMA MirrorsChecked ==
  ASSUME NEW f, NEW exact, NEW json, NEW dict, CoreOut(json), CoreOut(dict), Mirrors(exact, json, dict)
  PROVE  Mirrors(exact, CheckValidators(f, json), CheckValidators(f, dict))
<1>1. CASE json = dict
  BY <1>1, MirrorsSame
<1>2. CASE json # dict
  <2>1. CheckValidators(f, json) = json /\ json.o # "ok"
    BY <1>2, CheckValidatorsIs DEF Mirrors
  <2>2. dict.o \in Errors => CheckValidators(f, dict) = dict
    BY CheckValidatorsIs DEF Errors
  <2> QED
    BY <1>2, <2>1, <2>2 DEF Mirrors, LikeDict
<1> QED
  BY <1>1, <1>2

(* The hook of a schema, after both. *)
LEMMA MirrorsHooked ==
  ASSUME NEW f, f.kind = "Nested", NEW exact, NEW json, NEW dict, CoreOut(json), CoreOut(dict),
         Mirrors(exact, json, dict)
  PROVE  Mirrors(exact, PostLoaded(f, json), PostLoaded(f, dict))
<1>1. CASE json = dict
  BY <1>1, MirrorsSame
<1>2. CASE json # dict
  <2>1. PostLoaded(f, json) = json /\ json.o # "ok"
    BY <1>2, PostLoadedIs DEF Mirrors
  <2>2. dict.o \in Errors => PostLoaded(f, dict) = dict
    BY PostLoadedIs DEF Errors
  <2> QED
    BY <1>2, <2>1, <2>2 DEF Mirrors, LikeDict
<1> QED
  BY <1>1, <1>2

(* What stops first, on both sides. *)
LEMMA FirstStop ==
  ASSUME NEW l \in Nat, NEW js, NEW ds, Cores(l, js), Cores(l, ds),
         \A j \in 1..l : Mirrors(TRUE, js[j], ds[j]),
         NEW k \in 1..l, js[k].o \in Stops, \A j \in 1..k - 1 : js[j].o = "ok",
         NEW i \in 1..l, ds[i].o \in Stops, \A j \in 1..i - 1 : ds[j].o = "ok"
  PROVE  i = k
<1>1. \A j \in 1..k - 1 : j \in 1..l /\ ds[j].o = "ok"
  BY DEF Mirrors
<1>2. ds[k].o \in Stops
  BY ExceptionsOut DEF Mirrors, LikeDict, Stops, Errors
<1>3. ~(i < k)
  BY <1>1 DEF Stops
<1>4. ~(k < i)
  BY <1>2 DEF Stops
<1> QED
  BY <1>3, <1>4

(* A list or a tuple, if what is in it does. *)
LEMMA MirrorsBuilt ==
  ASSUME NEW l \in Nat, NEW js, NEW ds, Cores(l, js), Cores(l, ds), NEW exact,
         \A j \in 1..l : Mirrors(exact, js[j], ds[j]), NEW type
  PROVE  Mirrors(exact, BuiltOf(type, js), BuiltOf(type, ds))
<1> DEFINE json == BuiltOf(type, js)
           dict == BuiltOf(type, ds)
<1> SUFFICES Mirrors(exact, json, dict)
  OBVIOUS
<1>1. CASE \A j \in 1..l : js[j].o = "ok"
  <2>1. \A j \in 1..l : ds[j] = js[j]
    BY <1>1 DEF Mirrors
  <2>2. Vals(ds) = Vals(js)
    BY <2>1 DEF Vals, Cores
  <2>3. \A j \in 1..l : js[j].o \notin Stops /\ ds[j].o \notin Stops
    BY <1>1, <2>1 DEF Stops
  <2>4. json = Ok(ListOf(type, Vals(js))) /\ dict = Ok(ListOf(type, Vals(ds)))
    BY <2>3, BuiltOfIs
  <2> QED
    BY <2>2, <2>4, MirrorsSame
<1>2. CASE ~\A j \in 1..l : js[j].o = "ok"
  <2>1. PICK k \in 1..l : json = js[k] /\ js[k].o \in Stops /\ \A j \in 1..k - 1 : js[j].o = "ok"
    BY <1>2, BuiltOfIs
  <2>2. json.o # "ok"
    BY <2>1 DEF Stops
  <2>3. ASSUME exact  PROVE LikeDict(json, dict)
    <3>1. \A j \in 1..l : Mirrors(TRUE, js[j], ds[j])
      BY <2>3
    <3>2. ds[k].o # "ok"
      BY <2>1, <3>1, ExceptionsOut DEF Mirrors, LikeDict, Stops, Errors
    <3>3. PICK i \in 1..l : dict = ds[i] /\ ds[i].o \in Stops /\ \A j \in 1..i - 1 : ds[j].o = "ok"
      BY <3>2, BuiltOfIs
    <3>4. i = k
      BY <2>1, <3>1, <3>3, FirstStop
    <3> QED
      BY <2>1, <3>1, <3>3, <3>4 DEF Mirrors
  <2> QED
    BY <2>2, <2>3 DEF Mirrors
<1> QED
  BY <1>1, <1>2

(* One entry, and all the entries, with the keys that are the same on both sides. *)
LEMMA MirrorsMember ==
  ASSUME NEW k, CoreOut(k), NEW json, NEW dict, CoreOut(json), CoreOut(dict), NEW exact, Mirrors(exact, json, dict)
  PROVE  Mirrors(exact, SetMember(k, json), SetMember(k, dict))
<1>1. CASE json = dict
  BY <1>1, MirrorsSame
<1>2. CASE k.o \in Stops
  BY <1>2, MirrorsSame DEF SetMember
<1>3. CASE json # dict /\ k.o \notin Stops
  <2>1. json.o # "ok"
    BY <1>3 DEF Mirrors
  <2>2. SetMember(k, json) = json
    BY <1>3, <2>1 DEF SetMember
  <2>3. dict.o \in Errors => SetMember(k, dict) = dict
    BY <1>3 DEF SetMember, Errors
  <2> QED
    BY <1>3, <2>1, <2>2, <2>3 DEF Mirrors, LikeDict
<1> QED
  BY <1>1, <1>2, <1>3

LEMMA MirrorsSet ==
  ASSUME NEW l \in Nat, NEW keys, NEW js, NEW ds, Cores(l, keys), Cores(l, js), Cores(l, ds), NEW exact,
         \A j \in 1..l : Mirrors(exact, js[j], ds[j])
  PROVE  Mirrors(exact, SetItems(keys, js), SetItems(keys, ds))
<1> DEFINE jm == Members_(keys, js)
           dm == Members_(keys, ds)
           json == SetItems(keys, js)
           dict == SetItems(keys, ds)
<1> SUFFICES Mirrors(exact, json, dict)
  OBVIOUS
<1>1. Cores(l, jm) /\ Cores(l, dm)
  BY SetItemsIs
<1>2. \A j \in 1..l : jm[j] = SetMember(keys[j], js[j]) /\ dm[j] = SetMember(keys[j], ds[j])
  BY SetItemsIs
<1>3. \A j \in 1..l : Mirrors(exact, jm[j], dm[j])
  BY <1>2, MirrorsMember DEF Cores
<1>4. \/ /\ \A j \in 1..l : keys[j].o = "ok" /\ js[j].o = "ok" /\ Hashable(keys[j].v)
         /\ json = Assigned(Vals(keys), Vals(js))
      \/ \E k \in 1..l : json = jm[k] /\ jm[k].o \in Stops /\ \A j \in 1..k - 1 : jm[j].o = "ok"
  BY SetItemsIs
<1>5. \/ /\ \A j \in 1..l : keys[j].o = "ok" /\ ds[j].o = "ok" /\ Hashable(keys[j].v)
         /\ dict = Assigned(Vals(keys), Vals(ds))
      \/ \E k \in 1..l : dict = dm[k] /\ dm[k].o \in Stops /\ \A j \in 1..k - 1 : dm[j].o = "ok"
  BY SetItemsIs
<1> HIDE DEF jm, dm, json, dict
<1>6. CASE \A j \in 1..l : jm[j].o = "ok"
  <2>1. \A j \in 1..l : dm[j].o \notin Stops /\ jm[j].o \notin Stops
    BY <1>3, <1>6 DEF Mirrors, Stops
  <2>2. json = Assigned(Vals(keys), Vals(js)) /\ dict = Assigned(Vals(keys), Vals(ds)) /\ \A j \in 1..l : js[j].o = "ok"
    BY <1>4, <1>5, <2>1
  <2>3. \A j \in 1..l : ds[j] = js[j]
    BY <2>2 DEF Mirrors
  <2>4. Vals(ds) = Vals(js)
    BY <2>3 DEF Vals, Cores
  <2> QED
    BY <2>2, <2>4, MirrorsSame
<1>7. CASE ~\A j \in 1..l : jm[j].o = "ok"
  <2>1. ~\A j \in 1..l : keys[j].o = "ok" /\ js[j].o = "ok" /\ Hashable(keys[j].v)
    BY <1>2, <1>7 DEF SetMember, Stops
  <2>2. PICK k \in 1..l : json = jm[k] /\ jm[k].o \in Stops /\ \A j \in 1..k - 1 : jm[j].o = "ok"
    BY <1>4, <2>1
  <2>3. json.o # "ok"
    BY <2>2 DEF Stops
  <2>4. ASSUME exact  PROVE LikeDict(json, dict)
    <3>1. \A j \in 1..l : Mirrors(TRUE, jm[j], dm[j])
      BY <1>3, <2>4
    <3>2. dm[k].o \in Stops
      BY <2>2, <3>1, ExceptionsOut DEF Mirrors, LikeDict, Stops, Errors
    <3>3. ~\A j \in 1..l : keys[j].o = "ok" /\ ds[j].o = "ok" /\ Hashable(keys[j].v)
      BY <1>2, <3>2 DEF SetMember, Stops
    <3>4. PICK i \in 1..l : dict = dm[i] /\ dm[i].o \in Stops /\ \A j \in 1..i - 1 : dm[j].o = "ok"
      BY <1>5, <3>3
    <3>5. i = k
      BY <1>1, <2>2, <3>1, <3>4, FirstStop
    <3> QED
      BY <2>2, <3>1, <3>4, <3>5 DEF Mirrors
  <2> QED
    BY <2>3, <2>4 DEF Mirrors
<1> QED
  BY <1>6, <1>7

-----------------------------------------------------------------------------
(* What is fusable is so inside. *)
LEMMA FusableParts ==
  ASSUME NEW m \in Nat, NEW f \in Fusable[m + 1]
  PROVE  /\ f \in DOMAIN Elements[m + 1]
         /\ f.kind # "Enum" => \A j \in DOMAIN f.inner : f.inner[j] \in Fusable[m] /\ ~Processed(f.inner[j])
BY FusableUnfold DEF FusableLevel

LEMMA FusableBuilt ==
  ASSUME NEW n \in Nat
  PROVE  Fusable[n] \subseteq DOMAIN Elements[n]
<1>1. CASE n = 0
  BY <1>1, FusableUnfold
<1>2. CASE n # 0
  <2>1. n - 1 \in Nat /\ n = (n - 1) + 1
    BY <1>2
  <2> QED
    BY <2>1, FusableParts
<1> QED
  BY <1>1, <1>2

(* Repeated keys move nothing: there is no key field, or no key that is ambiguous. *)
Kept(n, f, jv) == f \in KeylessTo[n] \/ jv \in UniformTo[ValueDepth]

LEMMA KeptParts ==
  ASSUME NEW n \in Nat, NEW f, NEW jv, Kept(n, f, jv)
  PROVE  \A j \in DOMAIN jv.c : Kept(n, f, jv.c[j].v)
BY UniformParts DEF Kept

LEMMA KeptInner ==
  ASSUME NEW n \in Nat, NEW f, NEW jv, Kept(n + 1, f, jv)
  PROVE  \A i \in DOMAIN f.inner : Kept(n, f.inner[i], jv)
BY KeylessUnfold DEF Kept, KeylessStep

(***************************************************************************)
(* The elements of n levels do the same off the tree as off the dict.      *)
(***************************************************************************)
JsonMirrors(n) ==
  \A g \in Fusable[n] : g \in PlainTo[n] =>
    \A jv \in JsonValues : \A p \in Partials :
      jv # NoneVal /\ Kept(n, g, jv) =>
        Mirrors(jv \in Values, JsonElements[n][g][jv][p], Elements[n][g][JsonToPy(jv)][p])

LEMMA Typed ==
  ASSUME NEW n \in Nat, NEW g \in Fusable[n], NEW jv \in JsonValues, NEW p \in Partials
  PROVE  /\ g \in DOMAIN Elements[n] /\ g \in DOMAIN JsonElements[n] /\ g \in FieldsTo[n]
         /\ CoreOut(JsonElements[n][g][jv][p]) /\ CoreOut(Elements[n][g][JsonToPy(jv)][p])
<1>1. g \in DOMAIN Elements[n] /\ g \in DOMAIN JsonElements[n]
  BY FusableBuilt, JsonElementsAre
<1>2. JsonToPy(jv) \in Values
  BY JsonToPyIs
<1> QED
  BY <1>1, <1>2, JsonElementsOut, ElementsOut DEF JsonTyped, CoreTyped

(* A field of a schema that is there. *)
LEMMA SpecMirrors ==
  ASSUME NEW n \in Nat, JsonMirrors(n), NEW g \in Fusable[n], g \in PlainTo[n], ~Processed(g),
         NEW jv \in JsonValues, Kept(n, g, jv), NEW p \in Partials
  PROVE  /\ Mirrors(jv \in Values, RunSpecJson(JsonElements[n], g, jv, p),
                                   RunSpec(Elements[n], n, g, JsonToPy(jv), p))
         /\ ~Callback(Elements[n], g) /\ ~Callback(JsonElements[n], g)
<1>1. ~Callback(Elements[n], g) /\ ~Callback(JsonElements[n], g)
  BY Typed DEF Callback
<1>2. CASE jv = NoneVal
  <2>1. JsonToPy(jv) = jv
    BY <1>2, JsonNone
  <2>2. RunSpec(Elements[n], n, g, jv, p) = IF g.none THEN Ok(jv) ELSE Defer
    BY <1>1, <1>2, RunSpecIs
  <2>3. RunSpecJson(JsonElements[n], g, jv, p) = IF g.none THEN Ok(jv) ELSE Defer
    BY <1>2 DEF RunSpecJson
  <2> QED
    BY <1>1, <2>1, <2>2, <2>3, MirrorsSame
<1>3. CASE jv # NoneVal
  <2>1. JsonToPy(jv) # NoneVal
    BY <1>3, JsonNone
  <2>2. RunSpec(Elements[n], n, g, JsonToPy(jv), p) = CheckValidators(g, Elements[n][g][JsonToPy(jv)][p])
    BY <1>1, <2>1, RunSpecIs
  <2>3. RunSpecJson(JsonElements[n], g, jv, p) = CheckValidators(g, JsonElements[n][g][jv][p])
    BY <1>3 DEF RunSpecJson
  <2>4. Mirrors(jv \in Values, JsonElements[n][g][jv][p], Elements[n][g][JsonToPy(jv)][p])
    BY <1>3 DEF JsonMirrors
  <2>5. CoreOut(JsonElements[n][g][jv][p]) /\ CoreOut(Elements[n][g][JsonToPy(jv)][p])
    BY Typed
  <2>6. Mirrors(jv \in Values, CheckValidators(g, JsonElements[n][g][jv][p]),
                               CheckValidators(g, Elements[n][g][JsonToPy(jv)][p]))
    BY <2>4, <2>5, MirrorsChecked
  <2> QED
    BY <1>1, <2>2, <2>3, <2>6
<1> QED
  BY <1>2, <1>3

LEMMA RunOneIs ==
  ASSUME NEW elements, NEW n, NEW f, NEW w, NEW p
  PROVE  LET r == RunSpec(elements, n, f.inner[1], GetItem(w.c, InnerKey), p)
         IN  /\ w.t # "dict" => RunOne(elements, n, f, w, p) = Defer
             /\ w.t = "dict" /\ ~HasKey(w.c, InnerKey) =>
                  RunOne(elements, n, f, w, p) = IF p = "all" /\ w.c = <<>> THEN Ok(w) ELSE Defer
             /\ w.t = "dict" /\ HasKey(w.c, InnerKey) =>
                  RunOne(elements, n, f, w, p) =
                    IF r.o # "ok" THEN r
                    ELSE IF \E j \in DOMAIN w.c : w.c[j].k # InnerKey THEN Defer ELSE Ok(Wrapped(r.v))
BY DEF RunOne, Then

(* A record of the schema in f: run_one_json and run_one. *)
LEMMA OneMirrors ==
  ASSUME NEW n \in Nat, JsonMirrors(n), NEW f, f.inner[1] \in Fusable[n], f.inner[1] \in PlainTo[n],
         ~Processed(f.inner[1]), NEW jv \in JsonValues, \A j \in DOMAIN jv.c : Kept(n, f.inner[1], jv.c[j].v),
         NEW p \in Partials
  PROVE  Mirrors(jv \in Values, RunOneJson(JsonElements[n], f, jv, p),
                                RunOne(Elements[n], n, f, JsonToPy(jv), p))
<1> DEFINE els == Elements[n]
           json == JsonElements[n]
           g == f.inner[1]
           v == JsonToPy(jv)
           x == GetItem(jv.c, InnerKey)
<1>1. ~Callback(els, g) /\ ~Callback(json, g) /\ g \in FieldsTo[n]
  BY Typed, JsonElementsAre, FusableBuilt, ElementsOut DEF Callback
<1>2. v.t = jv.t /\ v \in Values /\ Len(jv.c) \in Nat /\ DOMAIN jv.c = 1..Len(jv.c)
  BY JsonToPyIs, JsonParts
<1>3. CASE jv.t # "dict"
  <2>1. RunOneJson(json, f, jv, p) = Defer
    BY <1>3, RunOneJsonIs
  <2>2. RunOne(els, n, f, v, p) = Defer
    BY <1>2, <1>3, RunOneIs
  <2> QED
    BY <2>1, <2>2, MirrorsSame
<1>4. CASE jv.t = "dict" /\ \E j \in DOMAIN jv.c : jv.c[j].k # InnerKey
  <2>1. RunOneJson(json, f, jv, p) = Defer
    BY <1>4, RunOneJsonIs
  <2>2. ASSUME jv \in Values  PROVE LikeDict(Defer, RunOne(els, n, f, v, p))
    <3>1. v = jv /\ jv.c # <<>>
      BY <1>4, <2>2, JsonToPySame
    <3> DEFINE r == RunSpec(els, n, g, x, p)
    <3>2. HasKey(jv.c, InnerKey) => CoreOut(r)
      <4> SUFFICES ASSUME HasKey(jv.c, InnerKey)  PROVE CoreOut(r)
        OBVIOUS
      <4>1. x \in Values
        BY <1>2, <2>2, GetItemMade, Parts, SMTT(40)
      <4> QED
        BY <1>1, <4>1, RunSpecOut, ElementsOut
    <3>3. /\ ~HasKey(jv.c, InnerKey) => RunOne(els, n, f, jv, p) = Defer
          /\ HasKey(jv.c, InnerKey) => RunOne(els, n, f, jv, p) = IF r.o # "ok" THEN r ELSE Defer
      BY <1>4, <3>1, RunOneIs
    <3> HIDE DEF r
    <3>4. RunOne(els, n, f, jv, p) = Defer \/ RunOne(els, n, f, jv, p).o \in Errors
      BY <3>2, <3>3, CoreKinds DEF Errors
    <3> QED
      BY <3>1, <3>4 DEF LikeDict
  <2> QED
    BY <2>1, <2>2, ExceptionsOut DEF Mirrors
<1>5. CASE jv.t = "dict" /\ jv.c = <<>>
  <2>1. v = jv
    BY <1>5, JsonEmpty
  <2>2. ~HasKey(jv.c, InnerKey)
    BY <1>5 DEF HasKey
  <2>3. RunOne(els, n, f, jv, p) = IF p = "all" THEN Ok(jv) ELSE Defer
    BY <1>5, <2>2, RunOneIs
  <2>4. RunOneJson(json, f, jv, p) = IF p = "all" THEN Ok(jv) ELSE Defer
    BY <1>1, <1>5, RunOneJsonIs, ZenonT(60)
  <2> QED
    BY <2>1, <2>3, <2>4, MirrorsSame
<1>6. CASE jv.t = "dict" /\ jv.c # <<>> /\ \A j \in DOMAIN jv.c : jv.c[j].k = InnerKey
  <2> DEFINE r == RunSpecJson(json, g, x, p)
             s == RunSpec(els, n, g, JsonToPy(x), p)
  <2>1. PICK j \in DOMAIN jv.c : x = jv.c[j].v
    BY <1>6, JsonRecordIs
  <2>2. v = Wrapped(JsonToPy(x))
    BY <1>6, JsonRecordIs
  <2>3. x \in JsonValues /\ Kept(n, g, x) /\ (jv \in Values => x \in Values)
    BY <2>1, JsonParts, Parts
  <2>4. Mirrors(x \in Values, r, s)
    BY <2>3, SpecMirrors
  <2>5. RunOneJson(json, f, jv, p) = IF r.o = "ok" THEN Ok(Wrapped(r.v)) ELSE r
    <3>1. ~Callback(json, g) /\ jv.t = "dict" /\ jv.c # <<>> /\ \A i \in DOMAIN jv.c : jv.c[i].k = InnerKey
      BY <1>1, <1>6
    <3> HIDE DEF json, els
    <3> QED
      BY <3>1, RunOneJsonIs, ZenonT(60)
  <2>6. RunOne(els, n, f, Wrapped(JsonToPy(x)), p) = IF s.o # "ok" THEN s ELSE Ok(Wrapped(s.v))
    BY WrappedIs, RunOneIs
  <2> HIDE DEF r, s
  <2>7. RunOne(els, n, f, v, p) = IF s.o # "ok" THEN s ELSE Ok(Wrapped(s.v))
    BY <2>2, <2>6
  <2> HIDE DEF v, json, els
  <2>8. CASE r = s
    BY <2>5, <2>7, <2>8, MirrorsSame DEF json, els, v
  <2>9. CASE r # s
    <3>1. r.o # "ok"
      BY <2>4, <2>9 DEF Mirrors
    <3>2. s.o \in Errors => s.o # "ok"
      BY DEF Errors
    <3> QED
      BY <2>3, <2>4, <2>5, <2>7, <2>9, <3>1, <3>2 DEF Mirrors, LikeDict, json, els, v
  <2> QED
    BY <2>8, <2>9
<1> QED
  BY <1>3, <1>4, <1>5, <1>6

(* A Nested, of one record or of many. *)
LEMMA NestedMirrors ==
  ASSUME NEW n \in Nat, JsonMirrors(n), NEW f \in Fusable[n + 1], f \in PlainTo[n + 1], f.kind = "Nested",
         NEW jv \in JsonValues, Kept(n + 1, f, jv), NEW p \in Partials
  PROVE  Mirrors(jv \in Values, ApplyJson(JsonElements[n], n, f, jv, p), Apply(Elements[n], n, f, JsonToPy(jv), p))
<1> DEFINE els == Elements[n]
           json == JsonElements[n]
           g == f.inner[1]
           v == JsonToPy(jv)
           l == Len(jv.c)
           js == [j \in DOMAIN jv.c |-> RunOneJson(json, f, jv.c[j].v, p)]
           ds == [j \in DOMAIN Items(v) |-> RunOne(els, n, f, Items(v)[j], p)]
<1>1. f \in FieldsTo[n + 1] /\ 1 \in DOMAIN f.inner
  <2>1. f \in FieldsTo[n + 1]
    BY FusableBuilt, ElementsOut, n + 1 \in Nat
  <2>2. DOMAIN f.inner = 1..1
    BY <2>1, FieldInner
  <2> QED
    BY <2>1, <2>2
<1>2. g \in Fusable[n] /\ g \in PlainTo[n] /\ ~Processed(g) /\ g \in FieldsTo[n]
  BY <1>1, FusableParts, PlainInner, FieldInner
<1>3. ASSUME NEW w \in JsonValues, Kept(n + 1, f, w)
      PROVE  /\ Mirrors(w \in Values, RunOneJson(json, f, w, p), RunOne(els, n, f, JsonToPy(w), p))
             /\ CoreOut(RunOneJson(json, f, w, p)) /\ CoreOut(RunOne(els, n, f, JsonToPy(w), p))
  <2>1. \A j \in DOMAIN w.c : Kept(n, g, w.c[j].v)
    BY <1>1, <1>3, KeptParts, KeptInner, n + 1 \in Nat
  <2>2. Mirrors(w \in Values, RunOneJson(json, f, w, p), RunOne(els, n, f, JsonToPy(w), p))
    BY <1>2, <2>1, OneMirrors
  <2>3. CoreOut(RunOneJson(json, f, w, p))
    BY JsonElementsOut, RunOneJsonOut
  <2>4. JsonToPy(w) \in Values
    BY JsonToPyIs
  <2>5. CoreOut(RunOne(els, n, f, JsonToPy(w), p))
    BY <1>2, <2>4, ElementsOut, RunOneOut
  <2> QED
    BY <2>2, <2>3, <2>5
<1>4. RunJson(json, f, jv, p) =
        IF "many" \notin f.opts THEN RunOneJson(json, f, jv, p)
        ELSE IF jv.t = "list" THEN BuiltOf("list", js) ELSE Defer
  BY DEF RunJson
<1>5. Run(els, n, f, v, p) =
        IF "many" \notin f.opts THEN RunOne(els, n, f, v, p)
        ELSE IF ListLike(v) THEN BuiltOf("list", ds) ELSE Defer
  BY DEF Run, RunMany
<1>6. ListLike(v) <=> jv.t = "list"
  BY JsonToPyIs, JsonParts DEF ListLike, JsonTypes
<1>7. /\ Mirrors(jv \in Values, RunJson(json, f, jv, p), Run(els, n, f, v, p))
      /\ CoreOut(RunJson(json, f, jv, p)) /\ CoreOut(Run(els, n, f, v, p))
  <2>1. CASE "many" \notin f.opts
    BY <1>3, <1>4, <1>5, <2>1
  <2>2. CASE "many" \in f.opts /\ jv.t # "list"
    BY <1>4, <1>5, <1>6, <2>2, MirrorsSame, ExceptionsOut
  <2>3. CASE "many" \in f.opts /\ jv.t = "list"
    <3>1. /\ l \in Nat /\ DOMAIN jv.c = 1..l /\ \A j \in 1..l : jv.c[j].v \in JsonValues /\ Kept(n + 1, f, jv.c[j].v)
          /\ jv \in Values => \A j \in 1..l : jv.c[j].v \in Values
      BY JsonParts, Parts, KeptParts, n + 1 \in Nat
    <3>2. DOMAIN Items(v) = 1..l /\ \A j \in 1..l : Items(v)[j] = JsonToPy(jv.c[j].v)
      BY <2>3, <3>1, JsonItems DEF Items
    <3>3. DOMAIN js = 1..l /\ \A j \in 1..l : js[j] = RunOneJson(json, f, jv.c[j].v, p)
      BY <3>1
    <3>4. DOMAIN ds = 1..l /\ \A j \in 1..l : ds[j] = RunOne(els, n, f, JsonToPy(jv.c[j].v), p)
      BY <3>2
    <3> HIDE DEF js, ds
    <3>5. Cores(l, js) /\ Cores(l, ds)
      BY <1>3, <3>1, <3>3, <3>4 DEF Cores
    <3>6. \A j \in 1..l : Mirrors(jv \in Values, js[j], ds[j])
      BY <1>3, <3>1, <3>3, <3>4 DEF Mirrors
    <3>7. Mirrors(jv \in Values, BuiltOf("list", js), BuiltOf("list", ds))
      BY <3>1, <3>5, <3>6, MirrorsBuilt
    <3>8. CoreOut(BuiltOf("list", js)) /\ CoreOut(BuiltOf("list", ds))
      BY <3>1, <3>5, BuiltOfIs
    <3> QED
      BY <1>4, <1>5, <1>6, <2>3, <3>7, <3>8
  <2> QED
    BY <2>1, <2>2, <2>3
<1>8. /\ ApplyJson(json, n, f, jv, p) = PostLoaded(f, RunJson(json, f, jv, p))
      /\ Apply(els, n, f, v, p) = PostLoaded(f, Run(els, n, f, v, p))
  BY ApplyJsonIs, ApplyIs
<1> QED
  BY <1>7, <1>8, MirrorsHooked

-----------------------------------------------------------------------------
(***************************************************************************)
(* What a key field makes of a string: something that is equal to itself,  *)
(* unless the string names a NaN, and hashable, unless it is a Pluck's.    *)
(***************************************************************************)
LEMMA SelfEqual ==
  ASSUME NEW v, v.t \notin {"bool", "int", "subint", "float"} \/ v.a # "nan"
  PROVE  PyEq(v, v)
BY DEF PyEq

GoodKey(k, r) == r.o = "ok" => Hashable(r.v) /\ r.v.t # "evil" /\ (~NamesNan(k) => PyEq(r.v, r.v))

LEMMA KeyCall ==
  ASSUME NEW fn \in {"int", "float", "decode", "bytes16", "uuid", "date", "held", "by_name", "by_value"},
         NEW k, NEW v, v.t \notin {"int", "float"} \/ fn \notin {"int", "float"}, v = k \/ fn # "float"
  PROVE  GoodKey(k, Call(fn, v)) /\ GoodKey(k, ToFallback(Call(fn, v)))
<1> DEFINE row == CHOOSE row \in Results[fn] : row[1] = v
<1>1. Call(fn, v) = IF v.t = "evil" THEN Interrupted
                    ELSE IF \E r \in Results[fn] : r[1] = v THEN Ok(row[2]) ELSE Invalid
  BY DEF Call
<1>2. ASSUME \E r \in Results[fn] : r[1] = v
      PROVE  Hashable(row[2]) /\ row[2].t # "evil" /\ (~NamesNan(k) => PyEq(row[2], row[2]))
  <2>1. row \in Results[fn] /\ row[1] = v
    BY <1>2
  <2> HIDE DEF row
  <2>2. Hashable(row[2]) /\ row[2].t # "evil" /\ (fn # "float" => PyEq(row[2], row[2]))
    BY <2>1, ResultsAssumption
  <2>3. fn = "float" /\ ~NamesNan(k) => row[2].a # "nan"
    BY <2>1 DEF NamesNan
  <2> QED
    BY <2>2, <2>3, SelfEqual
<1> HIDE DEF row
<1>3. GoodKey(k, Call(fn, v))
  BY <1>1, <1>2, OkOut, ExceptionsOut DEF GoodKey
<1>4. ToFallback(Call(fn, v)) \in {Call(fn, v), Defer}
  BY CallOut, ToFallbackIs
<1> QED
  BY <1>3, <1>4, ExceptionsOut DEF GoodKey

(* An Enum makes a member of anything. *)
LEMMA KeyEnum ==
  ASSUME NEW f, NEW k, NEW x
  PROVE  GoodKey(k, ToFallback(EnumCall(f, x)))
BY KeyCall DEF EnumCall

LEMMA DeferGood ==
  ASSUME NEW k, NEW r, r.o # "ok"
  PROVE  GoodKey(k, r)
BY DEF GoodKey

LEMMA KeyMade ==
  ASSUME NEW elements, NEW n, NEW f, f.kind \in Kinds, f.kind # "Foreign", f.kind # "Pluck",
         NEW k, k.t = "str", NEW p, f.kind = "Enum" => CoreOut(elements[f.inner[1]][k][p])
  PROVE  GoodKey(k, Apply(elements, n, f, k, p))
<1> DEFINE r == Apply(elements, n, f, k, p)
<1> SUFFICES GoodKey(k, r)
  OBVIOUS
<1>1. GoodKey(k, Ok(k)) /\ GoodKey(k, Defer)
  BY OkOut, ExceptionsOut, SelfEqual DEF GoodKey, Hashable, Mapping
<1>2. \A type \in {"int", "float", "date", "held", "uuid", "bytes16"} : GoodKey(k, ToFallback(Call(type, k)))
  BY KeyCall
<1>3. \A type \in {"int", "float"} : ApplyNumber(type, k) = ToFallback(Call(type, k))
  BY DEF ApplyNumber
<1>4. CASE f.kind \in {"None", "Raw"}
  BY <1>1, <1>4, ApplyIs
<1>5. CASE f.kind = "String"
  BY <1>1, <1>5, ApplyIs DEF ApplyStr
<1>6. CASE f.kind = "Integer"
  <2>1. r = IF "strict" \in f.opts THEN Defer ELSE ApplyNumber("int", k)
    BY <1>6, ApplyIs
  <2> QED
    BY <1>1, <1>2, <1>3, <2>1
<1>7. CASE f.kind = "Float"
  <2> DEFINE s == ToFallback(Call("float", k))
  <2>1. r = IF s.o = "ok" THEN IF s.v.a = "nan" /\ "allow_nan" \notin f.opts THEN Defer ELSE Ok(s.v) ELSE s
    <3>1. r = CheckNan(f, s)
      BY <1>3, <1>7, ApplyIs
    <3> HIDE DEF r, s
    <3> QED
      BY <3>1 DEF CheckNan, Then
  <2>2. GoodKey(k, s)
    BY <1>2
  <2> HIDE DEF r, s
  <2> QED
    BY <1>1, <2>1, <2>2, OkOut DEF GoodKey
<1>8. CASE f.kind = "Boolean"
  <2>1. r \in {Interrupted, Ok(Val("bool", "1")), Ok(Val("bool", "0")), Defer}
    BY <1>8, ApplyIs DEF ApplyBoolean
  <2>2. \A a \in {"0", "1"} : GoodKey(k, Ok(Val("bool", a)))
    <3> SUFFICES ASSUME NEW a \in {"0", "1"}  PROVE GoodKey(k, Ok(Val("bool", a)))
      OBVIOUS
    <3> DEFINE b == Val("bool", a)
    <3>1. b.t = "bool" /\ b.a # "nan"
      BY DEF Val
    <3> HIDE DEF b
    <3>2. PyEq(b, b) /\ Hashable(b) /\ b.t # "evil"
      BY <3>1, SelfEqual DEF Hashable, Mapping
    <3>3. GoodKey(k, Ok(b))
      BY <3>2, OkIs DEF GoodKey
    <3> QED
      BY <3>3 DEF b
  <2>3. GoodKey(k, Interrupted)
    BY DeferGood, ExceptionsOut
  <2> HIDE DEF r
  <2> QED
    BY <1>1, <2>1, <2>2, <2>3
<1>9. CASE f.kind = "UUID"
  <2>1. r = ToFallback(UUIDCall(k))
    BY <1>9, ApplyIs
  <2>2. UUIDCall(k) \in {Call("bytes16", k), Call("uuid", k)}
    BY DEF UUIDCall
  <2> HIDE DEF r
  <2> QED
    BY <1>2, <2>1, <2>2
<1>10. CASE f.kind = "Temporal"
  BY <1>2, <1>10, ApplyIs
<1>11. CASE f.kind \in HeldKinds
  BY <1>2, <1>11, ApplyIs
<1>12. CASE f.kind = "Constant"
  <2> DEFINE b == Val("str", "constant")
  <2>1. b.t = "str"
    BY DEF Val
  <2> HIDE DEF b
  <2>2. GoodKey(k, Ok(b))
    BY <2>1, OkIs, SelfEqual DEF GoodKey, Hashable, Mapping
  <2> QED
    BY <1>12, <2>2, ApplyIs DEF b
<1>13. CASE f.kind = "Enum"
  <2> DEFINE s == elements[f.inner[1]][k][p]
  <2>1. r = IF s.o = "ok" THEN ToFallback(EnumCall(f, s.v)) ELSE s
    BY <1>13, ApplyIs DEF ApplyEnum, Then
  <2> HIDE DEF r, s
  <2> QED
    BY <2>1, KeyEnum, DeferGood, SMTT(40)
<1>14. CASE f.kind \in {"List", "Tuple", "Dict"}
  <2>1. ApplyList(elements, f, k, p) = Defer /\ ApplyTuple(elements, f, k, p) = Defer
    BY DEF ApplyList, ApplyTuple, ListLike
  <2>2. ApplyDictTyped(elements, f, k, p) = Defer
    BY ZenonT(60) DEF ApplyDictTyped
  <2>3. r = Defer
    BY <1>14, <2>1, <2>2, ApplyIs
  <2> QED
    BY <1>1, <2>3
<1>15. CASE f.kind = "Nested"
  <2>1. Run(elements, n, f, k, p) = Defer
    BY RunOneIs DEF Run, ListLike
  <2>2. r = PostLoaded(f, Defer)
    BY <1>15, <2>1, ApplyIs
  <2>3. PostLoaded(f, Defer) = Defer
    BY <1>15, ExceptionsOut, PostLoadedIs
  <2> QED
    BY <1>1, <2>2, <2>3
<1> QED
  BY <1>4, <1>5, <1>6, <1>7, <1>8, <1>9, <1>10, <1>11, <1>12, <1>13, <1>14, <1>15 DEF Kinds

(* A Pluck makes a dict of it. *)
LEMMA KeyPlucked ==
  ASSUME NEW elements, NEW n, NEW f, f.kind = "Pluck", NEW k, k.t = "str", NEW p,
         Apply(elements, n, f, k, p).o = "ok"
  PROVE  PyEq(Apply(elements, n, f, k, p).v, Apply(elements, n, f, k, p).v)
<1> DEFINE s == RunSpec(elements, n, f.inner[1], k, p)
           r == Apply(elements, n, f, k, p)
<1>1. r = IF "many" \notin f.opts THEN RunOne(elements, n, f, Wrapped(k), p) ELSE Defer
  BY ApplyIs, ZenonT(60) DEF RunPluck, ListLike
<1>2. RunOne(elements, n, f, Wrapped(k), p) = IF s.o # "ok" THEN s ELSE Ok(Wrapped(s.v))
  BY WrappedIs, RunOneIs
<1>3. Wrapped(s.v).t = "dict"
  BY WrappedIs
<1> HIDE DEF r, s
<1>4. r.v = Wrapped(s.v)
  BY <1>1, <1>2, OkIs, ExceptionsOut DEF r
<1> QED
  BY <1>3, <1>4, SelfEqual DEF r

(* The key of an entry of a Dict. *)
LEMMA KeyPart ==
  ASSUME NEW n \in Nat, NEW g \in DOMAIN Elements[n], NEW k \in Values, k.t = "str", NEW p \in Partials
  PROVE  LET r == DictPart(g, k, Elements[n][g][k][p])
         IN  /\ CoreOut(r)
             /\ r.o = "ok" /\ ~NamesNan(k) => PyEq(r.v, r.v)
             /\ g.kind # "Pluck" => GoodKey(k, r)
<1> DEFINE e == Elements[n][g][k][p]
           r == DictPart(g, k, e)
<1>1. n # 0
  BY ElementsUnfold
<1> DEFINE m == n - 1
<1>2. m \in Nat /\ n = m + 1
  BY <1>1
<1> HIDE DEF m
<1>3. e = Apply(Elements[m], m, g, k, p) /\ g \in FieldsTo[m + 1] /\ HasElement(Elements[m], g) /\ CoreOut(e)
  BY <1>2, ElementsAre, ElementsOut DEF CoreTyped
<1>4. g.kind \in Kinds /\ g.kind # "Foreign"
  BY <1>2, <1>3, FieldParts, HasElementIs
<1>5. g.kind = "Enum" => CoreOut(Elements[m][g.inner[1]][k][p])
  BY <1>2, <1>3, HasElementIs, ElementsOut DEF CoreTyped
<1>6. g.kind # "Pluck" => GoodKey(k, e)
  BY <1>3, <1>4, <1>5, KeyMade
<1>7. e.o = "ok" /\ ~NamesNan(k) => PyEq(e.v, e.v)
  BY <1>3, <1>6, KeyPlucked DEF GoodKey
<1>8. GoodKey(k, Ok(k))
  BY OkOut, SelfEqual DEF GoodKey, Hashable, Mapping
<1> HIDE DEF e
<1>9. r \in {Ok(k), Defer, e, Interrupted}
  BY <1>3, CheckValidatorsIs DEF DictPart
<1> HIDE DEF r
<1>10. CoreOut(r)
  BY <1>3, <1>9, OkOut, ExceptionsOut
<1>11. r.o = "ok" => r = Ok(k) \/ r = e
  BY <1>9, ExceptionsOut
<1>12. r.o = "ok" /\ ~NamesNan(k) => PyEq(r.v, r.v)
  BY <1>7, <1>8, <1>11, OkIs DEF GoodKey
<1>13. g.kind # "Pluck" => GoodKey(k, r)
  <2>1. r = Ok(k) \/ r = e \/ r.o # "ok"
    BY <1>11
  <2> QED
    BY <1>6, <1>8, <2>1, DeferGood
<1> QED
  BY <1>10, <1>12, <1>13 DEF r, e

-----------------------------------------------------------------------------
(***************************************************************************)
(* A typed Dict.  The core converts every member of an object, the dict of *)
(* json.loads has one entry for each key, with its last value.             *)
(***************************************************************************)
LEMMA SetItemsOk ==
  ASSUME NEW l \in Nat, NEW keys, NEW vals, Cores(l, keys), Cores(l, vals)
  PROVE  /\ (\A j \in 1..l : keys[j].o = "ok" /\ vals[j].o = "ok" /\ Hashable(keys[j].v)) =>
              SetItems(keys, vals) = Assigned(Vals(keys), Vals(vals))
         /\ SetItems(keys, vals).o = "ok" =>
              \A j \in 1..l : keys[j].o = "ok" /\ vals[j].o = "ok" /\ Hashable(keys[j].v)
<1> DEFINE members == Members_(keys, vals)
           out == SetItems(keys, vals)
           Good(j) == keys[j].o = "ok" /\ vals[j].o = "ok" /\ Hashable(keys[j].v)
<1> SUFFICES /\ (\A j \in 1..l : Good(j)) => out = Assigned(Vals(keys), Vals(vals))
             /\ out.o = "ok" => \A j \in 1..l : Good(j)
  OBVIOUS
<1>1. \/ (\A j \in 1..l : Good(j)) /\ out = Assigned(Vals(keys), Vals(vals))
      \/ \E k \in 1..l : out = members[k] /\ members[k].o \in Stops
  BY SetItemsIs
<1>2. \A j \in 1..l : Good(j) => members[j] = vals[j] /\ vals[j].o = "ok"
  BY SetItemsIs DEF SetMember, Stops
<1> HIDE DEF Good, members, out
<1>3. \A j \in 1..l : Good(j) => members[j].o \notin Stops
  BY <1>2 DEF Stops
<1>4. \A k : k.o \in Stops => k.o # "ok"
  BY DEF Stops
<1> QED
  BY <1>1, <1>3, <1>4

(* The object of which no key is repeated. *)
LEMMA DistinctObject ==
  ASSUME NEW jv \in JsonValues, jv.t = "dict", \A j, i \in DOMAIN jv.c : jv.c[j].k = jv.c[i].k => j = i
  PROVE  /\ DOMAIN JsonToPy(jv).c = DOMAIN jv.c
         /\ \A j \in DOMAIN jv.c : /\ JsonToPy(jv).c[j].k = jv.c[j].k
                                   /\ JsonToPy(jv).c[j].v = JsonToPy(jv.c[j].v)
<1> DEFINE l == Len(jv.c)
           keys == KeysOf(jv)
           vals == PyVals(jv)
           c == [j \in 1..l |-> Entry(keys[j], vals[j])]
<1>1. l \in Nat /\ DOMAIN jv.c = 1..l /\ \A j \in 1..l : jv.c[j].k.t = "str"
  BY JsonParts, SMTT(40)
<1>2. /\ DOMAIN keys = 1..l /\ DOMAIN vals = 1..l
      /\ \A j \in 1..l : keys[j] = jv.c[j].k /\ vals[j] = JsonToPy(jv.c[j].v) /\ Hashable(keys[j])
  BY <1>1, JsonObject DEF KeysOf, PyVals
<1> HIDE DEF l, keys, vals
<1>3. \A i, j \in 1..l : PyEq(keys[i], keys[j]) => i = j
  BY <1>1, <1>2, PyEqString
<1>4. Assigned(keys, vals) = Ok(DictOf(c))
  BY <1>1, <1>2, <1>3, DistinctAssigned
<1>5. JsonToPy(jv) = Assigned(keys, vals).v
  BY JsonToPyIs DEF keys, vals
<1>6. DOMAIN c = 1..l /\ \A j \in 1..l : c[j].k = keys[j] /\ c[j].v = vals[j]
  BY DEF Entry
<1> HIDE DEF c
<1>7. JsonToPy(jv).c = c
  <2>1. JsonToPy(jv) = DictOf(c)
    BY <1>4, <1>5, OkIs, Zenon
  <2> QED
    BY <2>1, DictOfIs, Zenon
<1> QED
  BY <1>1, <1>2, <1>6, <1>7

(* The object of one key. *)
LEMMA OneKeyObject ==
  ASSUME NEW jv \in JsonValues, jv.t = "dict", Len(jv.c) # 0, NEW key, \A j \in DOMAIN jv.c : jv.c[j].k = key
  PROVE  /\ DOMAIN JsonToPy(jv).c = 1..1 /\ JsonToPy(jv).c[1].k = key
         /\ Len(jv.c) \in DOMAIN jv.c /\ JsonToPy(jv).c[1].v = JsonToPy(jv.c[Len(jv.c)].v)
<1> DEFINE l == Len(jv.c)
           keys == KeysOf(jv)
           vals == PyVals(jv)
<1>1. l \in Nat \ {0} /\ DOMAIN jv.c = 1..l /\ \A j \in 1..l : jv.c[j].k.t = "str"
  BY JsonParts
<1>2. /\ DOMAIN keys = 1..l /\ \A j \in 1..l : keys[j] = key /\ Hashable(key)
      /\ l \in DOMAIN jv.c /\ vals[l] = JsonToPy(jv.c[l].v)
  <2>1. DOMAIN keys = 1..l /\ \A j \in 1..l : keys[j] = jv.c[j].k /\ Hashable(jv.c[j].k)
    BY <1>1, JsonObject
  <2>2. l \in DOMAIN jv.c
    BY <1>1
  <2>3. vals[l] = JsonToPy(jv.c[l].v)
    BY <2>2 DEF PyVals
  <2>4. \A j \in 1..l : jv.c[j].k = key
    BY <1>1
  <2> HIDE DEF keys, vals, l
  <2> QED
    BY <1>1, <2>1, <2>2, <2>3, <2>4
<1> HIDE DEF l, keys, vals
<1>3. Hashable(key) /\ PyEq(key, key)
  BY <1>1, <1>2, PyEqString
<1>4. Assigned(keys, vals) = Ok(DictOf(<<Entry(key, vals[l])>>))
  BY <1>1, <1>2, <1>3, OneKeyAssigned
<1>5. JsonToPy(jv) = Assigned(keys, vals).v
  BY JsonToPyIs DEF keys, vals
<1>6. JsonToPy(jv).c = <<Entry(key, vals[l])>>
  <2>1. JsonToPy(jv) = DictOf(<<Entry(key, vals[l])>>)
    BY <1>4, <1>5, OkIs, Zenon
  <2> QED
    BY <2>1, DictOfIs, Zenon
<1>7. DOMAIN <<Entry(key, vals[l])>> = 1..1 /\ <<Entry(key, vals[l])>>[1] = Entry(key, vals[l])
  OBVIOUS
<1>8. Entry(key, vals[l]).k = key /\ Entry(key, vals[l]).v = vals[l]
  BY DEF Entry
<1> QED
  BY <1>2, <1>6, <1>7, <1>8 DEF l

(* Any object: where the entries of its dict are. *)
LEMMA AnyObject ==
  ASSUME NEW jv \in JsonValues, jv.t = "dict"
  PROVE  LET keys == KeysOf(jv)
         IN  \E m \in Nat : /\ DOMAIN Firsts(keys) = 1..m /\ DOMAIN Lasts(keys) = 1..m
                            /\ DOMAIN JsonToPy(jv).c = 1..m
                            /\ \A i \in 1..m : /\ Firsts(keys)[i] \in DOMAIN jv.c /\ Lasts(keys)[i] \in DOMAIN jv.c
                                               /\ JsonToPy(jv).c[i].k = keys[Firsts(keys)[i]]
                                               /\ JsonToPy(jv).c[i].v = JsonToPy(jv.c[Lasts(keys)[i]].v)
                            /\ \A i, j \in 1..m : PyEq(keys[Firsts(keys)[i]], keys[Firsts(keys)[j]]) => i = j
<1> DEFINE keys == KeysOf(jv)
           vals == PyVals(jv)
           o == Firsts(keys)
           e == Lasts(keys)
           c == [i \in DOMAIN o |-> Entry(keys[o[i]], vals[e[i]])]
<1>1. Len(jv.c) \in Nat /\ DOMAIN jv.c = 1..Len(jv.c) /\ DOMAIN keys = DOMAIN jv.c
  BY JsonParts, JsonObject
<1>2. JsonToPy(jv) = DictOf(c)
  BY JsonObject
<1>3. \A j \in DOMAIN jv.c : vals[j] = JsonToPy(jv.c[j].v)
  BY DEF PyVals
<1> HIDE DEF keys, vals
<1>4. PICK m \in Nat : DOMAIN o = 1..m /\ DOMAIN e = 1..m
  BY <1>1, PlacesMade
<1>5. \A i \in 1..m : o[i] \in DOMAIN jv.c /\ e[i] \in DOMAIN jv.c
  BY <1>1, <1>4, PlacesMade
<1>6. \A i, j \in 1..m : PyEq(keys[o[i]], keys[o[j]]) => i = j
  BY <1>1, <1>4, PlacesMade
<1> HIDE DEF o, e
<1>7. DOMAIN c = 1..m /\ \A i \in 1..m : c[i].k = keys[o[i]] /\ c[i].v = vals[e[i]]
  BY <1>4 DEF Entry
<1> HIDE DEF c
<1>8. JsonToPy(jv).c = c
  BY <1>2, DictOfIs
<1>9. \A i \in 1..m : JsonToPy(jv).c[i].v = JsonToPy(jv.c[e[i]].v)
  BY <1>3, <1>5, <1>7, <1>8, SMTT(40)
<1> QED
  BY <1>4, <1>5, <1>6, <1>7, <1>8, <1>9 DEF o, e, keys

(* A value of an object, converted off the tree and off the dict. *)
LEMMA PartMirrors ==
  ASSUME NEW n \in Nat, JsonMirrors(n), NEW h \in Fusable[n], h \in PlainTo[n],
         NEW w \in JsonValues, Kept(n, h, w), NEW p \in Partials
  PROVE  LET j == JsonPart(JsonElements[n], h, w, p)
             d == DictPart(h, JsonToPy(w), Elements[n][h][JsonToPy(w)][p])
         IN  Mirrors(w \in Values, j, d) /\ CoreOut(j) /\ CoreOut(d)
<1> DEFINE je == JsonElements[n][h][w][p]
           de == Elements[n][h][JsonToPy(w)][p]
           j == JsonPart(JsonElements[n], h, w, p)
           d == DictPart(h, JsonToPy(w), de)
<1>1. CoreOut(je) /\ CoreOut(de)
  BY Typed
<1>2. w # NoneVal => Mirrors(w \in Values, je, de)
  BY DEF JsonMirrors
<1>3. j = IF h.kind = "None" THEN Ok(JsonToPy(w)) ELSE IF w = NoneVal THEN Defer ELSE CheckValidators(h, je)
  BY DEF JsonPart, DictPart
<1>4. d = IF h.kind = "None" THEN Ok(JsonToPy(w))
          ELSE IF JsonToPy(w) = NoneVal THEN Defer ELSE CheckValidators(h, de)
  BY DEF DictPart
<1>5. JsonToPy(w) = NoneVal <=> w = NoneVal
  BY JsonNone
<1> HIDE DEF je, de, j, d
<1>6. CoreOut(CheckValidators(h, je)) /\ CoreOut(CheckValidators(h, de))
  BY <1>1, CheckValidatorsIs
<1>7. w # NoneVal => Mirrors(w \in Values, CheckValidators(h, je), CheckValidators(h, de))
  BY <1>1, <1>2, MirrorsChecked
<1>8. CoreOut(j) /\ CoreOut(d) /\ Mirrors(w \in Values, j, d)
  BY <1>3, <1>4, <1>5, <1>6, <1>7, MirrorsSame, OkOut, ExceptionsOut
<1> QED
  BY <1>8 DEF j, d, de

(* A dict of one entry. *)
LEMMA OneAssigned ==
  ASSUME NEW keys, NEW vals, NEW key, DOMAIN keys = 1..1, keys[1] = key, Hashable(key), PyEq(key, key)
  PROVE  Assigned(keys, vals) = Ok(DictOf(<<Entry(key, vals[1])>>))
<1> DEFINE l == 1
<1>1. l \in Nat \ {0} /\ DOMAIN keys = 1..l /\ \A j \in 1..l : keys[j] = key
  OBVIOUS
<1> HIDE DEF l
<1>2. Assigned(keys, vals) = Ok(DictOf(<<Entry(key, vals[l])>>))
  BY <1>1, OneKeyAssigned
<1> QED
  BY <1>2 DEF l

LEMMA DictMirrors ==
  ASSUME NEW n \in Nat, JsonMirrors(n), NEW f \in Fusable[n + 1], f \in PlainTo[n + 1],
         f.kind = "Dict", f.inner # <<NoField, NoField>>,
         NEW jv \in JsonValues, Kept(n + 1, f, jv), NEW p \in Partials
  PROVE  Mirrors(jv \in Values, ApplyJson(JsonElements[n], n, f, jv, p), Apply(Elements[n], n, f, JsonToPy(jv), p))
<1> DEFINE els == Elements[n]
           json == JsonElements[n]
           g == f.inner[1]
           h == f.inner[2]
           v == JsonToPy(jv)
           l == Len(jv.c)
           K(k) == DictPart(g, k, els[g][k][p])
           J(w) == JsonPart(json, h, w, p)
           D(u) == DictPart(h, u, els[h][u][p])
           keys == [j \in DOMAIN jv.c |-> DictPart(g, jv.c[j].k, els[g][jv.c[j].k][p])]
           js == [j \in DOMAIN jv.c |-> JsonPart(json, h, jv.c[j].v, p)]
           dkeys == [j \in DOMAIN v.c |-> DictPart(g, v.c[j].k, els[g][v.c[j].k][p])]
           ds == [j \in DOMAIN v.c |-> DictPart(h, v.c[j].v, els[h][v.c[j].v][p])]
           left == ApplyJson(json, n, f, jv, p)
           right == Apply(els, n, f, v, p)
<1> SUFFICES Mirrors(jv \in Values, left, right)
  OBVIOUS
<1>0. n + 1 \in Nat
  OBVIOUS
<1>1. f \in FieldsTo[n + 1] /\ 1 \in DOMAIN f.inner /\ 2 \in DOMAIN f.inner
  <2>1. f \in FieldsTo[n + 1]
    BY FusableBuilt, ElementsOut, <1>0
  <2>2. DOMAIN f.inner = 1..2
    BY <2>1, FieldInner
  <2> QED
    BY <2>1, <2>2
<1>2. /\ g \in Fusable[n] /\ h \in Fusable[n] /\ h \in PlainTo[n] /\ g \in DOMAIN els
  BY <1>1, FusableParts, FusableBuilt, PlainInner
<1>3. left = IF jv.t # "dict" THEN Defer ELSE SetItems(keys, js)
  <2>1. left = ApplyDictTypedJson(json, n, f, jv, p)
    BY ApplyJsonIs
  <2>2. ApplyDictTypedJson(json, n, f, jv, p) = IF jv.t # "dict" THEN Defer ELSE SetItems(keys, js)
    BY ZenonT(60) DEF ApplyDictTypedJson
  <2> QED
    BY <2>1, <2>2
<1>4. right = IF v.t # "dict" THEN Defer ELSE SetItems(dkeys, ds)
  <2>1. right = ApplyDictTyped(els, f, v, p)
    BY ApplyIs
  <2>2. ApplyDictTyped(els, f, v, p) = IF v.t # "dict" THEN Defer ELSE SetItems(dkeys, ds)
    BY ZenonT(60) DEF ApplyDictTyped
  <2> QED
    BY <2>1, <2>2
<1> HIDE DEF left, right
<1>5. v.t = jv.t /\ v \in Values
  BY JsonToPyIs, SMTT(40)
<1>6. CASE jv.t # "dict"
  BY <1>3, <1>4, <1>5, <1>6, MirrorsSame
<1>7. CASE jv.t = "dict"
  <2>1. /\ l \in Nat /\ DOMAIN jv.c = 1..l
        /\ \A j \in 1..l : /\ jv.c[j].k \in Values /\ jv.c[j].k.t = "str" /\ jv.c[j].v \in JsonValues
                           /\ Hashable(jv.c[j].k)
    BY <1>7, JsonParts, KeyIsValue, DepthAssumption DEF Values
  <2>2. \A j \in 1..l : Kept(n, h, jv.c[j].v)
    BY <1>1, <2>1, KeptParts, KeptInner, <1>0
  <2>3. \A j \in 1..l : CoreOut(K(jv.c[j].k)) /\ (~NamesNan(jv.c[j].k) =>
                          (K(jv.c[j].k).o = "ok" => PyEq(K(jv.c[j].k).v, K(jv.c[j].k).v)))
    BY <1>2, <2>1, KeyPart, ZenonT(60)
  <2>4. \A j \in 1..l : /\ Mirrors(jv.c[j].v \in Values, J(jv.c[j].v), D(JsonToPy(jv.c[j].v)))
                        /\ CoreOut(J(jv.c[j].v)) /\ CoreOut(D(JsonToPy(jv.c[j].v)))
    BY <1>2, <2>1, <2>2, PartMirrors, SMTT(40)
  <2>5. DOMAIN keys = 1..l /\ DOMAIN js = 1..l /\ \A j \in 1..l : keys[j] = K(jv.c[j].k) /\ js[j] = J(jv.c[j].v)
    BY <2>1, SMTT(40)
  <2>6. /\ DOMAIN dkeys = DOMAIN v.c /\ DOMAIN ds = DOMAIN v.c
        /\ \A i \in DOMAIN v.c : dkeys[i] = K(v.c[i].k) /\ ds[i] = D(v.c[i].v)
    OBVIOUS
  <2>7. jv \in Values => /\ \A j \in 1..l : jv.c[j].v \in Values
                         /\ \A j, i \in DOMAIN jv.c : jv.c[j].k = jv.c[i].k => j = i
    BY <1>7, <2>1, Parts, PyEqString, SMTT(40) DEF WellFormed
  <2>8. Cores(l, keys) /\ Cores(l, js)
    BY <2>3, <2>4, <2>5, ZenonT(60) DEF Cores
  <2>9. left = SetItems(keys, js) /\ right = SetItems(dkeys, ds)
    BY <1>3, <1>4, <1>5, <1>7, ZenonT(60)
  <2>10. left.o = "ok" => /\ left = Assigned(Vals(keys), Vals(js))
                          /\ \A j \in 1..l : keys[j].o = "ok" /\ js[j].o = "ok" /\ Hashable(keys[j].v)
                                             /\ D(JsonToPy(jv.c[j].v)) = js[j]
    <3>1. left.o = "ok" => /\ left = Assigned(Vals(keys), Vals(js))
                           /\ \A j \in 1..l : keys[j].o = "ok" /\ js[j].o = "ok" /\ Hashable(keys[j].v)
      BY <2>1, <2>8, <2>9, SetItemsOk, ZenonT(60)
    <3> QED
      BY <2>4, <2>5, <3>1, ZenonT(60) DEF Mirrors
  <2> HIDE DEF keys, js, dkeys, ds, K, J, D, l
  <2>11. DOMAIN Vals(keys) = 1..l /\ DOMAIN Vals(js) = 1..l
         /\ \A j \in 1..l : Vals(keys)[j] = keys[j].v /\ Vals(js)[j] = js[j].v
    BY <2>5 DEF Vals
  <2>12. CASE \A j, i \in DOMAIN jv.c : jv.c[j].k = jv.c[i].k => j = i
    <3>1. DOMAIN v.c = 1..l /\ \A j \in 1..l : v.c[j].k = jv.c[j].k /\ v.c[j].v = JsonToPy(jv.c[j].v)
      BY <1>7, <2>1, <2>12, DistinctObject
    <3>2. dkeys = keys
      <4>1. \A j \in 1..l : dkeys[j] = keys[j]
        BY <2>5, <2>6, <3>1, SMTT(40)
      <4>2. dkeys = [j \in 1..l |-> dkeys[j]] /\ keys = [j \in 1..l |-> keys[j]]
        BY <2>1, <3>1 DEF keys, dkeys
      <4> QED
        BY <4>1, <4>2
    <3>3. DOMAIN ds = 1..l /\ \A j \in 1..l : ds[j] = D(JsonToPy(jv.c[j].v))
      BY <2>6, <3>1
    <3>4. Cores(l, ds)
      BY <2>4, <3>3 DEF Cores
    <3>5. \A j \in 1..l : Mirrors(jv \in Values, js[j], ds[j])
      BY <2>4, <2>5, <2>7, <3>3 DEF Mirrors
    <3> QED
      BY <2>1, <2>8, <2>9, <3>2, <3>4, <3>5, MirrorsSet
  <2>13. CASE ~\A j, i \in DOMAIN jv.c : jv.c[j].k = jv.c[i].k => j = i
    <3> SUFFICES ASSUME left.o = "ok"  PROVE right = left
      BY <2>7, <2>13 DEF Mirrors
    <3>1. CASE UniformKeys(jv)
      <4>1. PICK j0 \in DOMAIN jv.c : TRUE
        BY <2>13
      <4> DEFINE key == jv.c[j0].k
                 last == JsonToPy(jv.c[l].v)
      <4>2. l # 0 /\ l \in 1..l /\ 1 \in 1..l
        BY <2>1, <4>1
      <4>3. \A j \in DOMAIN jv.c : jv.c[j].k = key /\ ~NamesNan(key)
        BY <2>13, <3>1, <4>1 DEF UniformKeys
      <4>4. DOMAIN v.c = 1..1 /\ v.c[1].k = key /\ v.c[1].v = last
        BY <1>7, <4>2, <4>3, OneKeyObject DEF l
      <4> HIDE DEF key, last
      <4>5. \A j \in 1..l : keys[j] = K(key)
        BY <2>1, <2>5, <4>3
      <4>6. DOMAIN dkeys = 1..1 /\ DOMAIN ds = 1..1 /\ dkeys[1] = K(key) /\ ds[1] = js[l]
        BY <2>6, <2>10, <4>2, <4>4 DEF last
      <4>7. CoreOut(K(key)) /\ K(key).o = "ok" /\ Hashable(K(key).v) /\ PyEq(K(key).v, K(key).v)
        BY <2>1, <2>3, <2>10, <4>2, <4>3, <4>5
      <4>8. CoreOut(js[l]) /\ js[l].o = "ok"
        BY <2>8, <2>10, <4>2 DEF Cores
      <4>9. left = Ok(DictOf(<<Entry(K(key).v, Vals(js)[l])>>))
        <5>1. \A j \in 1..l : Vals(keys)[j] = K(key).v
          BY <2>11, <4>5
        <5>2. l \in Nat \ {0}
          BY <2>1, <4>2
        <5>3. Assigned(Vals(keys), Vals(js)) = Ok(DictOf(<<Entry(K(key).v, Vals(js)[l])>>))
          BY <2>11, <4>7, <5>1, <5>2, OneKeyAssigned
        <5> QED
          BY <2>10, <5>3
      <4>10. Cores(1, dkeys) /\ Cores(1, ds)
        <5>1. \A j \in 1..1 : j = 1
          OBVIOUS
        <5> QED
          BY <4>6, <4>7, <4>8, <5>1 DEF Cores
      <4>11. right = Assigned(Vals(dkeys), Vals(ds))
        <5>1. \A j \in 1..1 : dkeys[j].o = "ok" /\ ds[j].o = "ok" /\ Hashable(dkeys[j].v)
          BY <4>6, <4>7, <4>8
        <5> QED
          BY <2>9, <4>10, <5>1, SetItemsOk, 1 \in Nat
      <4>12. /\ DOMAIN Vals(dkeys) = 1..1 /\ \A j \in 1..1 : Vals(dkeys)[j] = K(key).v
             /\ Vals(ds)[1] = js[l].v
        BY <4>6 DEF Vals
      <4>13. Assigned(Vals(dkeys), Vals(ds)) = Ok(DictOf(<<Entry(K(key).v, Vals(ds)[1])>>))
        <5> DEFINE dk == Vals(dkeys)
                   dv == Vals(ds)
                   kv == K(key).v
        <5>1. DOMAIN dk = 1..1 /\ dk[1] = kv /\ Hashable(kv) /\ PyEq(kv, kv)
          BY <4>7, <4>12
        <5> HIDE DEF dk, dv, kv
        <5>2. Assigned(dk, dv) = Ok(DictOf(<<Entry(kv, dv[1])>>))
          BY <5>1, OneAssigned
        <5> QED
          BY <5>2 DEF dk, dv, kv
      <4> QED
        BY <2>11, <4>2, <4>9, <4>11, <4>12, <4>13
    <3>2. CASE g = NoField /\ h \in KeylessTo[n]
      <4> DEFINE ks == KeysOf(jv)
                 o == Firsts(ks)
                 e == Lasts(ks)
      <4>1. PICK m \in Nat : /\ DOMAIN o = 1..m /\ DOMAIN e = 1..m /\ DOMAIN v.c = 1..m
                             /\ \A i \in 1..m : /\ o[i] \in DOMAIN jv.c /\ e[i] \in DOMAIN jv.c
                                                /\ v.c[i].k = ks[o[i]] /\ v.c[i].v = JsonToPy(jv.c[e[i]].v)
                             /\ \A i, j \in 1..m : PyEq(ks[o[i]], ks[o[j]]) => i = j
        BY <1>7, AnyObject
      <4>2. DOMAIN ks = 1..l /\ \A j \in 1..l : ks[j] = jv.c[j].k /\ Hashable(ks[j])
        BY <1>7, <2>1, JsonObject
      <4>3. \A k : K(k) = Ok(k)
        BY <3>2 DEF K, DictPart, NoField, FieldOf
      <4> HIDE DEF ks
      <4>4. \A j \in 1..l : keys[j].v = ks[j]
        BY <2>5, <4>2, <4>3, OkIs
      <4>5. Vals(keys) = ks
        <5>1. \A j \in 1..l : Vals(keys)[j] = ks[j]
          BY <2>11, <4>4
        <5>2. Vals(keys) = [j \in 1..l |-> Vals(keys)[j]]
          BY <2>5 DEF Vals
        <5>3. ks = [j \in 1..l |-> ks[j]]
          BY <2>1 DEF ks, KeysOf
        <5> QED
          BY <5>1, <5>2, <5>3
      <4> HIDE DEF o, e
      <4>6. DOMAIN dkeys = 1..m /\ DOMAIN ds = 1..m
            /\ \A i \in 1..m : dkeys[i] = Ok(ks[o[i]]) /\ ds[i] = js[e[i]]
        BY <2>1, <2>6, <2>10, <4>1, <4>3
      <4>7. \A i \in 1..m : dkeys[i].o = "ok" /\ dkeys[i].v = ks[o[i]] /\ Hashable(ks[o[i]])
                            /\ ds[i].o = "ok" /\ CoreOut(dkeys[i]) /\ CoreOut(ds[i])
        <5> SUFFICES ASSUME NEW i \in 1..m
                     PROVE  /\ dkeys[i].o = "ok" /\ dkeys[i].v = ks[o[i]] /\ Hashable(ks[o[i]])
                            /\ ds[i].o = "ok" /\ CoreOut(dkeys[i]) /\ CoreOut(ds[i])
          OBVIOUS
        <5>1. o[i] \in 1..l /\ e[i] \in 1..l /\ dkeys[i] = Ok(ks[o[i]]) /\ ds[i] = js[e[i]]
          BY <2>1, <4>1, <4>6
        <5>2. Hashable(ks[o[i]])
          BY <4>2, <5>1
        <5>3. ds[i].o = "ok" /\ CoreOut(ds[i])
          BY <2>8, <2>10, <5>1 DEF Cores
        <5>4. dkeys[i].o = "ok" /\ dkeys[i].v = ks[o[i]]
          BY <5>1, OkIs
        <5>5. CoreOut(dkeys[i])
          BY <5>1, OkOut
        <5> QED
          BY <5>2, <5>3, <5>4, <5>5
      <4>8. right = Assigned(Vals(dkeys), Vals(ds))
        <5>1. Cores(m, dkeys) /\ Cores(m, ds)
          BY <4>6, <4>7 DEF Cores
        <5>2. \A j \in 1..m : dkeys[j].o = "ok" /\ ds[j].o = "ok" /\ Hashable(dkeys[j].v)
          BY <4>7
        <5> QED
          BY <2>9, <5>1, <5>2, SetItemsOk
      <4>9. /\ DOMAIN Vals(dkeys) = 1..m /\ DOMAIN Vals(ds) = 1..m
            /\ \A i \in 1..m : Vals(dkeys)[i] = ks[o[i]] /\ Vals(ds)[i] = js[e[i]].v
        BY <4>6, <4>7 DEF Vals
      <4>10. right = Ok(DictOf([i \in 1..m |-> Entry(Vals(dkeys)[i], Vals(ds)[i])]))
        <5>1. /\ \A j \in 1..m : Hashable(Vals(dkeys)[j])
              /\ \A i, j \in 1..m : PyEq(Vals(dkeys)[i], Vals(dkeys)[j]) => i = j
          BY <4>1, <4>7, <4>9
        <5>2. Assigned(Vals(dkeys), Vals(ds)) = Ok(DictOf([i \in 1..m |-> Entry(Vals(dkeys)[i], Vals(ds)[i])]))
          BY <4>9, <5>1, DistinctAssigned, SMTT(40)
        <5> QED
          BY <4>8, <5>2
      <4>11. left = Ok(DictOf([i \in 1..m |-> Entry(ks[o[i]], Vals(js)[e[i]])]))
        <5>1. Assigned(ks, Vals(js)) =
                IF \E j \in DOMAIN ks : ~Hashable(ks[j]) THEN Raise
                ELSE Ok(DictOf([i \in DOMAIN o |-> Entry(ks[o[i]], Vals(js)[e[i]])]))
          BY AssignedIs DEF o, e
        <5>2. ~\E j \in DOMAIN ks : ~Hashable(ks[j])
          BY <4>2
        <5>3. [i \in DOMAIN o |-> Entry(ks[o[i]], Vals(js)[e[i]])] = [i \in 1..m |-> Entry(ks[o[i]], Vals(js)[e[i]])]
          BY <4>1
        <5> QED
          BY <2>10, <4>5, <5>1, <5>2, <5>3
      <4>12. \A i \in 1..m : Entry(ks[o[i]], Vals(js)[e[i]]) = Entry(Vals(dkeys)[i], Vals(ds)[i])
        BY <2>1, <2>11, <4>1, <4>9
      <4>13. [i \in 1..m |-> Entry(ks[o[i]], Vals(js)[e[i]])] = [i \in 1..m |-> Entry(Vals(dkeys)[i], Vals(ds)[i])]
        BY <4>12
      <4> QED
        BY <4>10, <4>11, <4>13
    <3>3. UniformKeys(jv) \/ (g = NoField /\ h \in KeylessTo[n])
      <4>1. f \in KeylessTo[n + 1] => g = NoField /\ h \in KeylessTo[n]
        BY <1>1, KeylessUnfold DEF KeylessStep
      <4> QED
        BY <1>7, <4>1, UniformParts DEF Kept
    <3> QED
      BY <3>1, <3>2, <3>3
  <2> QED
    BY <2>12, <2>13
<1> QED
  BY <1>6, <1>7

(* A List. *)
LEMMA ListMirrors ==
  ASSUME NEW n \in Nat, JsonMirrors(n), NEW f \in Fusable[n + 1], f \in PlainTo[n + 1], f.kind = "List",
         NEW jv \in JsonValues, Kept(n + 1, f, jv), NEW p \in Partials
  PROVE  Mirrors(jv \in Values, ApplyJson(JsonElements[n], n, f, jv, p), Apply(Elements[n], n, f, JsonToPy(jv), p))
<1> DEFINE els == Elements[n]
           json == JsonElements[n]
           g == f.inner[1]
           v == JsonToPy(jv)
           l == Len(jv.c)
           J(w) == ListItem(g, w, json[g][w][p])
           D(w) == ListItem(g, w, els[g][w][p])
           js == [j \in DOMAIN jv.c |-> ListItem(f.inner[1], jv.c[j].v, json[f.inner[1]][jv.c[j].v][p])]
           ds == [j \in DOMAIN v.c |-> ListItem(f.inner[1], v.c[j].v, els[f.inner[1]][v.c[j].v][p])]
           left == ApplyJson(json, n, f, jv, p)
           right == Apply(els, n, f, v, p)
<1> SUFFICES Mirrors(jv \in Values, left, right)
  OBVIOUS
<1>0. n + 1 \in Nat
  OBVIOUS
<1>1. f \in FieldsTo[n + 1] /\ 1 \in DOMAIN f.inner
  <2>1. f \in FieldsTo[n + 1]
    BY FusableBuilt, ElementsOut, <1>0
  <2>2. DOMAIN f.inner = 1..1
    BY <2>1, FieldInner
  <2> QED
    BY <2>1, <2>2
<1>2. g \in Fusable[n] /\ g \in PlainTo[n]
  BY <1>1, FusableParts, PlainInner
<1>3. left = IF jv.t # "list" THEN Defer ELSE BuiltOf("list", js)
  <2>1. left = ApplyListJson(json, f, jv, p)
    BY ApplyJsonIs
  <2>2. ApplyListJson(json, f, jv, p) = IF jv.t # "list" THEN Defer ELSE BuiltOf("list", js)
    BY ZenonT(60) DEF ApplyListJson
  <2> QED
    BY <2>1, <2>2
<1>4. right = IF ~ListLike(v) THEN Defer ELSE BuiltOf("list", ds)
  <2>1. right = ApplyList(els, f, v, p)
    BY ApplyIs
  <2>2. ApplyList(els, f, v, p) = IF ~ListLike(v) THEN Defer ELSE BuiltOf("list", ds)
    BY ZenonT(60) DEF ApplyList
  <2> QED
    BY <2>1, <2>2
<1>5. ListLike(v) <=> jv.t = "list"
  BY JsonToPyIs, JsonParts, SMTT(40) DEF ListLike, JsonTypes
<1>6. ASSUME NEW w \in JsonValues, Kept(n, g, w)
      PROVE  Mirrors(w \in Values, J(w), D(JsonToPy(w))) /\ CoreOut(J(w)) /\ CoreOut(D(JsonToPy(w)))
  <2>1. CoreOut(json[g][w][p]) /\ CoreOut(els[g][JsonToPy(w)][p])
    BY <1>2, Typed, SMTT(40)
  <2>2. CASE w = NoneVal
    <3>1. JsonToPy(w) = w
      BY <2>2, JsonNone
    <3>2. J(w) = D(w) /\ CoreOut(J(w))
      BY <2>2, OkOut, ExceptionsOut, SMTT(40) DEF ListItem
    <3> QED
      BY <3>1, <3>2, MirrorsSame
  <2>3. CASE w # NoneVal
    <3>1. JsonToPy(w) # NoneVal
      BY <2>3, JsonNone
    <3>2. J(w) = json[g][w][p] /\ D(JsonToPy(w)) = els[g][JsonToPy(w)][p]
      BY <2>3, <3>1 DEF ListItem
    <3>3. Mirrors(w \in Values, json[g][w][p], els[g][JsonToPy(w)][p])
      BY <1>2, <1>6, <2>3, SMTT(40) DEF JsonMirrors
    <3> QED
      BY <2>1, <3>2, <3>3
  <2> QED
    BY <2>2, <2>3
<1> HIDE DEF left, right
<1>7. CASE jv.t # "list"
  BY <1>3, <1>4, <1>5, <1>7, MirrorsSame
<1>8. CASE jv.t = "list"
  <2>1. /\ l \in Nat /\ DOMAIN jv.c = 1..l /\ \A j \in 1..l : jv.c[j].v \in JsonValues
        /\ jv \in Values => \A j \in 1..l : jv.c[j].v \in Values
    BY JsonParts, Parts
  <2>2. \A j \in 1..l : Kept(n, g, jv.c[j].v)
    BY <1>1, <2>1, KeptParts, KeptInner, <1>0
  <2>3. DOMAIN v.c = 1..l /\ \A j \in 1..l : v.c[j].v = JsonToPy(jv.c[j].v)
    BY <1>8, <2>1, JsonItems, SMTT(40)
  <2>4. DOMAIN js = 1..l /\ \A j \in 1..l : js[j] = J(jv.c[j].v)
    BY <2>1, SMTT(40)
  <2>5. DOMAIN ds = 1..l /\ \A j \in 1..l : ds[j] = D(JsonToPy(jv.c[j].v))
    BY <2>3
  <2> HIDE DEF js, ds, J, D
  <2>6. Cores(l, js) /\ Cores(l, ds)
    BY <1>6, <2>1, <2>2, <2>4, <2>5 DEF Cores
  <2>7. \A j \in 1..l : Mirrors(jv \in Values, js[j], ds[j])
    BY <1>6, <2>1, <2>2, <2>4, <2>5 DEF Mirrors
  <2> QED
    BY <1>3, <1>4, <1>5, <1>8, <2>1, <2>6, <2>7, MirrorsBuilt
<1> QED
  BY <1>7, <1>8

(* A Tuple. *)
LEMMA TupleMirrors ==
  ASSUME NEW n \in Nat, JsonMirrors(n), NEW f \in Fusable[n + 1], f \in PlainTo[n + 1], f.kind = "Tuple",
         NEW jv \in JsonValues, Kept(n + 1, f, jv), NEW p \in Partials
  PROVE  Mirrors(jv \in Values, ApplyJson(JsonElements[n], n, f, jv, p), Apply(Elements[n], n, f, JsonToPy(jv), p))
<1> DEFINE els == Elements[n]
           json == JsonElements[n]
           v == JsonToPy(jv)
           l == Len(jv.c)
           J(g, w) == TupleItem(w, json[g][w][p])
           D(g, w) == TupleItem(w, els[g][w][p])
           js == [j \in DOMAIN jv.c |-> TupleItem(jv.c[j].v, json[f.inner[j]][jv.c[j].v][p])]
           ds == [j \in DOMAIN v.c |-> TupleItem(v.c[j].v, els[f.inner[j]][v.c[j].v][p])]
           left == ApplyJson(json, n, f, jv, p)
           right == Apply(els, n, f, v, p)
<1> SUFFICES Mirrors(jv \in Values, left, right)
  OBVIOUS
<1>0. n + 1 \in Nat
  OBVIOUS
<1>1. f \in FieldsTo[n + 1]
  BY FusableBuilt, ElementsOut, <1>0
<1>2. Len(f.inner) \in Nat /\ DOMAIN f.inner = 1..Len(f.inner)
      /\ \A j \in DOMAIN f.inner : f.inner[j] \in Fusable[n] /\ f.inner[j] \in PlainTo[n]
  BY <1>1, FieldParts, FusableParts, PlainParts, SMTT(40)
<1>3. left = IF jv.t # "list" \/ l # Len(f.inner) THEN Defer ELSE BuiltOf("tuple", js)
  <2>1. left = ApplyTupleJson(json, f, jv, p)
    BY ApplyJsonIs
  <2>2. ApplyTupleJson(json, f, jv, p) = IF jv.t # "list" \/ l # Len(f.inner) THEN Defer ELSE BuiltOf("tuple", js)
    BY ZenonT(60) DEF ApplyTupleJson
  <2> QED
    BY <2>1, <2>2
<1>4. right = IF ~ListLike(v) \/ Len(v.c) # Len(f.inner) THEN Defer ELSE BuiltOf("tuple", ds)
  <2>1. right = ApplyTuple(els, f, v, p)
    BY ApplyIs
  <2>2. ApplyTuple(els, f, v, p) = IF ~ListLike(v) \/ Len(v.c) # Len(f.inner) THEN Defer ELSE BuiltOf("tuple", ds)
    BY ZenonT(60) DEF ApplyTuple
  <2> QED
    BY <2>1, <2>2
<1>5. ListLike(v) <=> jv.t = "list"
  BY JsonToPyIs, JsonParts DEF ListLike, JsonTypes
<1>6. ASSUME NEW g \in Fusable[n], g \in PlainTo[n], NEW w \in JsonValues, Kept(n, g, w)
      PROVE  Mirrors(w \in Values, J(g, w), D(g, JsonToPy(w))) /\ CoreOut(J(g, w)) /\ CoreOut(D(g, JsonToPy(w)))
  <2>1. CoreOut(json[g][w][p]) /\ CoreOut(els[g][JsonToPy(w)][p])
    BY Typed
  <2>2. CASE w = NoneVal
    <3>1. J(g, w) = Defer /\ D(g, JsonToPy(w)) = Defer
      BY <2>2, JsonNone DEF TupleItem
    <3> QED
      BY <3>1, MirrorsSame, ExceptionsOut
  <2>3. CASE w # NoneVal
    <3>1. JsonToPy(w) # NoneVal
      BY <2>3, JsonNone
    <3>2. J(g, w) = json[g][w][p] /\ D(g, JsonToPy(w)) = els[g][JsonToPy(w)][p]
      BY <2>3, <3>1 DEF TupleItem
    <3>3. Mirrors(w \in Values, json[g][w][p], els[g][JsonToPy(w)][p])
      BY <1>6, <2>3, SMTT(40) DEF JsonMirrors
    <3> QED
      BY <2>1, <3>2, <3>3
  <2> QED
    BY <2>2, <2>3
<1> HIDE DEF left, right
<1>7. CASE jv.t # "list"
  BY <1>3, <1>4, <1>5, <1>7, MirrorsSame
<1>8. CASE jv.t = "list"
  <2>1. /\ l \in Nat /\ DOMAIN jv.c = 1..l /\ \A j \in 1..l : jv.c[j].v \in JsonValues
        /\ jv \in Values => \A j \in 1..l : jv.c[j].v \in Values
    BY JsonParts, Parts
  <2>2. Len(v.c) = l /\ DOMAIN v.c = 1..l /\ \A j \in 1..l : v.c[j].v = JsonToPy(jv.c[j].v)
    BY <1>8, <2>1, JsonItems
  <2>3. CASE l = Len(f.inner)
    <3>1. \A j \in 1..l : f.inner[j] \in Fusable[n] /\ f.inner[j] \in PlainTo[n] /\ Kept(n, f.inner[j], jv.c[j].v)
      BY <1>2, <2>1, <2>3, KeptParts, KeptInner, <1>0
    <3>2. DOMAIN js = 1..l /\ \A j \in 1..l : js[j] = J(f.inner[j], jv.c[j].v)
      BY <2>1, SMTT(40)
    <3>3. DOMAIN ds = 1..l /\ \A j \in 1..l : ds[j] = D(f.inner[j], JsonToPy(jv.c[j].v))
      BY <2>2
    <3> HIDE DEF js, ds, J, D
    <3>4. Cores(l, js) /\ Cores(l, ds)
      BY <1>6, <2>1, <3>1, <3>2, <3>3 DEF Cores
    <3>5. \A j \in 1..l : Mirrors(jv \in Values, js[j], ds[j])
      BY <1>6, <2>1, <3>1, <3>2, <3>3, SMTT(40) DEF Mirrors
    <3> QED
      BY <1>3, <1>4, <1>5, <1>8, <2>1, <2>2, <2>3, <3>4, <3>5, MirrorsBuilt
  <2>4. CASE l # Len(f.inner)
    BY <1>3, <1>4, <2>2, <2>4, MirrorsSame
  <2> QED
    BY <2>3, <2>4
<1> QED
  BY <1>7, <1>8

(***************************************************************************)
(* A number off the tree is the float that the lookup of its type makes, a *)
(* bool the one that the truthy and falsy of a Boolean make.               *)
(***************************************************************************)
LEMMA NumberMirrors ==
  ASSUME NEW elements, NEW n, NEW f, NEW jv \in JsonValues, NEW p
  PROVE  /\ f.kind = "Float" /\ jv.t \in {"int", "float"} =>
              Apply(elements, n, f, jv, p) = CheckNan(f, Ok(Val("float", jv.a)))
         /\ f.kind = "Boolean" /\ PlainBoolean(f) /\ jv.t = "bool" => Apply(elements, n, f, jv, p) = Ok(jv)
<1>1. jv = [t |-> jv.t, a |-> jv.a, c |-> jv.c] /\ Formed(jv)
  BY JsonParts
<1>2. jv.t \in {"bool", "int", "float"} => jv = Val(jv.t, jv.a)
  BY <1>1 DEF Formed, Val
<1>3. ASSUME f.kind = "Float", jv.t \in {"int", "float"}
      PROVE  Apply(elements, n, f, jv, p) = CheckNan(f, Ok(Val("float", jv.a)))
  <2>1. Call("float", jv) = Ok(Val("float", jv.a))
    BY <1>2, <1>3 DEF Call
  <2>2. ToFallback(Ok(Val("float", jv.a))) = Ok(Val("float", jv.a))
    BY OkOut, ToFallbackIs
  <2>3. ApplyNumber("float", jv) = Ok(Val("float", jv.a))
    BY <1>2, <1>3, <2>1, <2>2 DEF ApplyNumber
  <2> QED
    BY <1>3, <2>3, ApplyIs, SMTT(40)
<1>4. ASSUME f.kind = "Boolean", PlainBoolean(f), jv.t = "bool"
      PROVE  Apply(elements, n, f, jv, p) = Ok(jv)
  <2>1. jv.a \in {"0", "1"}
    BY <1>1, <1>4 DEF Formed
  <2>2. Truthy(f) = ChoiceSet(TRUE, {Val("int", "1"), Val("str", "1")})
        /\ Falsy(f) = ChoiceSet(TRUE, {Val("int", "0")})
    BY <1>4 DEF PlainBoolean, Truthy, Falsy
  <2>3. Hashable(jv)
    BY <1>4 DEF Hashable, Mapping
  <2>4. \A ms : In(jv, ChoiceSet(TRUE, ms)) = IF \E w \in ms : PyEq(w, jv) THEN "yes" ELSE "no"
    BY <1>4, <2>3 DEF In, ChoiceSet
  <2>5. PyEq(Val("int", "1"), jv) <=> jv.a = "1"
    BY <1>4, <2>1 DEF PyEq, Val
  <2>6. PyEq(Val("int", "0"), jv) <=> jv.a = "0"
    BY <1>4, <2>1 DEF PyEq, Val
  <2>7. ~PyEq(Val("str", "1"), jv)
    <3>1. Val("str", "1").t = "str"
      BY DEF Val
    <3> QED
      BY <1>4, <3>1, PyEqString
  <2>8. In(jv, Truthy(f)) = IF jv.a = "1" THEN "yes" ELSE "no"
    <3> DEFINE ms == {Val("int", "1"), Val("str", "1")}
    <3>1. (\E w \in ms : PyEq(w, jv)) <=> jv.a = "1"
      BY <2>5, <2>7
    <3>2. Truthy(f) = ChoiceSet(TRUE, ms)
      BY <2>2
    <3> HIDE DEF ms
    <3>3. In(jv, ChoiceSet(TRUE, ms)) = IF \E w \in ms : PyEq(w, jv) THEN "yes" ELSE "no"
      BY <2>4
    <3> QED
      BY <3>1, <3>2, <3>3
  <2>9. In(jv, Falsy(f)) = IF jv.a = "0" THEN "yes" ELSE "no"
    <3> DEFINE ms == {Val("int", "0")}
    <3>1. (\E w \in ms : PyEq(w, jv)) <=> jv.a = "0"
      BY <2>6
    <3>2. Falsy(f) = ChoiceSet(TRUE, ms)
      BY <2>2
    <3> HIDE DEF ms
    <3>3. In(jv, ChoiceSet(TRUE, ms)) = IF \E w \in ms : PyEq(w, jv) THEN "yes" ELSE "no"
      BY <2>4
    <3> QED
      BY <3>1, <3>2, <3>3
  <2>10. Apply(elements, n, f, jv, p) = Ok(Val("bool", jv.a))
    BY <1>4, <2>1, <2>8, <2>9, ApplyIs DEF ApplyBoolean
  <2> QED
    BY <1>2, <1>4, <2>10
<1> QED
  BY <1>3, <1>4

(***************************************************************************)
(* LoadElement::apply_json (src/load/element.rs:442): whatever a plain     *)
(* field nests, off the JSON tree its element makes the value it makes of  *)
(* json.loads's, and does the same altogether where no key is repeated.    *)
(***************************************************************************)
THEOREM ElementsMirror ==
  ASSUME NEW n \in Nat
  PROVE  JsonMirrors(n)
<1> DEFINE T == {m \in Nat : JsonMirrors(m)}
<1>1. 0 \in T
  BY FusableUnfold DEF JsonMirrors
<1>2. ASSUME NEW m \in Nat, m \in T  PROVE m + 1 \in T
  <2>1. JsonMirrors(m)
    BY <1>2
  <2>2. ASSUME NEW f \in Fusable[m + 1], f \in PlainTo[m + 1], NEW jv \in JsonValues, NEW p \in Partials,
               jv # NoneVal, Kept(m + 1, f, jv)
        PROVE  Mirrors(jv \in Values, JsonElements[m + 1][f][jv][p], Elements[m + 1][f][JsonToPy(jv)][p])
    <3> DEFINE left == ApplyJson(JsonElements[m], m, f, jv, p)
               right == Apply(Elements[m], m, f, JsonToPy(jv), p)
    <3>1. f \in DOMAIN Elements[m + 1] /\ JsonToPy(jv) \in Values
      BY FusableParts, JsonToPyIs
    <3>2. JsonElements[m + 1][f][jv][p] = left /\ Elements[m + 1][f][JsonToPy(jv)][p] = right
      BY <3>1, ElementsAre, JsonElementsAre
    <3>3. f \in FieldsTo[m + 1] /\ HasElement(Elements[m], f)
      BY <3>1, ElementsAre
    <3>4. f.kind \in Kinds /\ f.kind # "Foreign"
      BY <3>3, FieldParts, HasElementIs
    <3>5. Mirrors(jv \in Values, left, right)
      <4>1. CASE f.kind = "List"
        BY <2>1, <2>2, <4>1, ListMirrors
      <4>2. CASE f.kind = "Tuple"
        BY <2>1, <2>2, <4>2, TupleMirrors
      <4>3. CASE f.kind = "Dict" /\ f.inner # <<NoField, NoField>>
        BY <2>1, <2>2, <4>3, DictMirrors
      <4>4. CASE f.kind = "Nested"
        BY <2>1, <2>2, <4>4, NestedMirrors
      <4>5. CASE \/ f.kind = "Float" /\ jv.t \in {"int", "float"}
                 \/ f.kind = "Boolean" /\ jv.t = "bool"
        <5>1. JsonToPy(jv) = jv
          BY <4>5, JsonToPyIs
        <5>2. PlainBoolean(f)
          BY <2>2, PlainParts
        <5>3. left = right
          BY <4>5, <5>1, <5>2, ApplyJsonIs, NumberMirrors
        <5> QED
          BY <5>3, MirrorsSame
      <4>6. CASE \/ f.kind \in {"None", "Raw", "String", "Integer", "UUID", "Temporal", "Constant", "Enum", "Pluck"}
                 \/ f.kind \in HeldKinds
                 \/ f.kind = "Float" /\ jv.t \notin {"int", "float"}
                 \/ f.kind = "Boolean" /\ jv.t # "bool"
                 \/ f.kind = "Dict" /\ f.inner = <<NoField, NoField>>
        <5>1. left = Elements[m + 1][f][JsonToPy(jv)][p]
          BY <4>6, ApplyJsonIs
        <5> QED
          BY <3>2, <5>1, MirrorsSame
      <4> QED
        BY <3>4, <4>1, <4>2, <4>3, <4>4, <4>5, <4>6 DEF Kinds
    <3> QED
      BY <3>2, <3>5
  <2> QED
    BY <2>2 DEF JsonMirrors
<1> HIDE DEF T
<1>3. Nat \subseteq T
  BY <1>1, <1>2, LevelInduction
<1> QED
  BY <1>3 DEF T

(* A field read off the tree, against the same field read off the dict. *)
LEMMA ReadMirrors ==
  ASSUME PlainFields, NEW f \in Fields, IsFusable(f), NEW jv \in JsonValues, NEW p \in Partials,
         Kept(Levels, f, jv)
  PROVE  Mirrors(jv \in Values, RunSpecJson(JsonElements[Levels], f, jv, p), Loaded(f, JsonToPy(jv), p))
<1>1. Levels \in Nat /\ f \in Fusable[Levels] /\ f \in PlainTo[Levels] /\ ~Processed(f)
  BY DepthAssumption DEF PlainFields, IsFusable, Callback
<1>2. JsonMirrors(Levels)
  BY <1>1, ElementsMirror
<1> QED
  BY <1>1, <1>2, SpecMirrors DEF Loaded

(***************************************************************************)
(* A value the core converts is the value the field itself would have      *)
(* made of it (src/load/element.rs:143, :442, src/load/validators.rs:47).  *)
(***************************************************************************)
THEOREM ConvertsAlike ==
  ASSUME PlainFields, HarmlessRepeats
  PROVE  Spec => []ConvertsLikeStock
<1>1. IInv => ConvertsLikeStock
  <2> SUFFICES ASSUME IInv, result.o = "ok"  PROVE result = StockResult
    BY DEF ConvertsLikeStock
  <2>1. field \in Fields /\ partial \in Partials /\ result # Pending
    BY DEF IInv, GivenOK, Pending
  <2>2. CASE source = "dict"
    <3>1. value \in Values
      BY <2>2 DEF IInv, GivenOK
    <3>2. Agrees(result, StockResult)
      BY <2>1, <2>2, <3>1, LoadedAgrees DEF IInv, ResultOK, StockResult, PyInput
    <3> QED
      BY <3>2 DEF Agrees
  <2>3. CASE source = "json"
    <3>1. value \in JsonInputs /\ value \in JsonValues /\ JsonToPy(value) \in Values
      BY <2>3, InputsAssumption, JsonToPyIs DEF IInv, GivenOK
    <3>2. IsFusable(field) /\ result = RunSpecJson(JsonElements[Levels], field, value, partial)
      BY <2>1, <2>3 DEF IInv, ResultOK
    <3>3. Kept(Levels, field, value)
      BY <2>1, <3>1 DEF HarmlessRepeats, Kept
    <3>4. Mirrors(value \in Values, result, Loaded(field, JsonToPy(value), partial))
      BY <2>1, <3>1, <3>2, <3>3, ReadMirrors
    <3>5. Agrees(Loaded(field, JsonToPy(value), partial), StockResult)
      BY <2>1, <2>3, <3>1, LoadedAgrees DEF StockResult, PyInput
    <3> QED
      BY <3>4, <3>5 DEF Mirrors, Agrees
  <2> QED
    BY <2>2, <2>3 DEF IInv, GivenOK
<1> QED
  BY <1>1, Invariance, PTL

(***************************************************************************)
(* "scalar parity holds by construction" (src/load/element.rs:440), and so *)
(* does that of everything around the scalars, where no key is repeated.   *)
(***************************************************************************)
THEOREM JsonAlike ==
  ASSUME PlainFields
  PROVE  Spec => []JsonLikeDict
<1>1. IInv => JsonLikeDict
  <2> SUFFICES ASSUME IInv, source = "json", result # Pending, value \in Values
               PROVE  LikeDict(result, Loaded(field, JsonToPy(value), partial))
    BY DEF JsonLikeDict, Done
  <2>1. field \in Fields /\ partial \in Partials /\ value \in JsonValues
    BY InputsAssumption DEF IInv, GivenOK
  <2>2. IsFusable(field) /\ result = RunSpecJson(JsonElements[Levels], field, value, partial)
    BY DEF IInv, ResultOK
  <2>3. Kept(Levels, field, value)
    BY <2>1, ValuesUniform DEF Kept
  <2> QED
    BY <2>1, <2>2, <2>3, ReadMirrors DEF Mirrors
<1> QED
  BY <1>1, Invariance, PTL

-----------------------------------------------------------------------------
(***************************************************************************)
(* What comes out of an element that reads no evil object: a value that is *)
(* none and holds none, or an AccelFallback; never an exception, unless an *)
(* unhashable key is set.                                                  *)
(***************************************************************************)
Calm(v) ==
  /\ v.t # "evil"
  /\ ListLike(v) => \E l \in Nat : DOMAIN v.c = 1..l /\ \A j \in 1..l : v.c[j].v.t # "evil"

Quiet(r) == CoreOut(r) /\ r.o \notin Errors /\ (r.o = "ok" => Calm(r.v))

Quiets(l, outs) == DOMAIN outs = 1..l /\ \A j \in 1..l : Quiet(outs[j])

LEMMA CalmJson ==
  ASSUME NEW jv \in JsonValues
  PROVE  Calm(jv)
<1>1. jv.t # "evil" /\ Len(jv.c) \in Nat /\ DOMAIN jv.c = 1..Len(jv.c)
      /\ \A j \in DOMAIN jv.c : jv.c[j].v \in JsonValues
  BY JsonParts DEF JsonTypes
<1>2. \A w \in JsonValues : w.t # "evil"
  BY JsonParts DEF JsonTypes
<1> QED
  BY <1>1, <1>2 DEF Calm

LEMMA CalmVal ==
  ASSUME NEW type, NEW atom, type \notin {"evil", "list", "tuple"}
  PROVE  Calm(Val(type, atom))
BY DEF Calm, Val, ListLike

LEMMA CalmList ==
  ASSUME NEW l \in Nat, NEW vals, DOMAIN vals = 1..l, \A j \in 1..l : vals[j].t # "evil", NEW type, type # "evil"
  PROVE  Calm(ListOf(type, vals))
BY ListOfIs DEF Calm

LEMMA CalmDict ==
  ASSUME NEW c
  PROVE  Calm(DictOf(c)) /\ Calm(Wrapped(c))
BY DictOfIs, WrappedIs DEF Calm, ListLike

LEMMA QuietKinds ==
  /\ Quiet(Defer)
  /\ \A v : Calm(v) => Quiet(Ok(v))
  /\ \A r : Quiet(r) => CoreOut(r) /\ r.o \in {"ok", "defer"} /\ (r.o # "ok" => r = Defer)
                        /\ (r.o = "ok" => r.v.t # "evil" /\ Calm(r.v))
BY ExceptionsOut, OkOut, CoreKinds DEF Quiet, Errors, Calm

LEMMA QuietCores ==
  ASSUME NEW l, NEW outs, Quiets(l, outs)
  PROVE  Cores(l, outs)
BY DEF Quiets, Quiet, Cores

(* A list of what is quiet, or the first that defers. *)
LEMMA QuietBuilt ==
  ASSUME NEW l \in Nat, NEW outs, Quiets(l, outs), NEW type \in {"list", "tuple"}
  PROVE  /\ Quiet(BuiltOf(type, outs))
         /\ BuiltOf(type, outs).o = "ok" => ListLike(BuiltOf(type, outs).v)
<1>1. Cores(l, outs)
  BY QuietCores
<1>2. CASE (\A j \in 1..l : outs[j].o = "ok") /\ BuiltOf(type, outs) = Ok(ListOf(type, Vals(outs)))
  <2> DEFINE x == ListOf(type, Vals(outs))
  <2>1. DOMAIN Vals(outs) = 1..l /\ \A j \in 1..l : Vals(outs)[j] = outs[j].v
    BY DEF Vals, Quiets
  <2>2. \A j \in 1..l : Vals(outs)[j].t # "evil"
    BY <1>2, <2>1, QuietKinds DEF Quiets
  <2>3. x.t = type
    BY <2>1, ListOfIs
  <2>4. Calm(x)
    BY <2>1, <2>2, CalmList
  <2> HIDE DEF x
  <2> QED
    BY <1>2, <2>3, <2>4, QuietKinds, OkIs DEF x, ListLike
<1>3. CASE \E k \in 1..l : BuiltOf(type, outs) = outs[k] /\ outs[k].o \in Stops
  <2>1. PICK k \in 1..l : BuiltOf(type, outs) = outs[k] /\ outs[k].o \in Stops
    BY <1>3
  <2> QED
    BY <2>1 DEF Quiets, Stops
<1> QED
  BY <1>1, <1>2, <1>3, BuiltOfIs

(* A dict of what is quiet, with keys that are hashable. *)
LEMMA QuietSet ==
  ASSUME NEW l \in Nat, NEW keys, NEW vals, Quiets(l, keys), Quiets(l, vals),
         \A j \in 1..l : keys[j].o = "ok" => Hashable(keys[j].v)
  PROVE  Quiet(SetItems(keys, vals))
<1>1. Cores(l, keys) /\ Cores(l, vals)
  BY QuietCores
<1>2. CASE SetItems(keys, vals) = Assigned(Vals(keys), Vals(vals)) /\ SetItems(keys, vals).o = "ok"
  <2> DEFINE c == [i \in DOMAIN Firsts(Vals(keys)) |->
                     Entry(Vals(keys)[Firsts(Vals(keys))[i]], Vals(vals)[Lasts(Vals(keys))[i]])]
  <2>1. Assigned(Vals(keys), Vals(vals)) \in {Raise, Ok(DictOf(c))}
    BY AssignedIs
  <2> HIDE DEF c
  <2> QED
    BY <1>2, <2>1, CalmDict, QuietKinds, ExceptionsOut
<1>3. CASE \E k \in 1..l : SetItems(keys, vals) = Members_(keys, vals)[k]
  <2>1. PICK k \in 1..l : SetItems(keys, vals) = Members_(keys, vals)[k]
    BY <1>3
  <2>2. SetItems(keys, vals) = SetMember(keys[k], vals[k])
    BY <1>1, <2>1, SetItemsIs
  <2>3. SetMember(keys[k], vals[k]) \in {keys[k], vals[k]}
    <3>1. keys[k].o \in Stops \/ Hashable(keys[k].v)
      BY QuietKinds DEF Quiets, Stops
    <3> QED
      BY <3>1 DEF SetMember
  <2> QED
    BY <2>2, <2>3 DEF Quiets
<1> QED
  BY <1>1, <1>2, <1>3, SetItemsIs

(* No validator is interrupted by a value that is calm. *)
LEMMA CheckQuiet ==
  ASSUME NEW val \in Validators, NEW v, Calm(v)
  PROVE  Check(ParseValidator(BuildValidator(val)), v) # "interrupt"
<1> DEFINE pv == ParseValidator(BuildValidator(val))
           c == Check(pv, v)
<1> SUFFICES c # "interrupt"
  OBVIOUS
<1>1. v.t # "evil"
  BY DEF Calm
<1>2. CASE val.kind = "Range"
  <2>1. pv.kind = "Range"
    BY <1>2, ValidatorParts
  <2> HIDE DEF pv
  <2> QED
    BY <1>1, <2>1 DEF Check, Verdict
<1>3. CASE val.kind = "Length"
  <2>1. pv.kind = "Length"
    BY <1>3, ValidatorParts
  <2> HIDE DEF pv
  <2> QED
    BY <1>1, <2>1 DEF Check, Verdict
<1>4. CASE val.kind = "Callable"
  <2>1. pv.kind = "Python"
    BY <1>4, ValidatorParts
  <2> HIDE DEF pv
  <2> QED
    BY <1>1, <2>1 DEF Check, Verdict
<1>5. CASE val.kind \in {"OneOf", "Equal", "NoneOf", "ContainsOnly"}
  <2>1. pv = [kind |-> val.kind, choices |-> val.choices]
    BY <1>5, ValidatorParts
  <2> HIDE DEF pv
  <2>2. pv.kind = val.kind /\ pv.choices = val.choices
    BY <2>1
  <2> DEFINE in == In(v, val.choices)
  <2>3. in \in {"yes", "no", "typeerror"}
    BY <1>1, MembershipIs
  <2>4. CASE val.kind \in {"OneOf", "Equal"}
    <3>1. c = Membership(in, "pass", "fail", "raise")
      BY <2>2, <2>4 DEF Check
    <3> HIDE DEF in, c
    <3> QED
      BY <2>3, <3>1 DEF Membership
  <2>5. CASE val.kind = "NoneOf"
    <3>1. c = Membership(in, "fail", "pass", "pass")
      BY <2>2, <2>5 DEF Check
    <3> HIDE DEF in, c
    <3> QED
      BY <2>3, <3>1 DEF Membership
  <2>6. CASE val.kind = "ContainsOnly"
    <3>1. c = IF ListLike(v) THEN OnlyIn(v, val.choices) ELSE "raise"
      BY <1>1, <2>2, <2>6 DEF Check
    <3> DEFINE ins == Items_In(v, val.choices)
    <3>2. CASE ListLike(v)
      <4>1. PICK l \in Nat : DOMAIN v.c = 1..l /\ \A j \in 1..l : v.c[j].v.t # "evil"
        BY <3>2 DEF Calm
      <4>2. DOMAIN ins = 1..l /\ \A j \in 1..l : ins[j].o = In(v.c[j].v, val.choices)
        BY <4>1 DEF Items_In
      <4>3. \A j \in 1..l : ins[j].o \in {"yes", "no", "typeerror"}
        BY <4>1, <4>2, MembershipIs
      <4>4. OnlyIn(v, val.choices) =
              IF Some(ins, NotIn) THEN Membership(FirstIn(ins, NotIn).o, "pass", "fail", "raise") ELSE "pass"
        BY DEF OnlyIn
      <4> HIDE DEF ins, c
      <4>5. Some(ins, NotIn) => FirstIn(ins, NotIn).o \in {"yes", "no", "typeerror"}
        BY <4>2, <4>3, FirstFound
      <4> QED
        BY <3>1, <3>2, <4>4, <4>5 DEF Membership
    <3> QED
      BY <3>1, <3>2
  <2> QED
    BY <1>5, <2>4, <2>5, <2>6
<1> QED
  BY <1>2, <1>3, <1>4, <1>5, ValidatorsAssumption DEF ChoiceKinds

LEMMA QuietChecked ==
  ASSUME NEW m \in Nat, NEW f \in FieldsTo[m + 1], NEW r, Quiet(r)
  PROVE  Quiet(CheckValidators(f, r))
<1>1. CASE r.o # "ok"
  BY <1>1, QuietKinds, CheckValidatorsIs
<1>2. CASE r.o = "ok"
  <2> DEFINE cs == Checks(f, r.v)
             stops == {"fail", "raise", "interrupt"}
  <2>1. CoreOut(r) /\ Calm(r.v) /\ r = Ok(r.v)
    BY <1>2, QuietKinds, CoreKinds
  <2>2. CheckValidators(f, r) = Decide(cs, r.v)
    BY <1>2, <2>1, CheckValidatorsIs
  <2>3. Len(f.vals) \in Nat /\ DOMAIN cs = 1..Len(f.vals)
        /\ \A j \in 1..Len(f.vals) : cs[j].o # "interrupt"
    BY <2>1, FieldParts, CheckQuiet DEF Checks
  <2>4. Decide(cs, r.v) = IF ~Some(cs, stops) THEN Ok(r.v)
                          ELSE IF FirstIn(cs, stops).o = "interrupt" THEN Interrupted ELSE Defer
    BY DEF Decide
  <2> HIDE DEF cs, stops
  <2>5. Some(cs, stops) => FirstIn(cs, stops).o # "interrupt"
    BY <2>3, FirstFound
  <2> QED
    BY <2>1, <2>2, <2>4, <2>5, QuietKinds
<1> QED
  BY <1>1, <1>2

(* The post_load of an inner schema makes an object of its own. *)
LEMMA QuietHook ==
  ASSUME NEW f, f.kind = "Nested", NEW r, Quiet(r), "many" \in f.opts /\ r.o = "ok" => ListLike(r.v)
  PROVE  Quiet(PostLoaded(f, r))
<1>1. CoreOut(r) /\ (r.o = "ok" => Calm(r.v))
  BY QuietKinds
<1>2. \A d, original, p : PostLoad(f, d, original, p).t = "posted"
  BY DEF PostLoad, Container
<1>3. CASE "post_load" \in f.opts /\ r.o = "ok"
  <2> DEFINE x == PostLoadFn(f, r.v)
             posts == [j \in DOMAIN r.v.c |-> PostLoad(f, r.v.c[j].v, r.v.c[j].v, "none")]
  <2>1. PostLoaded(f, r) = Ok(x)
    BY <1>1, <1>3, PostLoadedIs
  <2>2. x = IF "many" \in f.opts THEN ListOf("list", posts) ELSE PostLoad(f, r.v, r.v, "none")
    BY DEF PostLoadFn
  <2>3. "many" \in f.opts => Calm(ListOf("list", posts))
    <3> SUFFICES ASSUME "many" \in f.opts  PROVE Calm(ListOf("list", posts))
      OBVIOUS
    <3>1. PICK l \in Nat : DOMAIN r.v.c = 1..l
      BY <1>1, <1>3 DEF Calm
    <3>2. DOMAIN posts = 1..l /\ \A j \in 1..l : posts[j].t = "posted"
      BY <1>2, <3>1
    <3> HIDE DEF posts
    <3> QED
      BY <3>2, CalmList
  <2>4. Calm(PostLoad(f, r.v, r.v, "none"))
    BY <1>2 DEF Calm, ListLike
  <2> HIDE DEF x
  <2> QED
    BY <2>1, <2>2, <2>3, <2>4, QuietKinds
<1>4. CASE ~("post_load" \in f.opts /\ r.o = "ok")
  BY <1>1, <1>4, PostLoadedIs
<1> QED
  BY <1>3, <1>4

-----------------------------------------------------------------------------
(***************************************************************************)
(* The fields that no evil value can come from, and their elements.        *)
(***************************************************************************)
Tame(n) == {f \in Fusable[n] : f \in PlainTo[n] /\ f \in HashableKeysTo[n]}

LEMMA HashableKeysParts ==
  ASSUME NEW m \in Nat, NEW f \in HashableKeysTo[m + 1]
  PROVE  /\ f.kind = "Dict" => f.inner[1].kind # "Pluck"
         /\ \A j \in DOMAIN f.inner : f.inner[j] \in HashableKeysTo[m]
<1>1. f \in HashableKeysStep(HashableKeysTo[m], m + 1)
  BY HashableKeysUnfold
<1> QED
  BY <1>1 DEF HashableKeysStep

(* A field with none in it is fusable, if it has an element. *)
LEMMA LoneFusable ==
  ASSUME NEW n \in Nat, NEW g \in DOMAIN Elements[n], g.inner = <<>>
  PROVE  g \in Fusable[n]
<1>1. n # 0
  BY ElementsUnfold
<1> DEFINE m == n - 1
<1>2. m \in Nat /\ n = m + 1
  BY <1>1
<1> HIDE DEF m
<1>3. Fusable[n] = FusableLevel(Fusable[m], n)
  BY <1>2, FusableUnfold
<1>4. DOMAIN g.inner = {}
  OBVIOUS
<1> QED
  BY <1>3, <1>4 DEF FusableLevel

LEMMA TameParts ==
  ASSUME NEW n \in Nat, NEW f \in Tame(n + 1)
  PROVE  /\ f \in DOMAIN Elements[n + 1] /\ f \in FieldsTo[n + 1] /\ f.kind \in Kinds /\ f.kind # "Foreign"
         /\ PlainEnum(f) /\ PlainBoolean(f)
         /\ Len(f.inner) \in Nat /\ DOMAIN f.inner = 1..Len(f.inner)
         /\ f.kind # "Enum" => \A j \in DOMAIN f.inner : f.inner[j] \in Tame(n) /\ ~Processed(f.inner[j])
         /\ f.kind \in {"List", "Enum", "Nested", "Pluck"} => f.inner[1] \in Tame(n)
         /\ f.kind \in {"Nested", "Pluck"} => ~Processed(f.inner[1])
         /\ f.kind = "Dict" => f.inner[1] \in Tame(n) /\ f.inner[2] \in Tame(n) /\ f.inner[1].kind # "Pluck"
<1>1. f \in Fusable[n + 1] /\ f \in PlainTo[n + 1] /\ f \in HashableKeysTo[n + 1]
  BY DEF Tame
<1>2. f \in DOMAIN Elements[n + 1]
  BY <1>1, FusableParts
<1>3. f \in FieldsTo[n + 1] /\ HasElement(Elements[n], f)
  BY <1>2, ElementsAre
<1>4. f.kind \in Kinds /\ f.kind # "Foreign" /\ PlainEnum(f) /\ PlainBoolean(f)
      /\ Len(f.inner) \in Nat /\ DOMAIN f.inner = 1..Len(f.inner)
  BY <1>1, <1>3, FieldParts, HasElementIs, PlainParts
<1>5. \A j \in DOMAIN f.inner : f.inner[j] \in PlainTo[n] /\ f.inner[j] \in HashableKeysTo[n]
  BY <1>1, PlainParts, HashableKeysParts
<1>6. f.kind # "Enum" => \A j \in DOMAIN f.inner : f.inner[j] \in Tame(n) /\ ~Processed(f.inner[j])
  BY <1>1, <1>5, FusableParts DEF Tame
<1>7. /\ f.kind \in {"List", "Enum", "Nested", "Pluck"} => 1 \in DOMAIN f.inner
      /\ f.kind = "Dict" => 1 \in DOMAIN f.inner /\ 2 \in DOMAIN f.inner
  BY <1>3, FieldInner, 1 \in 1..1, 1 \in 1..2, 2 \in 1..2
<1>8. f.kind = "Enum" => f.inner[1] \in Tame(n)
  <2> SUFFICES ASSUME f.kind = "Enum"  PROVE f.inner[1] \in Tame(n)
    OBVIOUS
  <2>1. f.inner[1] \in DOMAIN Elements[n] /\ f.inner[1].inner = <<>>
    BY <1>3, <1>4, HasElementIs DEF PlainEnum
  <2> QED
    BY <1>5, <1>7, <2>1, LoneFusable DEF Tame
<1>9. f.kind = "Dict" => f.inner[1].kind # "Pluck"
  BY <1>1, HashableKeysParts
<1> QED
  BY <1>2, <1>3, <1>4, <1>6, <1>7, <1>8, <1>9

(* What is called by name returns no evil object. *)
LEMMA QuietCall ==
  ASSUME NEW fn \in {"int", "float", "decode", "bytes16", "uuid", "date", "held", "by_name", "by_value"},
         NEW v, Calm(v)
  PROVE  Quiet(ToFallback(Call(fn, v)))
<1> DEFINE row == CHOOSE row \in Results[fn] : row[1] = v
           r == Call(fn, v)
<1>1. v.t # "evil"
  BY DEF Calm
<1>2. r = IF fn \in {"int", "float"} /\ v.t = fn THEN Ok(v)
          ELSE IF fn = "float" /\ v.t = "int" THEN Ok(Val("float", v.a))
          ELSE IF \E x \in Results[fn] : x[1] = v THEN Ok(row[2]) ELSE Invalid
  BY <1>1 DEF Call
<1>3. (\E x \in Results[fn] : x[1] = v) => Calm(row[2])
  <2> SUFFICES ASSUME \E x \in Results[fn] : x[1] = v  PROVE Calm(row[2])
    OBVIOUS
  <2>1. row \in Results[fn]
    OBVIOUS
  <2> HIDE DEF row
  <2>2. row[2].c = <<>> /\ row[2].t # "evil"
    BY <2>1, ResultsAssumption
  <2>3. DOMAIN row[2].c = 1..0
    BY <2>2
  <2> QED
    BY <2>2, <2>3 DEF Calm
<1>4. Calm(Val("float", v.a))
  BY CalmVal
<1>5. StockOut(r)
  BY CallOut
<1> HIDE DEF r, row
<1>6. ToFallback(r) \in {Defer, Ok(v), Ok(Val("float", v.a))}
      \/ (ToFallback(r) = Ok(row[2]) /\ \E x \in Results[fn] : x[1] = v)
  BY <1>2, <1>5, ToFallbackIs, ExceptionsOut
<1>7. Quiet(ToFallback(r))
  BY <1>3, <1>4, <1>6, QuietKinds
<1> QED
  BY <1>7 DEF r

LEMMA QuietNumber ==
  ASSUME NEW fn \in {"int", "float"}, NEW v, Calm(v)
  PROVE  Quiet(ApplyNumber(fn, v))
BY QuietCall, QuietKinds DEF ApplyNumber

LEMMA QuietNan ==
  ASSUME NEW f, NEW r, Quiet(r)
  PROVE  Quiet(CheckNan(f, r))
BY QuietKinds DEF CheckNan, Then

LEMMA QuietScalar ==
  ASSUME NEW elements, NEW n, NEW f, NEW v, Calm(v), NEW p,
         f.kind \in {"None", "Raw", "String", "Integer", "Float", "Boolean", "UUID", "Temporal", "Constant"} \cup HeldKinds
  PROVE  Quiet(Apply(elements, n, f, v, p))
<1> DEFINE r == Apply(elements, n, f, v, p)
<1> SUFFICES Quiet(r)
  OBVIOUS
<1>1. Quiet(Ok(v)) /\ Quiet(Defer)
  BY QuietKinds
<1>2. CASE f.kind \in {"None", "Raw"}
  BY <1>1, <1>2, ApplyIs
<1>3. CASE f.kind = "String"
  <2>1. r = IF v.t = "str" THEN Ok(v) ELSE IF v.t = "bytes" THEN ToFallback(Call("decode", v)) ELSE Defer
    BY <1>3, ApplyIs DEF ApplyStr
  <2> QED
    BY <1>1, <2>1, QuietCall
<1>4. CASE f.kind = "Integer"
  <2>1. r = IF "strict" \in f.opts THEN IF v.t = "int" THEN Ok(v) ELSE Defer ELSE ApplyNumber("int", v)
    BY <1>4, ApplyIs
  <2> QED
    BY <1>1, <2>1, QuietNumber
<1>5. CASE f.kind = "Float"
  <2>1. r = CheckNan(f, ApplyNumber("float", v))
    BY <1>5, ApplyIs
  <2> QED
    BY <2>1, QuietNumber, QuietNan
<1>6. CASE f.kind = "Boolean"
  <2>1. In(v, Truthy(f)) # "interrupt"
    BY MembershipIs DEF Calm
  <2>2. r = ApplyBoolean(f, v)
    BY <1>6, ApplyIs
  <2>3. ApplyBoolean(f, v) \in {Ok(Val("bool", "1")), Ok(Val("bool", "0")), Defer}
    BY <2>1 DEF ApplyBoolean
  <2>4. Quiet(Ok(Val("bool", "1"))) /\ Quiet(Ok(Val("bool", "0")))
    BY CalmVal, QuietKinds
  <2> HIDE DEF r
  <2> QED
    BY <1>1, <2>2, <2>3, <2>4
<1>7. CASE f.kind = "UUID"
  <2>1. r = IF v.t = "uuid" THEN Ok(v) ELSE ToFallback(UUIDCall(v))
    BY <1>7, ApplyIs
  <2>2. UUIDCall(v) \in {Call("bytes16", v), Call("uuid", v)}
    BY DEF UUIDCall
  <2>3. Quiet(ToFallback(Call("bytes16", v))) /\ Quiet(ToFallback(Call("uuid", v)))
    BY QuietCall
  <2> HIDE DEF r
  <2> QED
    BY <1>1, <2>1, <2>2, <2>3
<1>8. CASE f.kind = "Temporal"
  <2>1. r = IF v.t = "date" THEN Ok(v) ELSE ToFallback(Call("date", v))
    BY <1>8, ApplyIs
  <2> QED
    BY <1>1, <2>1, QuietCall
<1>9. CASE f.kind \in HeldKinds
  BY <1>9, ApplyIs, QuietCall
<1>10. CASE f.kind = "Constant"
  BY <1>10, ApplyIs, CalmVal, QuietKinds
<1> QED
  BY <1>2, <1>3, <1>4, <1>5, <1>6, <1>7, <1>8, <1>9, <1>10

-----------------------------------------------------------------------------
(* What a dict holds that json.loads made. *)
Tree(v) == v \in Values /\ v \in JsonValues

QuietAt(n) == \A f \in Tame(n) : \A v \in Values : v \in JsonValues =>
                \A p \in Partials : Quiet(Elements[n][f][v][p])

LEMMA KeyTree ==
  ASSUME NEW k \in Keys, k.t = "str"
  PROVE  Tree(k) /\ k \in JsonValues
<1>1. k = [t |-> "str", a |-> k.a, c |-> <<>>] /\ k.a \in STRING
  BY DEF Keys
<1>2. ValueDepth - 1 \in Nat /\ (ValueDepth - 1) + 1 = ValueDepth
  BY DepthAssumption
<1> DEFINE m == ValueDepth - 1
<1>3. m \in Nat /\ m + 1 = ValueDepth
  BY <1>2
<1> HIDE DEF m
<1>4. <<>> \in Seq(Members(JsonTo[m])) /\ "str" \in JsonTypes
  BY DEF JsonTypes
<1>5. Formed([t |-> "str", a |-> k.a, c |-> <<>>])
  BY DEF Formed, ListLike
<1>6. [t |-> "str", a |-> k.a, c |-> <<>>] \in JsonTo[m + 1]
  BY <1>1, <1>3, <1>4, <1>5, JsonMade
<1> QED
  BY <1>1, <1>3, <1>6, KeyIsValue, DepthAssumption DEF Tree, JsonValues, Values

LEMMA TreeParts ==
  ASSUME NEW v, Tree(v)
  PROVE  /\ Calm(v) /\ v \in Values /\ v \in JsonValues /\ v.t \in JsonTypes
         /\ Len(v.c) \in Nat /\ DOMAIN v.c = 1..Len(v.c)
         /\ \A j \in DOMAIN v.c : Tree(v.c[j].v)
         /\ v.t = "dict" => \A j \in DOMAIN v.c : /\ Tree(v.c[j].k) /\ v.c[j].k.t = "str"
<1>1. v \in Values /\ v \in JsonValues
  BY DEF Tree
<1>2. /\ Len(v.c) \in Nat /\ DOMAIN v.c = 1..Len(v.c) /\ \A j \in DOMAIN v.c : v.c[j].v \in Values /\ v.c[j].k \in Values
  BY <1>1, Parts
<1>3. /\ \A j \in DOMAIN v.c : v.c[j].v \in JsonValues /\ v.c[j].k \in Keys
      /\ v.t = "dict" => \A j \in DOMAIN v.c : v.c[j].k.t = "str"
      /\ v.t \in JsonTypes
  BY <1>1, JsonParts
<1> QED
  BY <1>1, <1>2, <1>3, KeyTree, CalmJson DEF Tree

LEMMA QuietField ==
  ASSUME NEW n \in Nat, NEW f \in FieldsTo[n], NEW r, Quiet(r)
  PROVE  Quiet(CheckValidators(f, r))
<1>1. n # 0
  BY FieldsUnfold
<1> DEFINE m == n - 1
<1>2. m \in Nat /\ n = m + 1
  BY <1>1
<1> HIDE DEF m
<1> QED
  BY <1>2, QuietChecked

LEMMA TameField ==
  ASSUME NEW n \in Nat, NEW g \in Tame(n)
  PROVE  g \in DOMAIN Elements[n] /\ g \in DOMAIN JsonElements[n] /\ g \in FieldsTo[n]
BY Typed, FusableBuilt, ElementsOut, JsonElementsAre DEF Tame

(* A part of a List, a Tuple or a Dict. *)
LEMMA QuietPart ==
  ASSUME NEW n \in Nat, NEW g \in Tame(n), NEW w, Calm(w), NEW r, Quiet(r)
  PROVE  Quiet(ListItem(g, w, r)) /\ Quiet(TupleItem(w, r)) /\ Quiet(DictPart(g, w, r))
<1>1. Quiet(CheckValidators(g, r))
  BY TameField, QuietField
<1>2. Quiet(Ok(w)) /\ Quiet(Defer)
  BY QuietKinds
<1> QED
  BY <1>1, <1>2 DEF ListItem, TupleItem, DictPart

LEMMA QuietSpec ==
  ASSUME NEW n \in Nat, QuietAt(n), NEW g \in Tame(n), ~Processed(g), NEW v, Tree(v), NEW p \in Partials
  PROVE  Quiet(RunSpec(Elements[n], n, g, v, p))
<1>1. ~Callback(Elements[n], g) /\ g \in FieldsTo[n]
  BY TameField DEF Callback
<1>2. Quiet(Elements[n][g][v][p])
  BY DEF QuietAt, Tree
<1>3. Quiet(CheckValidators(g, Elements[n][g][v][p]))
  BY <1>1, <1>2, QuietField
<1>4. Quiet(Ok(v)) /\ Quiet(Defer)
  BY TreeParts, QuietKinds
<1> QED
  BY <1>1, <1>3, <1>4, RunSpecIs

LEMMA QuietOne ==
  ASSUME NEW n \in Nat, QuietAt(n), NEW f, f.inner[1] \in Tame(n), ~Processed(f.inner[1]),
         NEW v, Tree(v), NEW p \in Partials
  PROVE  Quiet(RunOne(Elements[n], n, f, v, p)) /\ Quiet(RunOne(Elements[n], n, f, Wrapped(v), p))
<1> DEFINE els == Elements[n]
           R(w) == RunSpec(els, n, f.inner[1], w, p)
           One(w) == RunOne(els, n, f, w, p)
<1>1. \A w : Tree(w) => Quiet(R(w))
  BY QuietSpec
<1>2. \A w : Quiet(Ok(Wrapped(w)))
  BY CalmDict, QuietKinds
<1>3. Quiet(Ok(v)) /\ Quiet(Defer)
  BY TreeParts, QuietKinds
<1>4. HasKey(v.c, InnerKey) => Tree(GetItem(v.c, InnerKey))
  BY TreeParts, GetItemMade
<1>5. Quiet(One(v))
  <2> DEFINE r == R(GetItem(v.c, InnerKey))
  <2>1. /\ v.t # "dict" => One(v) = Defer
        /\ v.t = "dict" /\ ~HasKey(v.c, InnerKey) => One(v) = IF p = "all" /\ v.c = <<>> THEN Ok(v) ELSE Defer
        /\ v.t = "dict" /\ HasKey(v.c, InnerKey) =>
             One(v) = IF r.o # "ok" THEN r
                      ELSE IF \E j \in DOMAIN v.c : v.c[j].k # InnerKey THEN Defer ELSE Ok(Wrapped(r.v))
    BY RunOneIs
  <2>2. HasKey(v.c, InnerKey) => Quiet(r)
    BY <1>1, <1>4
  <2> HIDE DEF r, One
  <2> QED
    BY <1>2, <1>3, <2>1, <2>2
<1>6. Quiet(One(Wrapped(v)))
  <2> DEFINE r == R(v)
  <2>1. One(Wrapped(v)) = IF r.o # "ok" THEN r ELSE Ok(Wrapped(r.v))
    BY WrappedIs, RunOneIs
  <2>2. Quiet(r)
    BY <1>1
  <2> HIDE DEF r, One
  <2> QED
    BY <1>2, <2>1, <2>2
<1> QED
  BY <1>5, <1>6

(* Nested and Pluck. *)
LEMMA QuietSchema ==
  ASSUME NEW n \in Nat, QuietAt(n), NEW f \in Tame(n + 1), f.kind \in {"Nested", "Pluck"},
         NEW v, Tree(v), NEW p \in Partials
  PROVE  Quiet(Apply(Elements[n], n, f, v, p))
<1> DEFINE els == Elements[n]
           items == Items(v)
           wraps == [j \in DOMAIN v.c |-> Wrapped(v.c[j].v)]
           l == Len(v.c)
           One(w) == RunOne(els, n, f, w, p)
           Many(ws) == RunMany(els, n, f, ws, p)
<1>1. f.inner[1] \in Tame(n) /\ ~Processed(f.inner[1])
  BY TameParts
<1>2. \A w : Tree(w) => Quiet(One(w)) /\ Quiet(One(Wrapped(w)))
  BY <1>1, QuietOne
<1>3. l \in Nat /\ DOMAIN v.c = 1..l /\ \A j \in 1..l : Tree(v.c[j].v)
  BY TreeParts
<1>4. ASSUME NEW ws, DOMAIN ws = 1..l, \A j \in 1..l : Quiet(One(ws[j]))
      PROVE  Quiet(Many(ws)) /\ (Many(ws).o = "ok" => ListLike(Many(ws).v))
  <2> DEFINE outs == [j \in DOMAIN ws |-> One(ws[j])]
  <2>1. Quiets(l, outs)
    BY <1>4 DEF Quiets
  <2>2. Many(ws) = BuiltOf("list", outs)
    BY DEF RunMany
  <2> HIDE DEF outs, Many
  <2> QED
    BY <1>3, <2>1, <2>2, QuietBuilt
<1>5. Quiet(Many(items)) /\ (Many(items).o = "ok" => ListLike(Many(items).v))
  <2>1. DOMAIN items = 1..l /\ \A j \in 1..l : items[j] = v.c[j].v
    BY <1>3 DEF Items
  <2> HIDE DEF items, Many, One
  <2> QED
    BY <1>2, <1>3, <1>4, <2>1
<1>6. Quiet(Many(wraps))
  <2>1. DOMAIN wraps = 1..l /\ \A j \in 1..l : wraps[j] = Wrapped(v.c[j].v)
    BY <1>3
  <2> HIDE DEF wraps, Many, One
  <2> QED
    BY <1>2, <1>3, <1>4, <2>1
<1>7. CASE f.kind = "Pluck"
  <2>1. Apply(els, n, f, v, p) = IF "many" \notin f.opts THEN One(Wrapped(v))
                                 ELSE IF ListLike(v) THEN Many(wraps) ELSE Defer
    <3>1. Apply(els, n, f, v, p) = RunPluck(els, n, f, v, p)
      BY <1>7, ApplyIs
    <3>2. RunPluck(els, n, f, v, p) = IF "many" \notin f.opts THEN One(Wrapped(v))
                                      ELSE IF ListLike(v) THEN Many(wraps) ELSE Defer
      BY DEF RunPluck
    <3> QED
      BY <3>1, <3>2
  <2> HIDE DEF wraps, Many, One
  <2> QED
    BY <1>2, <1>6, <2>1, QuietKinds
<1>8. CASE f.kind = "Nested"
  <2> DEFINE r == Run(els, n, f, v, p)
  <2>1. r = IF "many" \notin f.opts THEN One(v) ELSE IF ListLike(v) THEN Many(items) ELSE Defer
    BY DEF Run
  <2>2. Apply(els, n, f, v, p) = PostLoaded(f, r)
    BY <1>8, ApplyIs
  <2> HIDE DEF r, items, Many, One
  <2>3. Quiet(r) /\ ("many" \in f.opts /\ r.o = "ok" => ListLike(r.v))
    BY <1>2, <1>5, <2>1, QuietKinds, ExceptionsOut
  <2> QED
    BY <1>8, <2>2, <2>3, QuietHook
<1> QED
  BY <1>7, <1>8

(***************************************************************************)
(* Off the dict, and off the JSON tree, whatever a field nests: without an *)
(* evil value and without an unhashable key no exception leaves the core.  *)
(***************************************************************************)
LEMMA QuietAround ==
  ASSUME NEW n \in Nat, QuietAt(n), NEW f \in Tame(n + 1), f.kind \in {"Enum", "List", "Tuple", "Dict"},
         NEW v, Tree(v), NEW p \in Partials
  PROVE  Quiet(Apply(Elements[n], n, f, v, p))
<1> DEFINE els == Elements[n]
           l == Len(v.c)
           r == Apply(els, n, f, v, p)
<1> SUFFICES Quiet(r)
  OBVIOUS
<1>1. /\ l \in Nat /\ DOMAIN v.c = 1..l /\ Calm(v) /\ v \in Values
      /\ \A j \in 1..l : Tree(v.c[j].v) /\ Calm(v.c[j].v)
      /\ v.t = "dict" => \A j \in 1..l : Tree(v.c[j].k) /\ Calm(v.c[j].k) /\ v.c[j].k.t = "str"
  BY TreeParts
<1>2. Quiet(Ok(v)) /\ Quiet(Defer)
  BY <1>1, QuietKinds
<1>3. \A g \in Tame(n) : \A w : Tree(w) => Quiet(els[g][w][p])
  BY DEF QuietAt, Tree
<1>4. CASE f.kind = "Enum"
  <2> DEFINE s == els[f.inner[1]][v][p]
  <2>1. r = IF v.t = "enum" THEN Ok(v) ELSE IF s.o = "ok" THEN ToFallback(EnumCall(f, s.v)) ELSE s
    BY <1>4, ApplyIs DEF ApplyEnum, Then
  <2>2. Quiet(s)
    BY <1>3, <1>4, TameParts
  <2> HIDE DEF s
  <2>3. s.o = "ok" => Quiet(ToFallback(EnumCall(f, s.v)))
    BY <2>2, QuietKinds, QuietCall DEF EnumCall
  <2> HIDE DEF r
  <2> QED
    BY <1>2, <2>1, <2>2, <2>3, SMTT(40)
<1>5. CASE f.kind = "List"
  <2> DEFINE g == f.inner[1]
             outs == [j \in DOMAIN v.c |-> ListItem(f.inner[1], v.c[j].v, els[f.inner[1]][v.c[j].v][p])]
  <2>1. r = ApplyList(els, f, v, p)
    BY <1>5, ApplyIs
  <2>2. ApplyList(els, f, v, p) = IF ~ListLike(v) THEN Defer ELSE BuiltOf("list", outs)
    BY ZenonT(60) DEF ApplyList
  <2>3. g \in Tame(n)
    BY <1>5, TameParts, SMTT(40)
  <2>4. DOMAIN outs = 1..l /\ \A j \in 1..l : outs[j] = ListItem(g, v.c[j].v, els[g][v.c[j].v][p])
    BY <1>1
  <2> HIDE DEF outs, r, g
  <2>5. Quiets(l, outs)
    BY <1>1, <1>3, <2>3, <2>4, QuietPart DEF Quiets
  <2> QED
    BY <1>1, <1>2, <2>1, <2>2, <2>5, QuietBuilt
<1>6. CASE f.kind = "Tuple"
  <2> DEFINE outs == [j \in DOMAIN v.c |-> TupleItem(v.c[j].v, els[f.inner[j]][v.c[j].v][p])]
  <2>1. r = ApplyTuple(els, f, v, p)
    BY <1>6, ApplyIs
  <2>2. ApplyTuple(els, f, v, p) = IF ~ListLike(v) \/ Len(v.c) # Len(f.inner) THEN Defer ELSE BuiltOf("tuple", outs)
    BY ZenonT(60) DEF ApplyTuple
  <2>3. DOMAIN f.inner = 1..Len(f.inner) /\ \A j \in DOMAIN f.inner : f.inner[j] \in Tame(n)
    BY <1>6, TameParts, SMTT(40)
  <2>4. DOMAIN outs = 1..l /\ \A j \in 1..l : outs[j] = TupleItem(v.c[j].v, els[f.inner[j]][v.c[j].v][p])
    BY <1>1, SMTT(40)
  <2> HIDE DEF outs, r
  <2>5. l = Len(f.inner) => Quiets(l, outs)
    BY <1>1, <1>3, <2>3, <2>4, QuietPart, SMTT(40) DEF Quiets
  <2> QED
    BY <1>1, <1>2, <2>1, <2>2, <2>5, QuietBuilt
<1>7. CASE f.kind = "Dict"
  <2> DEFINE g == f.inner[1]
             h == f.inner[2]
             keys == [j \in DOMAIN v.c |-> DictPart(f.inner[1], v.c[j].k, els[f.inner[1]][v.c[j].k][p])]
             vals == [j \in DOMAIN v.c |-> DictPart(f.inner[2], v.c[j].v, els[f.inner[2]][v.c[j].v][p])]
  <2>1. r = IF f.inner = <<NoField, NoField>> THEN IF v.t = "dict" THEN Ok(v) ELSE Defer
            ELSE ApplyDictTyped(els, f, v, p)
    BY <1>7, ApplyIs
  <2>2. ApplyDictTyped(els, f, v, p) = IF v.t # "dict" THEN Defer ELSE SetItems(keys, vals)
    BY ZenonT(60) DEF ApplyDictTyped
  <2>3. g \in Tame(n) /\ h \in Tame(n) /\ g.kind # "Pluck" /\ g \in DOMAIN els
    BY <1>7, TameParts, TameField, SMTT(40)
  <2>4. /\ DOMAIN keys = 1..l /\ \A j \in 1..l : keys[j] = DictPart(g, v.c[j].k, els[g][v.c[j].k][p])
        /\ DOMAIN vals = 1..l /\ \A j \in 1..l : vals[j] = DictPart(h, v.c[j].v, els[h][v.c[j].v][p])
    <3> HIDE DEF els, r
    <3>1. DOMAIN keys = DOMAIN v.c /\ \A j \in DOMAIN v.c : keys[j] = DictPart(g, v.c[j].k, els[g][v.c[j].k][p])
      BY SMTT(40)
    <3>2. DOMAIN vals = DOMAIN v.c /\ \A j \in DOMAIN v.c : vals[j] = DictPart(h, v.c[j].v, els[h][v.c[j].v][p])
      BY SMTT(40)
    <3> HIDE DEF keys, vals, g, h
    <3> QED
      BY <1>1, <3>1, <3>2, SMTT(40)
  <2> HIDE DEF keys, vals, r, g, h
  <2>5. v.t = "dict" => Quiets(l, keys) /\ Quiets(l, vals)
    BY <1>1, <1>3, <2>3, <2>4, QuietPart, SMTT(40) DEF Quiets
  <2>6. v.t = "dict" => \A j \in 1..l : keys[j].o = "ok" => Hashable(keys[j].v)
    <3> SUFFICES ASSUME v.t = "dict", NEW j \in 1..l  PROVE keys[j].o = "ok" => Hashable(keys[j].v)
      OBVIOUS
    <3>1. v.c[j].k \in Values /\ v.c[j].k.t = "str"
      BY <1>1, SMTT(40) DEF Tree
    <3>2. GoodKey(v.c[j].k, keys[j])
      BY <2>3, <2>4, <3>1, KeyPart
    <3> QED
      BY <3>2 DEF GoodKey
  <2> QED
    BY <1>1, <1>2, <2>1, <2>2, <2>5, <2>6, QuietSet
<1> QED
  BY <1>4, <1>5, <1>6, <1>7

LEMMA QuietElements ==
  ASSUME NEW n \in Nat
  PROVE  QuietAt(n)
<1> DEFINE T == {m \in Nat : QuietAt(m)}
<1>1. 0 \in T
  BY FusableUnfold DEF QuietAt, Tame
<1>2. ASSUME NEW m \in Nat, m \in T  PROVE m + 1 \in T
  <2>1. QuietAt(m)
    BY <1>2
  <2>2. ASSUME NEW f \in Tame(m + 1), NEW v \in Values, v \in JsonValues, NEW p \in Partials
        PROVE  Quiet(Elements[m + 1][f][v][p])
    <3>1. f \in DOMAIN Elements[m + 1] /\ f.kind \in Kinds /\ f.kind # "Foreign"
      BY TameParts
    <3>2. Elements[m + 1][f][v][p] = Apply(Elements[m], m, f, v, p)
      BY <3>1, ElementsAre
    <3>3. Tree(v) /\ Calm(v)
      BY <2>2, CalmJson DEF Tree
    <3>4. Quiet(Apply(Elements[m], m, f, v, p))
      <4>1. CASE f.kind \in {"Nested", "Pluck"}
        BY <2>1, <3>3, <4>1, QuietSchema
      <4>2. CASE f.kind \in {"Enum", "List", "Tuple", "Dict"}
        BY <2>1, <3>3, <4>2, QuietAround
      <4>3. CASE f.kind \in {"None", "Raw", "String", "Integer", "Float", "Boolean", "UUID", "Temporal", "Constant"}
                            \cup HeldKinds
        BY <3>3, <4>3, QuietScalar
      <4> QED
        BY <3>1, <4>1, <4>2, <4>3 DEF Kinds
    <3> QED
      BY <3>2, <3>4
  <2> QED
    BY <2>2 DEF QuietAt
<1> HIDE DEF T
<1>3. Nat \subseteq T
  BY <1>1, <1>2, LevelInduction
<1> QED
  BY <1>3 DEF T

(* Off the JSON tree. *)
QuietJson(n) == \A f \in Tame(n) : \A jv \in JsonValues : \A p \in Partials : Quiet(JsonElements[n][f][jv][p])

LEMMA QuietJsonSpec ==
  ASSUME NEW n \in Nat, QuietJson(n), NEW g \in Tame(n), NEW jv \in JsonValues, NEW p \in Partials
  PROVE  Quiet(RunSpecJson(JsonElements[n], g, jv, p))
<1>1. Quiet(JsonElements[n][g][jv][p]) /\ g \in FieldsTo[n]
  BY TameField DEF QuietJson
<1>2. Quiet(CheckValidators(g, JsonElements[n][g][jv][p]))
  BY <1>1, QuietField
<1>3. Quiet(Ok(jv)) /\ Quiet(Defer)
  BY CalmJson, QuietKinds
<1> QED
  BY <1>2, <1>3 DEF RunSpecJson

LEMMA QuietOneJson ==
  ASSUME NEW n \in Nat, QuietJson(n), NEW f, f.inner[1] \in Tame(n),
         NEW jv \in JsonValues, NEW p \in Partials
  PROVE  Quiet(RunOneJson(JsonElements[n], f, jv, p))
<1> DEFINE json == JsonElements[n]
           r == RunSpecJson(json, f.inner[1], GetItem(jv.c, InnerKey), p)
           one == RunOneJson(json, f, jv, p)
<1>1. Quiet(Ok(jv)) /\ Quiet(Defer) /\ \A w : Quiet(Ok(Wrapped(w)))
  BY CalmJson, CalmDict, QuietKinds
<1>2. CASE jv.t = "dict" /\ ~Callback(json, f.inner[1]) /\ jv.c # <<>> /\ \A j \in DOMAIN jv.c : jv.c[j].k = InnerKey
  <2>1. GetItem(jv.c, InnerKey) \in JsonValues
    BY <1>2, JsonRecordIs, JsonParts
  <2>2. Quiet(r)
    BY <2>1, QuietJsonSpec
  <2> HIDE DEF json
  <2>3. one = IF r.o = "ok" THEN Ok(Wrapped(r.v)) ELSE r
    BY <1>2, RunOneJsonIs, ZenonT(60)
  <2> HIDE DEF r, one
  <2>4. Quiet(one)
    BY <1>1, <2>2, <2>3
  <2> QED
    BY <2>4 DEF one, json
<1>3. CASE ~(jv.t = "dict" /\ ~Callback(json, f.inner[1]) /\ jv.c # <<>> /\ \A j \in DOMAIN jv.c : jv.c[j].k = InnerKey)
  <2>1. one \in {Defer, Ok(jv)}
    BY <1>3, RunOneJsonIs
  <2> HIDE DEF one
  <2>2. Quiet(one)
    BY <1>1, <2>1
  <2> QED
    BY <2>2 DEF one
<1> QED
  BY <1>2, <1>3

LEMMA QuietTrees ==
  ASSUME NEW n \in Nat, QuietJson(n), NEW f \in Tame(n + 1), f.kind \in {"Nested", "List", "Tuple"},
         NEW jv \in JsonValues, NEW p \in Partials
  PROVE  Quiet(ApplyJson(JsonElements[n], n, f, jv, p))
<1> DEFINE json == JsonElements[n]
           l == Len(jv.c)
           r == ApplyJson(json, n, f, jv, p)
<1> SUFFICES Quiet(r)
  OBVIOUS
<1>1. l \in Nat /\ DOMAIN jv.c = 1..l /\ \A j \in 1..l : jv.c[j].v \in JsonValues /\ Calm(jv.c[j].v)
  BY JsonParts, CalmJson
<1>2. Quiet(Defer)
  BY QuietKinds
<1>3. \A g \in Tame(n) : \A w \in JsonValues : Quiet(json[g][w][p])
  BY DEF QuietJson
<1>4. CASE f.kind = "List"
  <2> DEFINE g == f.inner[1]
             outs == [j \in DOMAIN jv.c |-> ListItem(f.inner[1], jv.c[j].v, json[f.inner[1]][jv.c[j].v][p])]
  <2>1. r = ApplyListJson(json, f, jv, p)
    BY <1>4, ApplyJsonIs
  <2>2. ApplyListJson(json, f, jv, p) = IF jv.t # "list" THEN Defer ELSE BuiltOf("list", outs)
    BY ZenonT(60) DEF ApplyListJson
  <2>3. g \in Tame(n)
    BY <1>4, TameParts, SMTT(40)
  <2>4. DOMAIN outs = 1..l /\ \A j \in 1..l : outs[j] = ListItem(g, jv.c[j].v, json[g][jv.c[j].v][p])
    BY <1>1
  <2> HIDE DEF outs, r, g
  <2>5. Quiets(l, outs)
    BY <1>1, <1>3, <2>3, <2>4, QuietPart, SMTT(40) DEF Quiets
  <2> QED
    BY <1>1, <1>2, <2>1, <2>2, <2>5, QuietBuilt
<1>5. CASE f.kind = "Tuple"
  <2> DEFINE outs == [j \in DOMAIN jv.c |-> TupleItem(jv.c[j].v, json[f.inner[j]][jv.c[j].v][p])]
  <2>1. r = ApplyTupleJson(json, f, jv, p)
    BY <1>5, ApplyJsonIs
  <2>2. ApplyTupleJson(json, f, jv, p) = IF jv.t # "list" \/ Len(jv.c) # Len(f.inner) THEN Defer ELSE BuiltOf("tuple", outs)
    BY ZenonT(60) DEF ApplyTupleJson
  <2>3. DOMAIN f.inner = 1..Len(f.inner) /\ \A j \in DOMAIN f.inner : f.inner[j] \in Tame(n)
    BY <1>5, TameParts, SMTT(40)
  <2>4. DOMAIN outs = 1..l /\ \A j \in 1..l : outs[j] = TupleItem(jv.c[j].v, json[f.inner[j]][jv.c[j].v][p])
    BY <1>1, SMTT(40)
  <2> HIDE DEF outs, r
  <2>5. l = Len(f.inner) => Quiets(l, outs)
    BY <1>1, <1>3, <2>3, <2>4, QuietPart, SMTT(40) DEF Quiets
  <2> QED
    BY <1>1, <1>2, <2>1, <2>2, <2>5, QuietBuilt
<1>6. CASE f.kind = "Nested"
  <2> DEFINE x == RunJson(json, f, jv, p)
             one == RunOneJson(json, f, jv, p)
             outs == [j \in DOMAIN jv.c |-> RunOneJson(json, f, jv.c[j].v, p)]
  <2>1. r = PostLoaded(f, x)
    BY <1>6, ApplyJsonIs
  <2>2. x = IF "many" \notin f.opts THEN one ELSE IF jv.t = "list" THEN BuiltOf("list", outs) ELSE Defer
    BY DEF RunJson
  <2>3. \A w \in JsonValues : Quiet(RunOneJson(json, f, w, p))
    BY <1>6, TameParts, QuietOneJson
  <2>4. Quiet(one) /\ Quiets(l, outs)
    BY <1>1, <2>3 DEF Quiets
  <2> HIDE DEF r, x, one, outs
  <2>5. Quiet(x) /\ ("many" \in f.opts /\ x.o = "ok" => ListLike(x.v))
    BY <1>1, <1>2, <2>2, <2>4, QuietBuilt, ExceptionsOut
  <2> QED
    BY <1>6, <2>1, <2>5, QuietHook
<1> QED
  BY <1>4, <1>5, <1>6

LEMMA QuietDicts ==
  ASSUME NEW n \in Nat, QuietJson(n), NEW f \in Tame(n + 1), f.kind = "Dict", f.inner # <<NoField, NoField>>,
         NEW jv \in JsonValues, NEW p \in Partials
  PROVE  Quiet(ApplyJson(JsonElements[n], n, f, jv, p))
<1> DEFINE json == JsonElements[n]
           els == Elements[n]
           g == f.inner[1]
           h == f.inner[2]
           l == Len(jv.c)
           r == ApplyJson(json, n, f, jv, p)
           keys == [j \in DOMAIN jv.c |-> DictPart(f.inner[1], jv.c[j].k, els[f.inner[1]][jv.c[j].k][p])]
           vals == [j \in DOMAIN jv.c |-> JsonPart(json, f.inner[2], jv.c[j].v, p)]
<1> SUFFICES Quiet(r)
  OBVIOUS
<1>1. l \in Nat /\ DOMAIN jv.c = 1..l
      /\ \A j \in 1..l : jv.c[j].v \in JsonValues /\ Calm(jv.c[j].v) /\ Calm(JsonToPy(jv.c[j].v))
  BY JsonParts, CalmJson, JsonToPyIs
<1>2. r = ApplyDictTypedJson(json, n, f, jv, p)
  BY ApplyJsonIs
<1>3. ApplyDictTypedJson(json, n, f, jv, p) = IF jv.t # "dict" THEN Defer ELSE SetItems(keys, vals)
  BY ZenonT(60) DEF ApplyDictTypedJson
<1>4. g \in Tame(n) /\ h \in Tame(n) /\ g.kind # "Pluck" /\ g \in DOMAIN els
  BY TameParts, TameField
<1>5. jv.t = "dict" => \A j \in 1..l : Tree(jv.c[j].k) /\ jv.c[j].k.t = "str" /\ jv.c[j].k \in Values
  <2> SUFFICES ASSUME jv.t = "dict", NEW j \in 1..l
               PROVE  Tree(jv.c[j].k) /\ jv.c[j].k.t = "str" /\ jv.c[j].k \in Values
    OBVIOUS
  <2>1. jv.c[j].k \in Keys /\ jv.c[j].k.t = "str"
    BY <1>1, JsonParts, SMTT(40)
  <2> QED
    BY <2>1, KeyTree DEF Tree
<1>6. /\ DOMAIN keys = 1..l /\ \A j \in 1..l : keys[j] = DictPart(g, jv.c[j].k, els[g][jv.c[j].k][p])
      /\ DOMAIN vals = 1..l /\ \A j \in 1..l : vals[j] = JsonPart(json, h, jv.c[j].v, p)
  BY <1>1
<1> HIDE DEF keys, vals, r, g, h
<1>7. \A w : Tree(w) => Quiet(els[g][w][p]) /\ Calm(w)
  BY <1>4, QuietElements, TreeParts DEF QuietAt, Tree
<1>8. \A w \in JsonValues : Quiet(JsonPart(json, h, w, p))
  <2> SUFFICES ASSUME NEW w \in JsonValues  PROVE Quiet(JsonPart(json, h, w, p))
    OBVIOUS
  <2>1. Quiet(json[h][w][p]) /\ Calm(w) /\ Calm(JsonToPy(w))
    BY <1>4, CalmJson, JsonToPyIs DEF QuietJson
  <2>2. Quiet(DictPart(h, w, json[h][w][p])) /\ Quiet(Ok(JsonToPy(w)))
    BY <1>4, <2>1, QuietPart, QuietKinds, SMTT(40)
  <2> QED
    BY <2>2 DEF JsonPart
<1>9. jv.t = "dict" => Quiets(l, keys)
  BY <1>4, <1>5, <1>6, <1>7, QuietPart, SMTT(40) DEF Quiets
<1>10. Quiets(l, vals)
  BY <1>1, <1>6, <1>8 DEF Quiets
<1>11. jv.t = "dict" => \A j \in 1..l : keys[j].o = "ok" => Hashable(keys[j].v)
  <2> SUFFICES ASSUME jv.t = "dict", NEW j \in 1..l  PROVE keys[j].o = "ok" => Hashable(keys[j].v)
    BY SMTT(40)
  <2>1. GoodKey(jv.c[j].k, keys[j])
    BY <1>4, <1>5, <1>6, KeyPart
  <2> QED
    BY <2>1 DEF GoodKey
<1> QED
  BY <1>1, <1>2, <1>3, <1>9, <1>10, <1>11, QuietSet, QuietKinds

LEMMA QuietJsonElements ==
  ASSUME NEW n \in Nat
  PROVE  QuietJson(n)
<1> DEFINE T == {m \in Nat : QuietJson(m)}
<1>1. 0 \in T
  BY FusableUnfold DEF QuietJson, Tame
<1>2. ASSUME NEW m \in Nat, m \in T  PROVE m + 1 \in T
  <2>1. QuietJson(m)
    BY <1>2
  <2>2. ASSUME NEW f \in Tame(m + 1), NEW jv \in JsonValues, NEW p \in Partials
        PROVE  Quiet(JsonElements[m + 1][f][jv][p])
    <3> DEFINE r == ApplyJson(JsonElements[m], m, f, jv, p)
    <3>1. f \in DOMAIN Elements[m + 1] /\ f.kind \in Kinds /\ f.kind # "Foreign"
      BY TameParts
    <3>2. JsonElements[m + 1][f][jv][p] = r
      BY <3>1, JsonElementsAre
    <3>3. JsonToPy(jv) \in Values /\ JsonToPy(jv) \in JsonValues
      BY JsonToPyIs
    <3>4. Quiet(r)
      <4>1. CASE f.kind \in {"Nested", "List", "Tuple"}
        BY <2>1, <4>1, QuietTrees
      <4>2. CASE f.kind = "Dict" /\ f.inner # <<NoField, NoField>>
        BY <2>1, <4>2, QuietDicts
      <4>3. CASE f.kind = "Float" /\ jv.t \in {"int", "float"}
        <5>1. Quiet(Ok(Val("float", jv.a)))
          BY CalmVal, QuietKinds
        <5>2. r = CheckNan(f, Ok(Val("float", jv.a)))
          BY <4>3, ApplyJsonIs
        <5> HIDE DEF r
        <5> QED
          BY <5>1, <5>2, QuietNan
      <4>4. CASE f.kind = "Boolean" /\ jv.t = "bool"
        BY <4>4, CalmJson, QuietKinds, ApplyJsonIs, SMTT(40)
      <4>5. CASE \/ f.kind \in {"None", "Raw", "String", "Integer", "UUID", "Temporal", "Constant", "Enum", "Pluck"}
                 \/ f.kind \in HeldKinds
                 \/ f.kind = "Float" /\ jv.t \notin {"int", "float"}
                 \/ f.kind = "Boolean" /\ jv.t # "bool"
                 \/ f.kind = "Dict" /\ f.inner = <<NoField, NoField>>
        <5>1. r = Elements[m + 1][f][JsonToPy(jv)][p]
          BY <4>5, ApplyJsonIs
        <5>2. QuietAt(m + 1)
          BY QuietElements, m + 1 \in Nat
        <5> HIDE DEF r
        <5> QED
          BY <3>3, <5>1, <5>2 DEF QuietAt
      <4> QED
        BY <3>1, <4>1, <4>2, <4>3, <4>4, <4>5 DEF Kinds
    <3> QED
      BY <3>2, <3>4
  <2> QED
    BY <2>2 DEF QuietJson
<1> HIDE DEF T
<1>3. Nat \subseteq T
  BY <1>1, <1>2, LevelInduction
<1> QED
  BY <1>3 DEF T

(***************************************************************************)
(* What leaves the core other than as an AccelFallback is an exception     *)
(* where the field itself raises one: to_fallback                          *)
(* (src/context.rs:52) takes every other for one of marshmallow's.         *)
(* Off the tree: what a repeated key hides is tried, but raises nothing.   *)
(***************************************************************************)
THEOREM RaisesAlike ==
  ASSUME PlainFields, QuietRepeats
  PROVE  Spec => []RaisesLikeStock
<1>1. IInv => RaisesLikeStock
  <2> SUFFICES ASSUME IInv, result.o \in Errors  PROVE StockResult.o \in Errors
    BY DEF RaisesLikeStock
  <2>1. field \in Fields /\ partial \in Partials /\ result # Pending /\ Levels \in Nat
    BY DepthAssumption DEF IInv, GivenOK, Pending, Errors
  <2>2. CASE source = "dict"
    <3>1. value \in Values
      BY <2>2 DEF IInv, GivenOK
    <3>2. Agrees(result, StockResult)
      BY <2>1, <2>2, <3>1, LoadedAgrees DEF IInv, ResultOK, StockResult, PyInput
    <3> QED
      BY <3>2 DEF Agrees
  <2>3. CASE source = "json"
    <3>1. value \in JsonInputs /\ value \in JsonValues /\ JsonToPy(value) \in Values
      BY <2>3, InputsAssumption, JsonToPyIs DEF IInv, GivenOK
    <3>2. IsFusable(field) /\ result = RunSpecJson(JsonElements[Levels], field, value, partial)
      BY <2>1, <2>3 DEF IInv, ResultOK
    <3>3. CASE value \in Values
      <4>1. Kept(Levels, field, value)
        BY <3>1, <3>3, ValuesUniform, SMTT(40) DEF Kept
      <4>2. Mirrors(TRUE, result, Loaded(field, JsonToPy(value), partial))
        BY <2>1, <3>1, <3>2, <3>3, <4>1, ReadMirrors DEF Mirrors
      <4>3. Agrees(Loaded(field, JsonToPy(value), partial), StockResult)
        BY <2>1, <2>3, <3>1, LoadedAgrees DEF StockResult, PyInput
      <4> QED
        BY <4>2, <4>3, ExceptionsOut DEF Mirrors, LikeDict, Agrees, Errors
    <3>4. CASE value \notin Values
      <4>1. field \in HashableKeysTo[Levels]
        BY <2>1, <3>1, <3>4 DEF QuietRepeats
      <4>2. field \in Tame(Levels)
        BY <2>1, <3>2, <4>1 DEF Tame, PlainFields, IsFusable
      <4>3. Quiet(result)
        BY <2>1, <3>1, <3>2, <4>2, QuietJsonElements, QuietJsonSpec
      <4> QED
        BY <4>3 DEF Quiet
    <3> QED
      BY <3>3, <3>4
  <2> QED
    BY <2>2, <2>3 DEF IInv, GivenOK
<1> QED
  BY <1>1, Invariance, PTL

-----------------------------------------------------------------------------
(***************************************************************************)
(* Where no inner schema is going to read it, partial makes no difference. *)
(***************************************************************************)
Reads(n) == \A f \in DOMAIN Elements[n] : f \in PlainTo[n] /\ f \notin ConsumesPartial[n] =>
              \A v \in Values : Elements[n][f][v]["none"] = Elements[n][f][v]["all"]

LEMMA ConsumesIs ==
  ASSUME NEW n \in Nat, NEW f \in DOMAIN Elements[n + 1], f \notin ConsumesPartial[n + 1]
  PROVE  /\ f.kind \notin {"Nested", "Pluck"}
         /\ f.kind # "Enum" => \A j \in DOMAIN f.inner : f.inner[j] \notin ConsumesPartial[n]
<1>1. f \notin ConsumesLevel(ConsumesPartial[n], n + 1)
  BY ConsumesUnfold
<1> QED
  BY <1>1 DEF ConsumesLevel, LooksInto

(* A field with none in it has no inner schema. *)
LEMMA LoneUnread ==
  ASSUME NEW n \in Nat, NEW g \in DOMAIN Elements[n], g.inner = <<>>
  PROVE  g \notin ConsumesPartial[n]
<1>1. n # 0
  BY ElementsUnfold
<1> DEFINE m == n - 1
<1>2. m \in Nat /\ n = m + 1
  BY <1>1
<1> HIDE DEF m
<1>3. g \in FieldsTo[m + 1]
  BY <1>2, ElementsAre
<1>4. g.kind \notin {"Nested", "Pluck"} /\ DOMAIN g.inner = {}
  <2>1. DOMAIN g.inner = {}
    OBVIOUS
  <2>2. g.kind \in {"Nested", "Pluck"} => DOMAIN g.inner = 1..1
    BY <1>2, <1>3, FieldInner
  <2> QED
    BY <2>1, <2>2, 1 \in 1..1
<1>5. ConsumesPartial[n] = ConsumesLevel(ConsumesPartial[m], n)
  BY <1>2, ConsumesUnfold
<1> QED
  BY <1>4, <1>5 DEF ConsumesLevel

LEMMA PartsUnread ==
  ASSUME NEW n \in Nat, Reads(n), NEW f \in DOMAIN Elements[n + 1], f \in PlainTo[n + 1],
         f \notin ConsumesPartial[n + 1]
  PROVE  /\ f.kind \in Kinds /\ f.kind \notin {"Foreign", "Nested", "Pluck"} /\ f \in FieldsTo[n + 1]
         /\ Len(f.inner) \in Nat /\ DOMAIN f.inner = 1..Len(f.inner)
         /\ f.kind \in {"List", "Tuple", "Enum", "Dict"} => \A j \in DOMAIN f.inner : \A v \in Values :
              Elements[n][f.inner[j]][v]["none"] = Elements[n][f.inner[j]][v]["all"]
         /\ f.kind \in {"List", "Enum"} => 1 \in DOMAIN f.inner
         /\ f.kind = "Dict" => 1 \in DOMAIN f.inner /\ 2 \in DOMAIN f.inner
<1>1. f \in FieldsTo[n + 1] /\ HasElement(Elements[n], f)
  BY ElementsAre
<1>2. f.kind \in Kinds /\ f.kind # "Foreign" /\ f.kind \notin {"Nested", "Pluck"} /\ PlainEnum(f)
      /\ Len(f.inner) \in Nat /\ DOMAIN f.inner = 1..Len(f.inner)
  BY <1>1, FieldParts, HasElementIs, PlainParts, ConsumesIs
<1>3. /\ f.kind \in {"List", "Enum"} => DOMAIN f.inner = 1..1
      /\ f.kind = "Dict" => DOMAIN f.inner = 1..2
  BY <1>1, FieldInner
<1>4. \A j \in DOMAIN f.inner : f.inner[j] \in PlainTo[n]
  BY PlainParts
<1>5. f.kind \in {"List", "Tuple", "Enum", "Dict"} => \A j \in DOMAIN f.inner :
        f.inner[j] \in DOMAIN Elements[n] /\ f.inner[j] \notin ConsumesPartial[n]
  <2>1. f.kind \in {"List", "Tuple", "Dict"} => \A j \in DOMAIN f.inner :
          f.inner[j] \in DOMAIN Elements[n] /\ f.inner[j] \notin ConsumesPartial[n]
    BY <1>1, HasElementIs, ConsumesIs
  <2>2. f.kind = "Enum" => f.inner[1] \in DOMAIN Elements[n] /\ f.inner[1] \notin ConsumesPartial[n]
    BY <1>1, <1>2, HasElementIs, LoneUnread DEF PlainEnum
  <2> QED
    BY <1>3, <2>1, <2>2
<1> QED
  BY <1>1, <1>2, <1>3, <1>4, <1>5, 1 \in 1..1, 1 \in 1..2, 2 \in 1..2 DEF Reads

LEMMA ApplyUnread ==
  ASSUME NEW n \in Nat, Reads(n), NEW f \in DOMAIN Elements[n + 1], f \in PlainTo[n + 1],
         f \notin ConsumesPartial[n + 1], NEW v \in Values
  PROVE  Apply(Elements[n], n, f, v, "none") = Apply(Elements[n], n, f, v, "all")
<1> DEFINE els == Elements[n]
           R(p) == Apply(els, n, f, v, p)
<1> SUFFICES R("none") = R("all")
  OBVIOUS
<1>1. /\ DOMAIN v.c = 1..Len(v.c) /\ \A j \in DOMAIN v.c : v.c[j].v \in Values /\ v.c[j].k \in Values
  BY Parts, SMTT(40)
<1>2. f.kind \in {"List", "Tuple", "Enum", "Dict"} => \A j \in DOMAIN f.inner : \A w \in Values :
        els[f.inner[j]][w]["none"] = els[f.inner[j]][w]["all"]
  BY PartsUnread
<1>3. CASE f.kind \in {"None", "Raw", "String", "Integer", "Float", "Boolean", "UUID", "Temporal", "Constant"}
                      \cup HeldKinds
  BY <1>3, ApplyIs
<1>4. CASE f.kind = "Enum"
  <2>1. els[f.inner[1]][v]["none"] = els[f.inner[1]][v]["all"]
    BY <1>2, <1>4, PartsUnread, SMTT(40)
  <2>2. \A p : R(p) = ApplyEnum(f, v, els[f.inner[1]][v][p])
    BY <1>4, ApplyIs
  <2> HIDE DEF R, els
  <2> QED
    BY <2>1, <2>2, SMTT(40)
<1>5. CASE f.kind = "List"
  <2> DEFINE outs(p) == [j \in DOMAIN v.c |-> ListItem(f.inner[1], v.c[j].v, els[f.inner[1]][v.c[j].v][p])]
  <2>1. \A p : R(p) = ApplyList(els, f, v, p)
    BY <1>5, ApplyIs
  <2>2. \A p : ApplyList(els, f, v, p) = IF ~ListLike(v) THEN Defer ELSE BuiltOf("list", outs(p))
    BY ZenonT(60) DEF ApplyList
  <2>3. outs("none") = outs("all")
    <3>1. \A j \in DOMAIN v.c : els[f.inner[1]][v.c[j].v]["none"] = els[f.inner[1]][v.c[j].v]["all"]
      BY <1>1, <1>2, <1>5, PartsUnread
    <3> HIDE DEF els
    <3> QED
      BY <3>1, SMTT(40)
  <2> HIDE DEF outs, R, els
  <2> QED
    BY <2>1, <2>2, <2>3
<1>6. CASE f.kind = "Tuple"
  <2> DEFINE outs(p) == [j \in DOMAIN v.c |-> TupleItem(v.c[j].v, els[f.inner[j]][v.c[j].v][p])]
  <2>1. \A p : R(p) = ApplyTuple(els, f, v, p)
    BY <1>6, ApplyIs
  <2>2. \A p : ApplyTuple(els, f, v, p) =
          IF ~ListLike(v) \/ Len(v.c) # Len(f.inner) THEN Defer ELSE BuiltOf("tuple", outs(p))
    BY ZenonT(60) DEF ApplyTuple
  <2>3. Len(v.c) = Len(f.inner) => outs("none") = outs("all")
    <3>1. Len(v.c) = Len(f.inner) =>
            \A j \in DOMAIN v.c : els[f.inner[j]][v.c[j].v]["none"] = els[f.inner[j]][v.c[j].v]["all"]
      BY <1>1, <1>2, <1>6, PartsUnread, SMTT(40)
    <3> HIDE DEF els
    <3> QED
      BY <3>1, SMTT(40)
  <2> HIDE DEF outs, R, els
  <2> QED
    BY <2>1, <2>2, <2>3
<1>7. CASE f.kind = "Dict"
  <2> DEFINE keys(p) == [j \in DOMAIN v.c |-> DictPart(f.inner[1], v.c[j].k, els[f.inner[1]][v.c[j].k][p])]
             vals(p) == [j \in DOMAIN v.c |-> DictPart(f.inner[2], v.c[j].v, els[f.inner[2]][v.c[j].v][p])]
  <2>1. \A p : R(p) = IF f.inner = <<NoField, NoField>> THEN IF v.t = "dict" THEN Ok(v) ELSE Defer
                      ELSE ApplyDictTyped(els, f, v, p)
    BY <1>7, ApplyIs
  <2>2. \A p : ApplyDictTyped(els, f, v, p) = IF v.t # "dict" THEN Defer ELSE SetItems(keys(p), vals(p))
    BY ZenonT(60) DEF ApplyDictTyped
  <2>3. keys("none") = keys("all") /\ vals("none") = vals("all")
    <3>1. /\ \A j \in DOMAIN v.c : els[f.inner[1]][v.c[j].k]["none"] = els[f.inner[1]][v.c[j].k]["all"]
          /\ \A j \in DOMAIN v.c : els[f.inner[2]][v.c[j].v]["none"] = els[f.inner[2]][v.c[j].v]["all"]
      BY <1>1, <1>2, <1>7, PartsUnread
    <3> HIDE DEF els
    <3> QED
      BY <3>1, SMTT(40)
  <2> HIDE DEF keys, vals, R, els
  <2> QED
    BY <2>1, <2>2, <2>3
<1>8. f.kind \in Kinds /\ f.kind \notin {"Foreign", "Nested", "Pluck"}
  BY PartsUnread
<1> QED
  BY <1>3, <1>4, <1>5, <1>6, <1>7, <1>8 DEF Kinds

LEMMA ElementsUnread ==
  ASSUME NEW n \in Nat
  PROVE  Reads(n)
<1> DEFINE T == {m \in Nat : Reads(m)}
<1>1. 0 \in T
  BY ElementsUnfold DEF Reads
<1>2. ASSUME NEW m \in Nat, m \in T  PROVE m + 1 \in T
  <2>1. ASSUME NEW f \in DOMAIN Elements[m + 1], f \in PlainTo[m + 1], f \notin ConsumesPartial[m + 1],
               NEW v \in Values
        PROVE  Elements[m + 1][f][v]["none"] = Elements[m + 1][f][v]["all"]
    <3>1. Apply(Elements[m], m, f, v, "none") = Apply(Elements[m], m, f, v, "all")
      BY <1>2, <2>1, ApplyUnread
    <3> QED
      BY <3>1, ElementsAre DEF Partials
  <2> QED
    BY <2>1 DEF Reads
<1> HIDE DEF T
<1>3. Nat \subseteq T
  BY <1>1, <1>2, LevelInduction
<1> QED
  BY <1>3 DEF T

(***************************************************************************)
(* F4 (src/load/serializer.rs:161): an element for which the derivation of *)
(* a partial is skipped would not have read it.                            *)
(***************************************************************************)
THEOREM PartialIsUnread ==
  ASSUME PlainFields
  PROVE  Spec => []PartialUnread
<1>1. IInv => PartialUnread
  <2> SUFFICES ASSUME IInv, source = "dict", ~Callback(Elements[Levels], field), field \notin ConsumesPartial[Levels]
               PROVE  Elements[Levels][field][value]["none"] = Elements[Levels][field][value]["all"]
    BY DEF PartialUnread
  <2>1. field \in PlainTo[Levels] /\ value \in Values /\ field \in DOMAIN Elements[Levels]
    BY DEF PlainFields, IInv, GivenOK, Callback
  <2>2. Reads(Levels)
    BY DepthAssumption, ElementsUnread
  <2> QED
    BY <2>1, <2>2 DEF Reads
<1> QED
  BY <1>1, Invariance, PTL
=============================================================================
