------------------------- MODULE DumpElementProofs -------------------------
(***************************************************************************)
(* Proofs about DumpElement, for schemas and values of every depth: the    *)
(* core's elements and its writer make of a value what marshmallow and     *)
(* json.dumps make of it, or leave it to them.                             *)
(***************************************************************************)
EXTENDS DumpElement, FiniteSetTheorems, SequenceTheorems, TLAPS

-----------------------------------------------------------------------------
(***************************************************************************)
(* The texts of src/temporal.rs and src/json_writer.rs against those of    *)
(* CPython: every UTC offset there is, and every character.                *)
(***************************************************************************)

(* Division undoes a multiplication and leaves the rest. *)
LEMMA DivMod ==
  ASSUME NEW u \in Nat \ {0}, NEW a \in Int, NEW r \in 0..u - 1
  PROVE  (a * u + r) \div u = a /\ (a * u + r) % u = r
  OBVIOUS

(* A day has a positive number of microseconds. *)
LEMMA DayType == Day \in Nat \ {0}
  BY DEF Day

(* Minutes and seconds: by magnitude, and by the rest of an hour. *)
LEMMA Clock ==
  ASSUME NEW s \in Nat
  PROVE  /\ (s \div 60) % 60 = (s % 3600) \div 60
         /\ s % 60 = (s % 3600) % 60
<1> DEFINE h == s \div 3600
           m == (s % 3600) \div 60
           x == (s % 3600) % 60
<1>1. h \in Nat /\ m \in 0..59 /\ x \in 0..59 /\ s = (h * 60 + m) * 60 + x
  OBVIOUS
<1> HIDE DEF h, m, x
<1>2. s \div 60 = h * 60 + m /\ s % 60 = x
  BY <1>1, DivMod
<1>3. (s \div 60) % 60 = m
  BY <1>1, <1>2, DivMod
<1> QED
  BY <1>2, <1>3 DEF m, x

(* The two ways to write a magnitude of s seconds and r microseconds. *)
LEMMA SameMagnitude ==
  ASSUME NEW s \in Nat, NEW r \in 0..UsPerSecond - 1, NEW sign,
         NEW delta, delta.days = 0, delta.seconds = s, delta.us = r
  PROVE  WriteMagnitude(sign, s * UsPerSecond + r) = DivmodText(sign, delta)
<1>1. (s * UsPerSecond + r) \div UsPerSecond = s /\ (s * UsPerSecond + r) % UsPerSecond = r
  BY UsPerSecondAssumption
<1>2. (s \div 60) % 60 = (s % 3600) \div 60 /\ s % 60 = (s % 3600) % 60
  BY Clock
<1>3. 0 * 24 + s \div 3600 = s \div 3600
  OBVIOUS
<1> QED
  BY <1>1, <1>2, <1>3 DEF WriteMagnitude, DivmodText

(* Minus a negative offset is its magnitude, with the carry of the microseconds. *)
LEMMA Negation ==
  ASSUME NEW delta, Offset(delta), delta.days = -1
  PROVE  /\ Negated(delta).days = 0
         /\ Negated(delta).seconds \in Nat
         /\ Negated(delta).us \in 0..UsPerSecond - 1
         /\ -TotalUs(delta) = Negated(delta).seconds * UsPerSecond + Negated(delta).us
         /\ TotalUs(delta) < 0
<1> DEFINE s == delta.seconds
           u == delta.us
<1>1. s \in 0..Day - 1 /\ u \in 0..UsPerSecond - 1 /\ s + u > 0 /\ UsPerSecond \in Nat \ {0} /\ Day \in Nat \ {0}
  BY UsPerSecondAssumption, DayType DEF Offset
<1>2. TotalUs(delta) = (s - Day) * UsPerSecond + u
  BY <1>1 DEF TotalUs
<1>3. CASE u = 0
  <2>1. (-u) \div UsPerSecond = 0 /\ (-u) % UsPerSecond = 0
    BY <1>1, <1>3
  <2>2. (-s) \div Day = -1 /\ (-s) % Day = Day - s
    BY <1>1, <1>3
  <2>3. Negated(delta) = [days |-> 0, seconds |-> Day - s, us |-> 0]
    BY <1>1, <2>1, <2>2 DEF Negated
  <2>4. -TotalUs(delta) = (Day - s) * UsPerSecond
    BY <1>1, <1>2, <1>3
  <2>5. (Day - s) * UsPerSecond > 0
    BY <1>1
  <2> QED
    BY <1>1, <1>2, <2>3, <2>4, <2>5
<1>4. CASE u > 0
  <2>1. (-u) \div UsPerSecond = -1 /\ (-u) % UsPerSecond = UsPerSecond - u
    BY <1>1, <1>4
  <2>2. (-s + -1) \div Day = -1 /\ (-s + -1) % Day = Day - 1 - s
    <3> HIDE DEF s, u
    <3>1. Day - 1 - s \in 0..Day - 1 /\ -s + -1 = (-1) * Day + (Day - 1 - s)
      BY <1>1
    <3> QED
      BY <1>1, <3>1, DivMod
  <2>3. Negated(delta) = [days |-> 0, seconds |-> Day - 1 - s, us |-> UsPerSecond - u]
    BY <1>1, <2>1, <2>2 DEF Negated
  <2>4. -TotalUs(delta) = (Day - 1 - s) * UsPerSecond + (UsPerSecond - u)
    BY <1>1, <1>2
  <2>5. (Day - 1 - s) * UsPerSecond + (UsPerSecond - u) > 0
    BY <1>1
  <2> QED
    BY <1>1, <1>2, <1>4, <2>3, <2>4, <2>5
<1> QED
  BY <1>1, <1>3, <1>4

(***************************************************************************)
(* write_utcoffset (src/temporal.rs:21-49) writes what CPython's           *)
(* _format_offset does, for every offset utcoffset() may return.           *)
(***************************************************************************)
THEOREM OffsetLikeCPython ==
  ASSUME NEW delta, Offset(delta)
  PROVE  WriteUtcOffset(delta) = FormatOffset(delta)
<1>1. CASE delta.days = -1
  <2>1. TotalUs(delta) < 0 /\ Negated(delta).days = 0
    BY <1>1, Negation
  <2>2. WriteMagnitude("-", -TotalUs(delta)) = DivmodText("-", Negated(delta))
    BY <1>1, Negation, SameMagnitude
  <2> QED
    BY <1>1, <2>1, <2>2 DEF WriteUtcOffset, FormatOffset
<1>2. CASE delta.days = 0
  <2>1. delta.seconds \in Nat /\ delta.us \in 0..UsPerSecond - 1 /\ UsPerSecond \in Nat \ {0}
    BY UsPerSecondAssumption, DayType DEF Offset
  <2>2. TotalUs(delta) = delta.seconds * UsPerSecond + delta.us
    BY <1>2, <2>1, DayType DEF TotalUs
  <2>3. TotalUs(delta) >= 0
    BY <2>1, <2>2
  <2>4. WriteMagnitude("+", TotalUs(delta)) = DivmodText("+", delta)
    BY <1>2, <2>1, <2>2, SameMagnitude
  <2> QED
    BY <1>2, <2>1, <2>2, <2>3, <2>4 DEF WriteUtcOffset, FormatOffset
<1> QED
  BY <1>1, <1>2 DEF Offset

(***************************************************************************)
(* write_temporal_native (src/temporal.rs:51-115) writes what isoformat()  *)
(* gives, of every datetime, date and time.                                *)
(***************************************************************************)
THEOREM TemporalLikeCPython ==
  ASSUME NEW m, m.type = "date" => m.date \in Seq(Nat) /\ m.time = <<>> /\ m.us = 0 /\ m.offset = {},
         \A delta \in m.offset : Offset(delta)
  PROVE  WriteTemporal(m) = IsoFormat(m)
<1>1. CASE m.type = "date"
  <2>1. IsoFormat(m) = m.date \o <<>> \o <<>> \o <<>>
    BY <1>1 DEF IsoFormat, Optional
  <2>2. m.date \o <<>> = m.date
    BY <1>1
  <2> QED
    BY <1>1, <2>1, <2>2 DEF WriteTemporal
<1>2. CASE m.type # "date"
  <2> DEFINE d == CHOOSE delta \in m.offset : TRUE
  <2>1. m.offset # {} => WriteUtcOffset(d) = FormatOffset(d)
    <3> SUFFICES ASSUME m.offset # {}  PROVE WriteUtcOffset(d) = FormatOffset(d)
      OBVIOUS
    <3>1. d \in m.offset
      OBVIOUS
    <3> QED
      BY <3>1, OffsetLikeCPython
  <2> QED
    BY <1>2, <2>1 DEF WriteTemporal, WriteTime, IsoFormat
<1> QED
  BY <1>1, <1>2

-----------------------------------------------------------------------------
(***************************************************************************)
(* json_escape_into (src/json_writer.rs:103-117): the two escapes of a     *)
(* character above the BMP are a high and a low surrogate, and decode to   *)
(* the character.                                                          *)
(***************************************************************************)
THEOREM SurrogatePairsDecode ==
  ASSUME NEW cp \in Int, Astral <= cp, cp < 17 * Astral
  PROVE  /\ HighBase <= High(cp) /\ High(cp) < LowBase
         /\ LowBase <= Low(cp) /\ Low(cp) < LowBase + 1024
         /\ Astral + (High(cp) - HighBase) * 1024 + (Low(cp) - LowBase) = cp
<1> DEFINE v == cp - Astral
           q == v \div 1024
           r == v % 1024
<1>1. v \in Nat /\ v < 16 * Astral
  BY DEF Astral
<1>2. q \in Nat /\ r \in 0..1023 /\ v = q * 1024 + r
  BY <1>1
<1>3. q < 1024
  <2>1. v < 1024 * 1024
    BY <1>1 DEF Astral
  <2> HIDE DEF v, q, r
  <2> QED
    BY <1>2, <2>1
<1>4. High(cp) = HighBase + q /\ Low(cp) = LowBase + r
  BY DEF High, Low
<1>5. HighBase + 1024 = LowBase /\ HighBase \in Int /\ LowBase \in Int /\ Astral \in Int
  BY DEF HighBase, LowBase, Astral
<1>6. cp = Astral + v
  BY <1>5
<1> HIDE DEF v, q, r
<1> QED
  BY <1>1, <1>2, <1>3, <1>4, <1>5, <1>6

(***************************************************************************)
(* Of every character that is not ASCII json_escape_into writes what       *)
(* CPython's py_encode_basestring_ascii does.                              *)
(***************************************************************************)
THEOREM NonAsciiLikeCPython ==
  ASSUME NEW cp \in Int, 128 <= cp, cp < 17 * Astral
  PROVE  EscapeNonAscii(cp) = EncodeAscii(cp)
<1>1. cp \notin {34, 92} /\ cp \notin {8, 9, 10, 12, 13} /\ cp \notin 32..126
  OBVIOUS
<1>2. CASE cp < Astral
  BY <1>1, <1>2 DEF EscapeNonAscii, EncodeAscii
<1>3. CASE ~(cp < Astral)
  <2> DEFINE q == (cp - Astral) \div 1024
  <2>1. q \in Nat /\ q < 1024
    <3>1. High(cp) = HighBase + q
      BY DEF High
    <3>2. HighBase <= High(cp) /\ High(cp) < LowBase
      BY <1>3, SurrogatePairsDecode DEF Astral
    <3>3. q \in Int /\ HighBase \in Int /\ HighBase + 1024 = LowBase
      BY DEF Astral, HighBase, LowBase
    <3> HIDE DEF q
    <3> QED
      BY <3>1, <3>2, <3>3
  <2> HIDE DEF q
  <2>2. q % 1024 = q
    BY <2>1
  <2> QED
    BY <1>1, <1>3, <2>2 DEF EscapeNonAscii, EncodeAscii, High, Low, q
<1> QED
  BY <1>2, <1>3

-----------------------------------------------------------------------------
(* Texts one after the other, and FlattenSeq.                              *)

Lists == Seq(Seq(Int))

NoText == [s \in Lists |-> <<>>]
AddText(g, n) == [s \in Lists |-> g[s] \o s[n]]
TI == INSTANCE Iteration WITH Base <- NoText, Step <- AddText

(* The first n texts of s. *)
Joined(s, n) == TI!Iter[n][s]

(* Induction over the levels, for a set of them. *)
LEMMA LevelInduction ==
  ASSUME NEW T, 0 \in T, \A n \in Nat : n \in T => n + 1 \in T
  PROVE  Nat \subseteq T
BY TI!SetInduction

(* Joining one more text appends it. *)
LEMMA JoinedNext ==
  ASSUME NEW s \in Lists
  PROVE  /\ Joined(s, 0) = <<>>
         /\ \A n \in Nat : Joined(s, n + 1) = Joined(s, n) \o s[n + 1]
BY TI!Unfold DEF Joined, NoText, AddText

(* The parts of a list of texts are typed. *)
LEMMA ListsAre ==
  ASSUME NEW s \in Lists
  PROVE  /\ Len(s) \in Nat /\ DOMAIN s = 1..Len(s)
         /\ \A j \in 1..Len(s) : s[j] \in Seq(Int) /\ Len(s[j]) \in Nat /\ DOMAIN s[j] = 1..Len(s[j])
<1>1. Len(s) \in Nat /\ DOMAIN s = 1..Len(s)
  BY DEF Lists
<1>2. ASSUME NEW j \in 1..Len(s)  PROVE s[j] \in Seq(Int)
  BY ElementOfSeq DEF Lists
<1> QED
  BY <1>1, <1>2, LenProperties

(* The joined texts are a text. *)
LEMMA JoinedTyped ==
  ASSUME NEW s \in Lists
  PROVE  \A n \in 0..Len(s) : Joined(s, n) \in Seq(Int)
<1> DEFINE T == {n \in Nat : n <= Len(s) => Joined(s, n) \in Seq(Int)}
<1>1. 0 \in T
  BY JoinedNext, <<>> \in Seq(Int)
<1>2. ASSUME NEW n \in Nat, n \in T  PROVE n + 1 \in T
  <2> SUFFICES ASSUME n + 1 <= Len(s)  PROVE Joined(s, n + 1) \in Seq(Int)
    OBVIOUS
  <2>1. Joined(s, n) \in Seq(Int) /\ s[n + 1] \in Seq(Int)
    BY <1>2, ListsAre
  <2> QED
    BY <2>1, JoinedNext, ConcatProperties
<1> HIDE DEF T
<1>3. Nat \subseteq T
  BY <1>1, <1>2, LevelInduction
<1> QED
  BY <1>3, ListsAre DEF T

(* FlattenSeq joins all the texts. *)
LEMMA FlattenIs ==
  ASSUME NEW s \in Lists
  PROVE  FlattenSeq(s) = Joined(s, Len(s))
<1>1. CASE Len(s) = 0
  <2>1. s = <<>>
    BY <1>1, EmptySeq DEF Lists
  <2> QED
    BY <1>1, <2>1, JoinedNext DEF FlattenSeq
<1>2. CASE Len(s) # 0
  <2> DEFINE Eq(g) == g = [k \in 1..Len(s) |-> IF k = 1 THEN s[k] ELSE g[k - 1] \o s[k]]
             F == [k \in 1..Len(s) |-> Joined(s, k)]
             C == CHOOSE g : Eq(g)
             T == {n \in Nat : n + 1 \in 1..Len(s) => C[n + 1] = Joined(s, n + 1)}
  <2>1. ASSUME NEW k \in 1..Len(s)
        PROVE  Joined(s, k) = IF k = 1 THEN s[k] ELSE F[k - 1] \o s[k]
    <3>1. k - 1 \in Nat /\ (k - 1) + 1 = k
      BY ListsAre
    <3>2. Joined(s, k) = Joined(s, k - 1) \o s[k]
      BY <3>1, JoinedNext
    <3>3. CASE k = 1
      <4>1. k - 1 = 0 /\ s[k] \in Seq(Int)
        BY <3>3, ListsAre
      <4>2. <<>> \o s[k] = s[k]
        BY <4>1, ConcatEmptySeq
      <4>3. Joined(s, k) = s[k]
        BY <3>2, <4>1, <4>2, JoinedNext
      <4> QED
        BY <3>3, <4>3
    <3>4. CASE k # 1
      BY <3>1, <3>2, <3>4, ListsAre, k - 1 \in 1..Len(s)
    <3> QED
      BY <3>3, <3>4
  <2>2. Eq(F)
    BY <2>1
  <2> HIDE DEF F
  <2>3. Eq(C)
    BY <2>2
  <2>4. FlattenSeq(s) = C[Len(s)]
    BY <1>2 DEF FlattenSeq
  <2> HIDE DEF C
  <2>5. \A k \in 1..Len(s) : C[k] = IF k = 1 THEN s[k] ELSE C[k - 1] \o s[k]
    BY <2>3
  <2>6. 0 \in T
    <3> SUFFICES ASSUME 1 \in 1..Len(s)  PROVE C[1] = Joined(s, 1)
      OBVIOUS
    <3> QED
      BY <2>1, <2>5
  <2>7. ASSUME NEW n \in Nat, n \in T  PROVE n + 1 \in T
    <3> SUFFICES ASSUME (n + 1) + 1 \in 1..Len(s)  PROVE C[(n + 1) + 1] = Joined(s, (n + 1) + 1)
      OBVIOUS
    <3>1. C[n + 1] = Joined(s, n + 1)
      BY <2>7, ListsAre
    <3>2. C[(n + 1) + 1] = C[n + 1] \o s[(n + 1) + 1]
      BY <2>5, (n + 1) + 1 # 1, ((n + 1) + 1) - 1 = n + 1
    <3>3. Joined(s, (n + 1) + 1) = Joined(s, n + 1) \o s[(n + 1) + 1]
      BY JoinedNext, n + 1 \in Nat
    <3> QED
      BY <3>1, <3>2, <3>3
  <2> HIDE DEF T
  <2>8. Nat \subseteq T
    BY <2>6, <2>7, LevelInduction
  <2>9. Len(s) - 1 \in Nat /\ (Len(s) - 1) + 1 = Len(s) /\ Len(s) \in 1..Len(s)
    BY <1>2, ListsAre
  <2>10. C[Len(s)] = Joined(s, Len(s))
    BY <2>8, <2>9 DEF T
  <2> QED
    BY <2>4, <2>10
<1> QED
  BY <1>1, <1>2

(* Later texts leave what is there. *)
LEMMA JoinedKeeps ==
  ASSUME NEW s \in Lists, NEW n \in 0..Len(s)
  PROVE  \A m \in n..Len(s) :
           /\ Len(Joined(s, n)) <= Len(Joined(s, m))
           /\ \A x \in 1..Len(Joined(s, n)) : Joined(s, m)[x] = Joined(s, n)[x]
<1> DEFINE Keeps(m) == /\ Len(Joined(s, n)) <= Len(Joined(s, m))
                       /\ \A x \in 1..Len(Joined(s, n)) : Joined(s, m)[x] = Joined(s, n)[x]
           T == {d \in Nat : n + d <= Len(s) => Keeps(n + d)}
<1>0. \A k \in 0..Len(s) : Joined(s, k) \in Seq(Int) /\ Len(Joined(s, k)) \in Nat
  BY JoinedTyped, LenProperties
<1>1. 0 \in T
  BY <1>0, ListsAre, n + 0 = n
<1>2. ASSUME NEW d \in Nat, d \in T  PROVE d + 1 \in T
  <2> DEFINE m == n + d
  <2> SUFFICES ASSUME n + (d + 1) <= Len(s)  PROVE Keeps(n + (d + 1))
    OBVIOUS
  <2>1. m \in Nat /\ m \in 0..Len(s) /\ m + 1 \in 1..Len(s) /\ n + (d + 1) = m + 1
    BY ListsAre
  <2>2. Keeps(m)
    BY <1>2, <2>1
  <2> HIDE DEF m
  <2>3. s[m + 1] \in Seq(Int) /\ Len(s[m + 1]) \in Nat
    BY <2>1, ListsAre
  <2>4. Joined(s, m + 1) = Joined(s, m) \o s[m + 1]
    BY <2>1, JoinedNext
  <2>5. /\ Len(Joined(s, m + 1)) = Len(Joined(s, m)) + Len(s[m + 1])
        /\ \A x \in 1..Len(Joined(s, m)) : Joined(s, m + 1)[x] = Joined(s, m)[x]
    BY <1>0, <2>1, <2>3, <2>4, ConcatProperties
  <2>6. Keeps(m + 1)
    BY <1>0, <2>1, <2>2, <2>3, <2>5
  <2> QED
    BY <2>1, <2>6
<1> HIDE DEF T
<1>3. Nat \subseteq T
  BY <1>1, <1>2, LevelInduction
<1> SUFFICES ASSUME NEW m \in n..Len(s)  PROVE Keeps(m)
  OBVIOUS
<1>4. m - n \in Nat /\ n + (m - n) = m /\ m <= Len(s)
  BY ListsAre
<1> QED
  BY <1>3, <1>4 DEF T

(* Where a text is in all of them. *)
LEMMA JoinedAt ==
  ASSUME NEW s \in Lists, NEW n \in Nat, n < Len(s), NEW b, b = Joined(s, Len(s)),
         NEW p, p = Len(Joined(s, n))
  PROVE  /\ p \in Nat /\ Len(Joined(s, n + 1)) = p + Len(s[n + 1])
         /\ p + Len(s[n + 1]) <= Len(b)
         /\ \A k \in 1..Len(s[n + 1]) : b[p + k] = s[n + 1][k]
<1>1. n \in 0..Len(s) /\ n + 1 \in 1..Len(s) /\ n + 1 \in 0..Len(s) /\ Len(s) \in (n + 1)..Len(s)
  BY ListsAre
<1>2. /\ Joined(s, n) \in Seq(Int) /\ p \in Nat
      /\ s[n + 1] \in Seq(Int) /\ Len(s[n + 1]) \in Nat
  BY <1>1, JoinedTyped, LenProperties, ListsAre
<1>3. Joined(s, n + 1) = Joined(s, n) \o s[n + 1]
  BY JoinedNext
<1>4. /\ Len(Joined(s, n + 1)) = p + Len(s[n + 1])
      /\ \A x \in 1..p + Len(s[n + 1]) :
           Joined(s, n + 1)[x] = IF x <= p THEN Joined(s, n)[x] ELSE s[n + 1][x - p]
  BY <1>2, <1>3, ConcatProperties
<1>5. /\ p + Len(s[n + 1]) <= Len(b)
      /\ \A x \in 1..p + Len(s[n + 1]) : b[x] = Joined(s, n + 1)[x]
  BY <1>1, <1>4, JoinedKeeps, ZenonT(60)
<1>6. ASSUME NEW k \in 1..Len(s[n + 1])  PROVE b[p + k] = s[n + 1][k]
  <2>1. p + k \in 1..p + Len(s[n + 1]) /\ ~(p + k <= p) /\ (p + k) - p = k
    BY <1>2
  <2> QED
    BY <1>4, <1>5, <2>1
<1> QED
  BY <1>2, <1>4, <1>5, <1>6

(* JoinedAt in one predicate: text n + 1 is in the whole, behind the n before it. *)
AtPlace(s, n) ==
  /\ Len(Joined(s, n)) \in Nat
  /\ Len(Joined(s, n + 1)) = Len(Joined(s, n)) + Len(s[n + 1])
  /\ Len(Joined(s, n)) + Len(s[n + 1]) <= Len(Joined(s, Len(s)))
  /\ \A k \in 1..Len(s[n + 1]) : Joined(s, Len(s))[Len(Joined(s, n)) + k] = s[n + 1][k]

(* Every text of a list is at its place in the whole. *)
LEMMA PlaceIs ==
  ASSUME NEW s \in Lists, NEW n \in Nat, n < Len(s)
  PROVE  AtPlace(s, n)
<1> DEFINE b == Joined(s, Len(s))
           p == Len(Joined(s, n))
<1> HIDE DEF b, p
<1>1. b = Joined(s, Len(s)) /\ p = Len(Joined(s, n))
  BY DEF b, p
<1>2. /\ p \in Nat /\ Len(Joined(s, n + 1)) = p + Len(s[n + 1])
      /\ p + Len(s[n + 1]) <= Len(b)
      /\ \A k \in 1..Len(s[n + 1]) : b[p + k] = s[n + 1][k]
  BY <1>1, JoinedAt
<1> QED
  BY <1>2 DEF AtPlace, b, p

-----------------------------------------------------------------------------
(* The bytes of a char.                                                    *)

(* Code points are numbers below the end of Unicode. *)
LEMMA CodePointIs == \A cp \in CodePoint : cp \in Nat /\ cp < 17 * Astral
<1>1. Astral \in Int
  BY DEF Astral
<1> QED
  BY <1>1 DEF CodePoint

(* The bytes of a character: how many, and what the first of them says. *)
LEMMA Utf8Typed ==
  ASSUME NEW cp \in CodePoint
  PROVE  /\ Utf8(cp) \in Seq(Int) /\ Len(Utf8(cp)) = Utf8Len(cp) /\ Utf8Len(cp) \in 1..4
         /\ cp < 128 => Utf8(cp)[1] = cp /\ Utf8Len(cp) = 1
         /\ cp >= 128 => Utf8(cp)[1] >= 192
<1>0. cp \in Nat
  BY CodePointIs
<1>1. CASE cp < 128
  <2>1. Utf8Len(cp) = 1
    BY <1>1 DEF Utf8Len
  <2>2. Utf8(cp) = <<cp>>
    BY <2>1 DEF Utf8
  <2> QED
    BY <1>0, <1>1, <2>1, <2>2
<1>2. CASE 128 <= cp /\ cp < 2048
  <2>1. Utf8Len(cp) = 2 /\ Utf8(cp) = <<192 + cp \div 64, Tail6(cp, 1)>>
    <3>1. Utf8Len(cp) = 2
      BY <1>0, <1>2 DEF Utf8Len, Astral
    <3> QED
      BY <3>1 DEF Utf8
  <2>2. cp \div 64 \in Nat /\ Tail6(cp, 1) \in Int
    BY <1>0 DEF Tail6
  <2> QED
    BY <1>0, <1>2, <2>1, <2>2
<1>3. CASE 2048 <= cp /\ cp < Astral
  <2>1. Utf8Len(cp) = 3 /\ Utf8(cp) = <<224 + cp \div 4096, Tail6(cp, 64), Tail6(cp, 1)>>
    <3>1. Utf8Len(cp) = 3
      BY <1>0, <1>3 DEF Utf8Len, Astral
    <3> QED
      BY <3>1 DEF Utf8
  <2>2. cp \div 4096 \in Nat /\ Tail6(cp, 64) \in Int /\ Tail6(cp, 1) \in Int
    BY <1>0 DEF Tail6
  <2> QED
    BY <1>0, <1>3, <2>1, <2>2
<1>4. CASE Astral <= cp
  <2>1. Utf8Len(cp) = 4 /\ Utf8(cp) = <<240 + cp \div 262144, Tail6(cp, 4096), Tail6(cp, 64), Tail6(cp, 1)>>
    <3>1. Utf8Len(cp) = 4
      BY <1>0, <1>4 DEF Utf8Len, Astral
    <3> QED
      BY <3>1 DEF Utf8
  <2>2. cp \div 262144 \in Nat /\ Tail6(cp, 4096) \in Int /\ Tail6(cp, 64) \in Int /\ Tail6(cp, 1) \in Int
    BY <1>0 DEF Tail6
  <2>3. cp >= 128
    BY <1>0, <1>4 DEF Astral
  <2> QED
    BY SMT, <1>0, <2>1, <2>2, <2>3
<1> QED
  BY <1>0, <1>1, <1>2, <1>3, <1>4 DEF Astral

(* How CharAt reads four bytes. *)
LEMMA CharOfFour ==
  ASSUME NEW bytes, NEW i \in Nat, bytes[i] > 239,
         bytes[i] \in Int, bytes[i + 1] \in Int, bytes[i + 2] \in Int, bytes[i + 3] \in Int
  PROVE  CharAt(bytes, i) =
           (bytes[i] - 240) * 262144 + (bytes[i + 1] - 128) * 4096 + (bytes[i + 2] - 128) * 64
             + (bytes[i + 3] - 128)
BY SMT DEF CharAt

(* CharAt reads back what Utf8 wrote. *)
LEMMA CharDecodes ==
  ASSUME NEW cp \in CodePoint, cp >= 128, NEW bytes, NEW i \in Nat,
         \A k \in 1..Utf8Len(cp) : bytes[i + (k - 1)] = Utf8(cp)[k]
  PROVE  CharAt(bytes, i) = cp
<1>0. cp \in Nat
  BY CodePointIs
<1>1. CASE cp < 2048
  <2>1. Utf8Len(cp) = 2 /\ Utf8(cp) = <<192 + cp \div 64, Tail6(cp, 1)>>
    <3>1. Utf8Len(cp) = 2
      BY <1>0, <1>1 DEF Utf8Len, Astral
    <3> QED
      BY <3>1 DEF Utf8
  <2>2. bytes[i] = 192 + cp \div 64 /\ bytes[i + 1] = Tail6(cp, 1)
    BY <2>1
  <2> DEFINE q == cp \div 64
             r == cp % 64
  <2>3. q \in 0..31 /\ r \in 0..63 /\ cp = q * 64 + r
    BY <1>0, <1>1
  <2>4. Tail6(cp, 1) = 128 + r
    BY <1>0 DEF Tail6
  <2> HIDE DEF q, r
  <2>5. bytes[i] = 192 + q /\ bytes[i + 1] = 128 + r /\ bytes[i] < 224
    BY SMT, <2>2, <2>3, <2>4 DEF q
  <2> QED
    BY <2>3, <2>5 DEF CharAt
<1>2. CASE 2048 <= cp /\ cp < Astral
  <2>1. Utf8Len(cp) = 3 /\ Utf8(cp) = <<224 + cp \div 4096, Tail6(cp, 64), Tail6(cp, 1)>>
    <3>1. Utf8Len(cp) = 3
      BY <1>0, <1>2 DEF Utf8Len, Astral
    <3> QED
      BY <3>1 DEF Utf8
  <2>2. bytes[i] = 224 + cp \div 4096 /\ bytes[i + 1] = Tail6(cp, 64) /\ bytes[i + 2] = Tail6(cp, 1)
    BY <2>1
  <2> DEFINE q == cp \div 4096
             m == (cp \div 64) % 64
             r == cp % 64
  <2>3. q \in 0..15 /\ m \in 0..63 /\ r \in 0..63 /\ cp = q * 4096 + m * 64 + r
    BY <1>0, <1>2 DEF Astral
  <2>4. Tail6(cp, 64) = 128 + m /\ Tail6(cp, 1) = 128 + r
    BY <1>0 DEF Tail6
  <2> HIDE DEF q, m, r
  <2>5. bytes[i] = 224 + q /\ bytes[i + 1] = 128 + m /\ bytes[i + 2] = 128 + r /\ bytes[i] \in 224..239
    BY SMT, <2>2, <2>3, <2>4 DEF q
  <2> QED
    BY <2>3, <2>5 DEF CharAt
<1>3. CASE Astral <= cp
  <2>1. Utf8Len(cp) = 4 /\ Utf8(cp) = <<240 + cp \div 262144, Tail6(cp, 4096), Tail6(cp, 64), Tail6(cp, 1)>>
    <3>1. Utf8Len(cp) = 4
      BY <1>0, <1>3 DEF Utf8Len, Astral
    <3> QED
      BY <3>1 DEF Utf8
  <2>2. /\ bytes[i] = 240 + cp \div 262144 /\ bytes[i + 1] = Tail6(cp, 4096)
        /\ bytes[i + 2] = Tail6(cp, 64) /\ bytes[i + 3] = Tail6(cp, 1)
    BY <2>1
  <2> DEFINE q == cp \div 262144
             n == (cp \div 4096) % 64
             m == (cp \div 64) % 64
             r == cp % 64
  <2>3. /\ q \in Nat /\ n \in 0..63 /\ m \in 0..63 /\ r \in 0..63
        /\ cp = q * 262144 + n * 4096 + m * 64 + r
    <3>1. q \in Nat /\ n \in 0..63 /\ m \in 0..63 /\ r \in 0..63
      BY SMT, <1>0
    <3>2. cp \div 64 \in Nat /\ cp \div 4096 \in Nat /\ cp = (cp \div 64) * 64 + r
      BY SMT, <1>0
    <3>3. cp \div 64 = (cp \div 4096) * 64 + m
      BY SMT, <1>0
    <3>4. cp \div 4096 = q * 64 + n
      BY SMT, <1>0
    <3> HIDE DEF q, n, m, r
    <3> QED
      BY SMT, <3>1, <3>2, <3>3, <3>4
  <2>4. Tail6(cp, 4096) = 128 + n /\ Tail6(cp, 64) = 128 + m /\ Tail6(cp, 1) = 128 + r
    BY <1>0 DEF Tail6
  <2> HIDE DEF q, n, m, r
  <2>5. /\ bytes[i] = 240 + q /\ bytes[i + 1] = 128 + n /\ bytes[i + 2] = 128 + m /\ bytes[i + 3] = 128 + r
        /\ bytes[i] > 239 /\ ~(bytes[i] < 224) /\ bytes[i] \notin 224..239
    BY SMT, <2>2, <2>3, <2>4 DEF q
  <2>6. CharAt(bytes, i) =
          (bytes[i] - 240) * 262144 + (bytes[i + 1] - 128) * 4096 + (bytes[i + 2] - 128) * 64
            + (bytes[i + 3] - 128)
    <3>1. /\ bytes[i] \in Int /\ bytes[i + 1] \in Int /\ bytes[i + 2] \in Int /\ bytes[i + 3] \in Int
          /\ bytes[i] > 239
      BY <2>3, <2>5
    <3> QED
      BY <3>1, CharOfFour
  <2> QED
    BY SMT, <2>3, <2>5, <2>6
<1> QED
  BY <1>0, <1>1, <1>2, <1>3 DEF Astral

-----------------------------------------------------------------------------
(* The scan, of all texts at once. *)

ByteStrings == Seq(Int)
Start == [i |-> 1, last |-> 1, buf |-> <<34>>]
ScanBase == [b \in ByteStrings |-> Start]
ScanByte(g, n) == [b \in ByteStrings |-> IF g[b].i > Len(b) THEN g[b] ELSE EscapeByte(b, g[b])]
CI == INSTANCE Iteration WITH Base <- ScanBase, Step <- ScanByte

Scanned(b, n) == CI!Iter[n][b]

(* The scan takes one step at a time, until the input ends. *)
LEMMA ScannedNext ==
  ASSUME NEW b \in ByteStrings
  PROVE  /\ Scanned(b, 0) = Start
         /\ \A n \in Nat : Scanned(b, n + 1) =
              IF Scanned(b, n).i > Len(b) THEN Scanned(b, n) ELSE EscapeByte(b, Scanned(b, n))
BY CI!Unfold DEF Scanned, ScanBase, ScanByte

Finished(b, st) == st.buf \o SubSeq(b, st.last, Len(b)) \o <<34>>

(* json_escape_into is what the scan of all bytes leaves. *)
LEMMA EscapeIsScanned ==
  ASSUME NEW b \in ByteStrings
  PROVE  JsonEscapeInto(b) = Finished(b, Scanned(b, Len(b)))
<1> DEFINE Eq(g) == g = [n \in 0..Len(b) |->
                            IF n = 0 THEN [i |-> 1, last |-> 1, buf |-> <<34>>]
                            ELSE IF g[n - 1].i > Len(b) THEN g[n - 1] ELSE EscapeByte(b, g[n - 1])]
           F == [n \in 0..Len(b) |-> Scanned(b, n)]
           C == CHOOSE g : Eq(g)
           T == {n \in Nat : n <= Len(b) => C[n] = Scanned(b, n)}
<1>0. Len(b) \in Nat
  BY DEF ByteStrings
<1>1. ASSUME NEW n \in 0..Len(b)
      PROVE  Scanned(b, n) = IF n = 0 THEN Start
                             ELSE IF F[n - 1].i > Len(b) THEN F[n - 1] ELSE EscapeByte(b, F[n - 1])
  <2>1. CASE n = 0
    BY <2>1, ScannedNext
  <2>2. CASE n # 0
    <3>1. n - 1 \in Nat /\ (n - 1) + 1 = n /\ n - 1 \in 0..Len(b)
      BY <2>2, <1>0
    <3>2. F[n - 1] = Scanned(b, n - 1)
      BY <3>1
    <3> HIDE DEF F
    <3>3. Scanned(b, (n - 1) + 1) =
            IF Scanned(b, n - 1).i > Len(b) THEN Scanned(b, n - 1) ELSE EscapeByte(b, Scanned(b, n - 1))
      BY <3>1, ScannedNext
    <3> QED
      BY <2>2, <3>1, <3>2, <3>3
  <2> QED
    BY <2>1, <2>2
<1>2. Eq(F)
  BY <1>1 DEF Start
<1> HIDE DEF F
<1>3. Eq(C)
  BY <1>2
<1>4. JsonEscapeInto(b) = Finished(b, C[Len(b)])
  BY DEF JsonEscapeInto, Finished
<1> HIDE DEF C
<1>5. /\ C[0] = Start
      /\ \A n \in 0..Len(b) : n # 0 =>
           C[n] = IF C[n - 1].i > Len(b) THEN C[n - 1] ELSE EscapeByte(b, C[n - 1])
  BY <1>3, <1>0 DEF Start
<1>6. 0 \in T
  BY <1>5, ScannedNext
<1>7. ASSUME NEW n \in Nat, n \in T  PROVE n + 1 \in T
  <2> SUFFICES ASSUME n + 1 <= Len(b)  PROVE C[n + 1] = Scanned(b, n + 1)
    OBVIOUS
  <2>1. C[n] = Scanned(b, n)
    BY <1>0, <1>7
  <2>2. C[n + 1] = IF C[n].i > Len(b) THEN C[n] ELSE EscapeByte(b, C[n])
    BY <1>0, <1>5, n + 1 \in 0..Len(b), n + 1 # 0, (n + 1) - 1 = n
  <2> QED
    BY <2>1, <2>2, ScannedNext
<1> HIDE DEF T
<1>8. Nat \subseteq T
  BY <1>6, <1>7, LevelInduction
<1>9. C[Len(b)] = Scanned(b, Len(b))
  BY <1>0, <1>8 DEF T
<1> QED
  BY <1>4, <1>9

-----------------------------------------------------------------------------
(* One byte, and the char it starts. *)

(* Escapes are sequences of numbers. *)
LEMMA EncodeTyped ==
  ASSUME NEW cp \in CodePoint
  PROVE  EncodeAscii(cp) \in Seq(Int) /\ EscapeNonAscii(cp) \in Seq(Int)
<1>0. cp \in Nat
  BY CodePointIs
<1>1. \A n \in Int : PushU4(n) \in Seq(Int)
  BY DEF PushU4, Hex
<1>2. Short(cp) \in Int \/ cp \notin {8, 9, 10, 12, 13}
  BY <1>0 DEF Short
<1>3. Astral \in Int /\ HighBase \in Int /\ LowBase \in Int
  BY DEF Astral, HighBase, LowBase
<1>4. ASSUME NEW a \in Int, NEW c \in Int  PROVE PushU4(a) \o PushU4(c) \in Seq(Int)
  BY <1>1, ConcatProperties
<1>5. /\ HighBase + (((cp - Astral) \div 1024) % 1024) \in Int /\ LowBase + ((cp - Astral) % 1024) \in Int
      /\ High(cp) \in Int /\ Low(cp) \in Int
  BY <1>0, <1>3 DEF High, Low
<1>6. EscapeNonAscii(cp) \in Seq(Int)
  BY <1>0, <1>1, <1>4, <1>5 DEF EscapeNonAscii
<1>7. <<cp>> \in Seq(Int) /\ <<92, cp>> \in Seq(Int)
  BY <1>0
<1>8. cp \in {8, 9, 10, 12, 13} => <<92, Short(cp)>> \in Seq(Int)
  BY <1>2
<1>9. EncodeAscii(cp) \in Seq(Int)
  <2> DEFINE hi == HighBase + (((cp - Astral) \div 1024) % 1024)
             lo == LowBase + ((cp - Astral) % 1024)
  <2>1. /\ PushU4(cp) \in Seq(Int)
        /\ PushU4(hi) \o PushU4(lo) \in Seq(Int)
    BY <1>0, <1>1, <1>4, <1>5
  <2>2. \/ EncodeAscii(cp) \in {<<cp>>, <<92, cp>>, PushU4(cp), PushU4(hi) \o PushU4(lo)}
        \/ (cp \in {8, 9, 10, 12, 13} /\ EncodeAscii(cp) = <<92, Short(cp)>>)
    BY DEF EncodeAscii
  <2> HIDE DEF hi, lo
  <2> QED
    BY <1>7, <1>8, <2>1, <2>2
<1> QED
  BY <1>6, <1>9

(* What the scan makes of the char at its place. *)
LEMMA EscapeChar ==
  ASSUME NEW cp \in CodePoint, NEW b, NEW st, st.i \in Nat,
         b[st.i] = Utf8(cp)[1], cp >= 128 => CharAt(b, st.i) = cp
  PROVE  \/ /\ Utf8(cp)[1] = cp /\ Utf8Len(cp) = 1 /\ EncodeAscii(cp) = <<cp>>
            /\ EscapeByte(b, st) = [st EXCEPT !.i = st.i + 1]
         \/ EscapeByte(b, st) = Flush(b, st, Utf8Len(cp), EncodeAscii(cp))
<1>0. cp \in Nat
  BY CodePointIs
<1>1. CASE cp < 128
  <2>1. b[st.i] = cp /\ Utf8Len(cp) = 1 /\ Utf8(cp)[1] = cp
    BY <1>1, Utf8Typed
  <2>2. CASE cp \in {8, 9, 10, 12, 13, 34, 92}
    <3>1. Class(b[st.i]) = "short"
      BY <2>1, <2>2 DEF Class
    <3>2. EscapeByte(b, st) = Flush(b, st, 1, <<92, Short(cp)>>)
      BY <2>1, <3>1 DEF EscapeByte
    <3>3. EncodeAscii(cp) = <<92, Short(cp)>>
      BY <2>2 DEF EncodeAscii, Short
    <3> QED
      BY <2>1, <3>2, <3>3
  <2>3. CASE cp \notin {8, 9, 10, 12, 13, 34, 92} /\ (cp < 32 \/ cp = 127)
    <3>1. Class(b[st.i]) = "control"
      BY <2>1, <2>3 DEF Class
    <3>2. EscapeByte(b, st) = Flush(b, st, 1, PushU4(cp))
      BY <2>1, <3>1 DEF EscapeByte
    <3>3. cp \notin {34, 92} /\ cp \notin {8, 9, 10, 12, 13} /\ cp \notin 32..126 /\ cp < Astral
      BY <1>0, <1>1, <2>3 DEF Astral
    <3>4. EncodeAscii(cp) = PushU4(cp)
      BY <3>3 DEF EncodeAscii
    <3> QED
      BY <2>1, <3>2, <3>4
  <2>4. CASE cp \notin {8, 9, 10, 12, 13, 34, 92} /\ ~(cp < 32 \/ cp = 127)
    <3>1. Class(b[st.i]) = "clean"
      BY <1>1, <2>1, <2>4 DEF Class
    <3>2. EscapeByte(b, st) = [st EXCEPT !.i = st.i + 1]
      BY <3>1 DEF EscapeByte
    <3>3. cp \notin {34, 92} /\ cp \notin {8, 9, 10, 12, 13} /\ cp \in 32..126
      BY <1>0, <1>1, <2>4
    <3>4. EncodeAscii(cp) = <<cp>>
      BY <3>3 DEF EncodeAscii
    <3> QED
      BY <2>1, <3>2, <3>4
  <2> QED
    BY <2>2, <2>3, <2>4
<1>2. CASE cp >= 128
  <2>1. b[st.i] >= 192 /\ b[st.i] \in Int
    BY <1>2, Utf8Typed
  <2>2. Class(b[st.i]) = "non_ascii"
    BY <2>1 DEF Class
  <2>3. EscapeByte(b, st) = Flush(b, st, Utf8Len(cp), EscapeNonAscii(cp))
    BY <1>2, <2>2 DEF EscapeByte
  <2>4. EscapeNonAscii(cp) = EncodeAscii(cp)
    BY <1>2, CodePointIs, NonAsciiLikeCPython
  <2> QED
    BY <2>3, <2>4
<1> QED
  BY <1>0, <1>1, <1>2

-----------------------------------------------------------------------------
(* The scan of a string, char by char. *)

(* What the scan has written, with the run that is open. *)
Progress(b, st, out) ==
  /\ st \in [i: Nat \ {0}, last: Nat \ {0}, buf: Seq(Int)] /\ st.last <= st.i
  /\ out \in Seq(Int)
  /\ st.buf \o SubSeq(b, st.last, st.i - 1) = out

(* A slice of a text is a text. *)
LEMMA SlicesAre ==
  ASSUME NEW b \in Seq(Int), NEW m \in Nat \ {0}, NEW n \in Nat, n <= Len(b)
  PROVE  SubSeq(b, m, n) \in Seq(Int)
<1>1. \A j \in m..n : b[j] \in Int
  <2>1. Len(b) \in Nat
    BY LenProperties
  <2> QED
    BY <2>1, ElementOfSeq
<1> QED
  BY <1>1, SubSeqProperties

(* Concatenation is associative. *)
LEMMA Regroup == \A s, t, u \in Seq(Int) : (s \o t) \o u = s \o (t \o u)
BY ConcatAssociative, SMTT(60)

(* A pending run grows by the byte that is next. *)
LEMMA RunGrows ==
  ASSUME NEW b \in Seq(Int), NEW i \in Nat \ {0}, i <= Len(b), NEW last \in Nat \ {0}, last <= i,
         NEW buf \in Seq(Int)
  PROVE  /\ b[i] \in Int /\ SubSeq(b, last, i - 1) \in Seq(Int)
         /\ buf \o SubSeq(b, last, i) = (buf \o SubSeq(b, last, i - 1)) \o <<b[i]>>
<1> DEFINE run == SubSeq(b, last, i - 1)
           one == <<b[i]>>
<1>1. /\ Len(b) \in Nat /\ i \in 1..Len(b) /\ i - 1 \in Nat /\ i - 1 <= Len(b)
      /\ last \in 1..Len(b) /\ i \in last..Len(b)
  BY LenProperties
<1>2. b[i] \in Int /\ run \in Seq(Int)
  BY <1>1, ElementOfSeq, SlicesAre
<1>3. SubSeq(b, last, i) = run \o one
  BY <1>1, SubSeqRecursiveSecond
<1>4. one \in Seq(Int)
  BY <1>2
<1> HIDE DEF run, one
<1>5. buf \o (run \o one) = (buf \o run) \o one
  BY <1>2, <1>4, Regroup
<1> QED
  BY <1>2, <1>3, <1>5 DEF run, one

(* A byte that needs no escape goes to the pending run. *)
LEMMA ProgressClean ==
  ASSUME NEW b \in Seq(Int), NEW st, NEW out, Progress(b, st, out), st.i <= Len(b)
  PROVE  Progress(b, [st EXCEPT !.i = st.i + 1], out \o <<b[st.i]>>)
<1> DEFINE next == [st EXCEPT !.i = st.i + 1]
<1>0. st.i \in Nat \ {0} /\ st.last \in Nat \ {0} /\ st.last <= st.i
  BY DEF Progress
<1>1. st.buf \in Seq(Int) /\ out \in Seq(Int) /\ st.buf \o SubSeq(b, st.last, st.i - 1) = out
  BY DEF Progress
<1>2. b[st.i] \in Int /\ st.buf \o SubSeq(b, st.last, st.i) = out \o <<b[st.i]>>
  BY <1>0, <1>1, RunGrows
<1>3. out \o <<b[st.i]>> \in Seq(Int)
  BY <1>1, <1>2, ConcatProperties, <<b[st.i]>> \in Seq(Int)
<1>4. /\ next \in [i: Nat \ {0}, last: Nat \ {0}, buf: Seq(Int)]
      /\ next.i = st.i + 1 /\ next.last = st.last /\ next.buf = st.buf
  <2>1. st \in [i: Nat \ {0}, last: Nat \ {0}, buf: Seq(Int)]
    BY DEF Progress
  <2> DEFINE up == st.i + 1
  <2> HIDE DEF up
  <2>2. up \in Nat \ {0}
    BY <1>0 DEF up
  <2>3. [st EXCEPT !.i = up] \in [i: Nat \ {0}, last: Nat \ {0}, buf: Seq(Int)]
    BY <2>1, <2>2
  <2>4. /\ [st EXCEPT !.i = up].i = up /\ [st EXCEPT !.i = up].last = st.last
        /\ [st EXCEPT !.i = up].buf = st.buf
    BY <2>1, <2>2
  <2> QED
    BY <2>3, <2>4 DEF up
<1>5. next.i - 1 = st.i /\ next.last <= next.i
  <2> HIDE DEF next
  <2> QED
    BY <1>0, <1>4, SMTT(40)
<1> HIDE DEF next
<1> QED
  BY <1>2, <1>3, <1>4, <1>5 DEF Progress, next

(* An escape flushes the pending run, then follows it. *)
LEMMA ProgressFlush ==
  ASSUME NEW b \in Seq(Int), NEW st, NEW out, Progress(b, st, out), st.i <= Len(b),
         NEW n \in Nat \ {0}, NEW text \in Seq(Int)
  PROVE  Progress(b, Flush(b, st, n, text), out \o text)
<1> DEFINE next == Flush(b, st, n, text)
<1>1. st.i \in Nat \ {0} /\ out \in Seq(Int) /\ st.buf \o SubSeq(b, st.last, st.i - 1) = out
  BY DEF Progress
<1>2. out \o text \in Seq(Int)
  BY <1>1, ConcatProperties
<1>3. next = [i |-> st.i + n, last |-> st.i + n, buf |-> out \o text]
  BY <1>1 DEF Flush
<1>4. /\ next \in [i: Nat \ {0}, last: Nat \ {0}, buf: Seq(Int)]
      /\ next.i = st.i + n /\ next.last = st.i + n /\ next.buf = out \o text
  <2>1. st.i + n \in Nat \ {0}
    BY <1>1
  <2> HIDE DEF next
  <2> QED
    BY ONLY <1>2, <1>3, <2>1
<1>5. SubSeq(b, st.i + n, (st.i + n) - 1) = <<>> /\ st.i + n <= st.i + n
  <2> DEFINE first == st.i + n
             last == first - 1
  <2>1. first \in Int /\ last \in Int /\ last < first /\ first <= first
    BY <1>1
  <2> HIDE DEF first, last
  <2>2. SubSeq(b, first, last) = <<>>
    BY <2>1, SubSeqEmpty, Zenon
  <2> QED
    BY <2>1, <2>2 DEF first, last
<1>6. (out \o text) \o <<>> = out \o text
  BY <1>2, ConcatEmptySeq
<1> HIDE DEF next
<1> QED
  BY <1>2, <1>4, <1>5, <1>6 DEF Progress, next

Bytes(cps) == [j \in DOMAIN cps |-> Utf8(cps[j])]
Escapes(cps) == [j \in DOMAIN cps |-> EncodeAscii(cps[j])]

(* The bytes and the escapes of a string, character by character. *)
LEMMA PiecesAre ==
  ASSUME NEW cps \in Seq(CodePoint)
  PROVE  /\ Len(cps) \in Nat /\ \A j \in 1..Len(cps) : cps[j] \in CodePoint
         /\ Bytes(cps) \in Lists /\ Len(Bytes(cps)) = Len(cps)
         /\ Escapes(cps) \in Lists /\ Len(Escapes(cps)) = Len(cps)
         /\ \A j \in 1..Len(cps) : Bytes(cps)[j] = Utf8(cps[j]) /\ Escapes(cps)[j] = EncodeAscii(cps[j])
<1>1. Len(cps) \in Nat /\ DOMAIN cps = 1..Len(cps)
  BY LenProperties
<1>2. \A j \in 1..Len(cps) : cps[j] \in CodePoint
  BY ElementOfSeq
<1>3. \A j \in 1..Len(cps) : Utf8(cps[j]) \in Seq(Int) /\ EncodeAscii(cps[j]) \in Seq(Int)
  BY <1>2, Utf8Typed, EncodeTyped
<1>4. Bytes(cps) = [j \in 1..Len(cps) |-> Utf8(cps[j])] /\ Escapes(cps) = [j \in 1..Len(cps) |-> EncodeAscii(cps[j])]
  BY <1>1 DEF Bytes, Escapes
<1>5. Bytes(cps) \in Seq(Seq(Int)) /\ Len(Bytes(cps)) = Len(cps)
  BY <1>1, <1>3, <1>4
<1>6. Escapes(cps) \in Seq(Seq(Int)) /\ Len(Escapes(cps)) = Len(cps)
  BY <1>1, <1>3, <1>4
<1> QED
  BY <1>1, <1>2, <1>4, <1>5, <1>6 DEF Lists

(* The scan takes one character in one step and writes CPython's escape of it. *)
LEMMA ScanChar ==
  ASSUME NEW cps \in Seq(CodePoint), NEW n \in Nat, n < Len(cps),
         NEW b, b = Joined(Bytes(cps), Len(cps)),
         NEW st, st.i = Len(Joined(Bytes(cps), n)) + 1, NEW out, Progress(b, st, out)
  PROVE  /\ st.i <= Len(b)
         /\ Progress(b, EscapeByte(b, st), out \o EncodeAscii(cps[n + 1]))
         /\ EscapeByte(b, st).i = Len(Joined(Bytes(cps), n + 1)) + 1
<1> DEFINE cp == cps[n + 1]
           u == Bytes(cps)
           p == Len(Joined(u, n))
<1>1. cp \in CodePoint /\ u[n + 1] = Utf8(cp) /\ u \in Lists /\ Len(u) = Len(cps)
  BY PiecesAre
<1>2. /\ Len(Utf8(cp)) = Utf8Len(cp) /\ Utf8Len(cp) \in 1..4 /\ EncodeAscii(cp) \in Seq(Int)
  BY <1>1, Utf8Typed, EncodeTyped
<1> HIDE DEF u, cp
<1>3. /\ p \in Nat /\ Len(Joined(u, n + 1)) = p + Utf8Len(cp)
      /\ p + Utf8Len(cp) <= Len(b)
      /\ \A k \in 1..Utf8Len(cp) : b[p + k] = Utf8(cp)[k]
  <2>1. p = Len(Joined(u, n)) /\ b = Joined(u, Len(u)) /\ n < Len(u)
    BY <1>1 DEF u
  <2> HIDE DEF p
  <2>0. AtPlace(u, n)
    BY <1>1, <2>1, PlaceIs
  <2>2. /\ p \in Nat /\ Len(Joined(u, n + 1)) = p + Len(u[n + 1])
        /\ p + Len(u[n + 1]) <= Len(b)
        /\ \A k \in 1..Len(u[n + 1]) : b[p + k] = u[n + 1][k]
    BY ONLY <2>0, <2>1 DEF AtPlace
  <2>3. u[n + 1] = Utf8(cp) /\ Len(Utf8(cp)) = Utf8Len(cp)
    BY <1>1, <1>2
  <2> QED
    BY <2>2, <2>3
<1>4. b \in Seq(Int) /\ Len(b) \in Nat
  <2>1. Len(u) \in 0..Len(u)
    BY <1>1, ListsAre
  <2> QED
    BY <1>1, <2>1, JoinedTyped, LenProperties DEF u
<1>5. st.i = p + 1 /\ st.i \in Nat /\ st.i <= Len(b)
  BY <1>2, <1>3, <1>4, SMTT(40) DEF u
<1>6. b[st.i] = Utf8(cp)[1]
  BY <1>2, <1>3, <1>5
<1>7. cp >= 128 => CharAt(b, st.i) = cp
  <2> SUFFICES ASSUME cp >= 128  PROVE CharAt(b, st.i) = cp
    OBVIOUS
  <2>1. \A k \in 1..Utf8Len(cp) : b[st.i + (k - 1)] = Utf8(cp)[k]
    <3>1. \A k \in 1..Utf8Len(cp) : st.i + (k - 1) = p + k
      BY <1>2, <1>3, <1>5, SMTT(40)
    <3> QED
      BY <1>2, <1>3, <1>5, <3>1
  <2> QED
    BY <1>1, <1>5, <2>1, CharDecodes
<1>8. CASE /\ Utf8(cp)[1] = cp /\ Utf8Len(cp) = 1 /\ EncodeAscii(cp) = <<cp>>
           /\ EscapeByte(b, st) = [st EXCEPT !.i = st.i + 1]
  <2>1. Progress(b, EscapeByte(b, st), out \o <<b[st.i]>>)
    BY <1>4, <1>5, <1>8, ProgressClean, ZenonT(60)
  <2>2. EscapeByte(b, st).i = st.i + 1
    BY <1>8 DEF Progress
  <2>3. out \o <<b[st.i]>> = out \o EncodeAscii(cp)
    BY <1>6, <1>8
  <2>4. EscapeByte(b, st).i = Len(Joined(u, n + 1)) + 1
    BY <1>3, <1>5, <1>8, <2>2
  <2> QED
    BY <1>5, <2>1, <2>3, <2>4 DEF u, cp
<1>9. CASE EscapeByte(b, st) = Flush(b, st, Utf8Len(cp), EncodeAscii(cp))
  <2>1. Progress(b, EscapeByte(b, st), out \o EncodeAscii(cp))
    BY <1>2, <1>4, <1>5, <1>9, ProgressFlush
  <2>2. EscapeByte(b, st).i = st.i + Utf8Len(cp)
    BY <1>9 DEF Flush
  <2>3. EscapeByte(b, st).i = Len(Joined(u, n + 1)) + 1
    <3> HIDE DEF p
    <3>1. p \in Nat /\ Utf8Len(cp) \in Nat /\ Len(Joined(u, n + 1)) = p + Utf8Len(cp) /\ st.i = p + 1
      BY <1>2, <1>3, <1>5
    <3> QED
      BY <2>2, <3>1
  <2> QED
    BY <1>5, <2>1, <2>3 DEF u, cp
<1> QED
  BY <1>1, <1>5, <1>6, <1>7, <1>8, <1>9, EscapeChar

(* A char has a byte at least. *)
LEMMA EnoughBytes ==
  ASSUME NEW cps \in Seq(CodePoint)
  PROVE  \A n \in 0..Len(cps) : Len(Joined(Bytes(cps), n)) \in Nat /\ n <= Len(Joined(Bytes(cps), n))
<1> DEFINE u == Bytes(cps)
           T == {n \in Nat : n <= Len(cps) => Len(Joined(u, n)) \in Nat /\ n <= Len(Joined(u, n))}
<1>1. u \in Lists /\ Len(u) = Len(cps) /\ Len(cps) \in Nat
  BY PiecesAre
<1>2. 0 \in T
  BY <1>1, JoinedNext, Len(<<>>) = 0
<1>3. ASSUME NEW n \in Nat, n \in T  PROVE n + 1 \in T
  <2> SUFFICES ASSUME n + 1 <= Len(cps)
               PROVE  Len(Joined(u, n + 1)) \in Nat /\ n + 1 <= Len(Joined(u, n + 1))
    OBVIOUS
  <2>1. n < Len(u) /\ n + 1 \in 1..Len(cps)
    BY <1>1
  <2>2. Len(u[n + 1]) \in 1..4
    <3>1. u[n + 1] = Utf8(cps[n + 1]) /\ cps[n + 1] \in CodePoint
      BY <2>1, PiecesAre
    <3> QED
      BY <3>1, Utf8Typed
  <2> HIDE DEF u
  <2>3. Len(Joined(u, n)) \in Nat /\ n <= Len(Joined(u, n))
    BY <1>1, <1>3, <2>1
  <2>4. Len(Joined(u, n + 1)) = Len(Joined(u, n)) + Len(u[n + 1])
    BY <1>1, <2>1, PlaceIs DEF AtPlace
  <2> DEFINE p == Len(Joined(u, n))
             q == Len(Joined(u, n + 1))
             l == Len(u[n + 1])
  <2>5. p \in Nat /\ n <= p /\ q = p + l /\ l \in 1..4
    BY <2>2, <2>3, <2>4
  <2> HIDE DEF p, q, l
  <2>6. q \in Nat /\ n + 1 <= q
    BY <2>5
  <2> QED
    BY <2>6 DEF q
<1> HIDE DEF T
<1>4. Nat \subseteq T
  BY <1>2, <1>3, LevelInduction
<1> QED
  BY <1>1, <1>4 DEF T

(* After n steps the scan is behind the n-th character, with n escapes written. *)
LEMMA ScannedString ==
  ASSUME NEW cps \in Seq(CodePoint), NEW b, b = Joined(Bytes(cps), Len(cps))
  PROVE  \A n \in 0..Len(cps) :
           /\ Progress(b, Scanned(b, n), <<34>> \o Joined(Escapes(cps), n))
           /\ Scanned(b, n).i = Len(Joined(Bytes(cps), n)) + 1
<1> DEFINE u == Bytes(cps)
           e == Escapes(cps)
           quote == <<34>>
           Good(n) == /\ Progress(b, Scanned(b, n), quote \o Joined(e, n))
                      /\ Scanned(b, n).i = Len(Joined(u, n)) + 1
           T == {n \in Nat : n <= Len(cps) => Good(n)}
<1>1. u \in Lists /\ e \in Lists /\ Len(u) = Len(cps) /\ Len(e) = Len(cps) /\ Len(cps) \in Nat
  BY PiecesAre
<1>2. b \in Seq(Int) /\ b \in ByteStrings
  BY <1>1, JoinedTyped, Len(cps) \in 0..Len(cps) DEF ByteStrings
<1>3. quote \in Seq(Int)
  OBVIOUS
<1>4. 0 \in T
  <2>1. Scanned(b, 0) = Start /\ Joined(e, 0) = <<>> /\ Joined(u, 0) = <<>>
    BY <1>1, <1>2, ScannedNext, JoinedNext
  <2>2. SubSeq(b, 1, 1 - 1) = <<>>
    BY SubSeqEmpty
  <2>3. Start.buf \o <<>> = Start.buf /\ quote \o <<>> = quote
    BY <1>3, ConcatEmptySeq DEF Start
  <2>4. Progress(b, Start, quote)
    <3>1. /\ Start \in [i: Nat \ {0}, last: Nat \ {0}, buf: Seq(Int)]
          /\ Start.i = 1 /\ Start.last = 1 /\ Start.buf = quote
      BY DEF Start
    <3> HIDE DEF quote
    <3> QED
      BY <1>3, <2>2, <2>3, <3>1 DEF Progress
  <2>5. Start.i = Len(<<>>) + 1
    BY DEF Start
  <2> QED
    BY <2>1, <2>3, <2>4, <2>5
<1>5. ASSUME NEW n \in Nat, n \in T  PROVE n + 1 \in T
  <2> SUFFICES ASSUME n + 1 <= Len(cps)  PROVE Good(n + 1)
    OBVIOUS
  <2>1. n < Len(cps) /\ n + 1 \in 1..Len(cps) /\ n \in 0..Len(e)
    BY <1>1
  <2>2. Good(n)
    BY <1>1, <1>5, <2>1
  <2> DEFINE st == Scanned(b, n)
             out == quote \o Joined(e, n)
  <2>3. Progress(b, st, out) /\ st.i = Len(Joined(u, n)) + 1
    BY <2>2
  <2> HIDE DEF out, st
  <2>4. /\ st.i <= Len(b)
        /\ Progress(b, EscapeByte(b, st), out \o EncodeAscii(cps[n + 1]))
        /\ EscapeByte(b, st).i = Len(Joined(u, n + 1)) + 1
    BY <2>1, <2>3, ScanChar
  <2>5. Scanned(b, n + 1) = EscapeByte(b, st)
    <3>1. st.i \in Int /\ Len(b) \in Int
      BY <1>2, <2>3, LenProperties DEF Progress
    <3>2. ~(st.i > Len(b))
      BY <2>4, <3>1
    <3> QED
      BY <1>2, <3>2, ScannedNext DEF st
  <2>6. Joined(e, n + 1) = Joined(e, n) \o EncodeAscii(cps[n + 1])
    BY <1>1, <2>1, JoinedNext, PiecesAre
  <2>7. Joined(e, n) \in Seq(Int) /\ EncodeAscii(cps[n + 1]) \in Seq(Int)
    BY <1>1, <2>1, JoinedTyped, PiecesAre, EncodeTyped
  <2>8. out \o EncodeAscii(cps[n + 1]) = quote \o Joined(e, n + 1)
    <3> DEFINE part == Joined(e, n)
               text == EncodeAscii(cps[n + 1])
    <3>1. out = quote \o part /\ Joined(e, n + 1) = part \o text
      BY <2>6 DEF out
    <3>2. part \in Seq(Int) /\ text \in Seq(Int)
      BY <2>7
    <3> HIDE DEF quote, e, part, text
    <3>3. (quote \o part) \o text = quote \o (part \o text)
      BY <1>3, <3>2, Regroup
    <3> QED
      BY <3>1, <3>3 DEF text
  <2> QED
    BY <2>4, <2>5, <2>8
<1> HIDE DEF T
<1>6. Nat \subseteq T
  BY <1>4, <1>5, LevelInduction
<1> QED
  BY <1>1, <1>6 DEF T

(***************************************************************************)
(* json_escape_into writes what json.dumps does, of every string.          *)
(***************************************************************************)
THEOREM EscapeLikeCPython ==
  ASSUME NEW cps \in Seq(CodePoint)
  PROVE  JsonEscapeInto(FlattenSeq(Bytes(cps))) = <<34>> \o FlattenSeq(Escapes(cps)) \o <<34>>
<1> DEFINE N == Len(cps)
           b == Joined(Bytes(cps), N)
           st == Scanned(b, N)
           T == {d \in Nat : Scanned(b, N + d) = st}
<1>1. /\ Bytes(cps) \in Lists /\ Escapes(cps) \in Lists /\ N \in Nat
      /\ Len(Bytes(cps)) = N /\ Len(Escapes(cps)) = N
  BY PiecesAre
<1>2. FlattenSeq(Bytes(cps)) = b /\ FlattenSeq(Escapes(cps)) = Joined(Escapes(cps), N)
  BY <1>1, FlattenIs
<1>3. b \in Seq(Int) /\ b \in ByteStrings /\ Len(b) \in Nat /\ N <= Len(b)
  BY <1>1, JoinedTyped, EnoughBytes, N \in 0..N DEF ByteStrings
<1>4. /\ Progress(b, st, <<34>> \o Joined(Escapes(cps), N))
      /\ st.i = Len(b) + 1
  BY <1>1, ScannedString, N \in 0..N
<1> HIDE DEF N, b
<1>5. 0 \in T
  BY <1>1, N + 0 = N
<1>6. ASSUME NEW d \in Nat, d \in T  PROVE d + 1 \in T
  <2>1. Scanned(b, N + d) = st /\ st.i > Len(b) /\ N + d \in Nat
    BY <1>1, <1>3, <1>4, <1>6
  <2>2. Scanned(b, (N + d) + 1) = st
    BY <1>3, <2>1, ScannedNext
  <2> QED
    BY <1>1, <2>2, N + (d + 1) = (N + d) + 1
<1> HIDE DEF T
<1>7. Nat \subseteq T
  BY <1>5, <1>6, LevelInduction
<1>8. Scanned(b, Len(b)) = st
  <2>1. Len(b) - N \in Nat /\ N + (Len(b) - N) = Len(b)
    BY <1>1, <1>3
  <2> QED
    BY <1>7, <2>1 DEF T
<1> HIDE DEF st
<1>9. JsonEscapeInto(b) = st.buf \o SubSeq(b, st.last, Len(b)) \o <<34>>
  BY <1>3, <1>8, EscapeIsScanned DEF Finished
<1>10. st.buf \o SubSeq(b, st.last, Len(b)) = <<34>> \o Joined(Escapes(cps), N)
  BY <1>3, <1>4, (Len(b) + 1) - 1 = Len(b) DEF Progress
<1> QED
  BY <1>2, <1>9, <1>10

-----------------------------------------------------------------------------
(***************************************************************************)
(* The elements of src/dump/serializer.rs, for schemas and values of every *)
(* depth.                                                                  *)
(***************************************************************************)

ValuesStep(inner, n) == ValuesOf(inner)
FieldsStep(inner, n) == FieldsOf(inner)

VI == INSTANCE Iteration WITH Base <- {}, Step <- ValuesStep
FI == INSTANCE Iteration WITH Base <- {}, Step <- FieldsStep
SI == INSTANCE Iteration WITH Base <- <<>>, Step <- SerializeLevel
EI == INSTANCE Iteration WITH Base <- <<>>, Step <- ElementsLevel
WI == INSTANCE Iteration WITH Base <- <<>>, Step <- WritersLevel
DI == INSTANCE Iteration WITH Base <- [v \in Outputs |-> Raise], Step <- DumpsLevel
JI == INSTANCE Iteration WITH Base <- [v \in Outputs |-> Defer], Step <- WriteLevel

(* The equation of ValuesTo. *)
LEMMA ValuesUnfold ==
  /\ ValuesTo[0] = {}
  /\ \A n \in Nat : ValuesTo[n + 1] = ValuesOf(ValuesTo[n])
<1>1. ValuesTo = VI!Iter
  BY DEF ValuesTo, VI!Iter, ValuesStep
<1> QED
  BY <1>1, VI!Unfold DEF ValuesStep

(* The equation of FieldsTo. *)
LEMMA FieldsUnfold ==
  /\ FieldsTo[0] = {}
  /\ \A n \in Nat : FieldsTo[n + 1] = FieldsOf(FieldsTo[n])
<1>1. FieldsTo = FI!Iter
  BY DEF FieldsTo, FI!Iter, FieldsStep
<1> QED
  BY <1>1, FI!Unfold DEF FieldsStep

(* The equation of SerializeTo. *)
LEMMA SerializeUnfold ==
  /\ SerializeTo[0] = <<>>
  /\ \A n \in Nat : SerializeTo[n + 1] = SerializeLevel(SerializeTo[n], n + 1)
<1>1. SerializeTo = SI!Iter
  BY DEF SerializeTo, SI!Iter
<1> QED
  BY <1>1, SI!Unfold

(* The equation of Elements. *)
LEMMA ElementsUnfold ==
  /\ Elements[0] = <<>>
  /\ \A n \in Nat : Elements[n + 1] = ElementsLevel(Elements[n], n + 1)
<1>1. Elements = EI!Iter
  BY DEF Elements, EI!Iter
<1> QED
  BY <1>1, EI!Unfold

(* The equation of Writers. *)
LEMMA WritersUnfold ==
  /\ Writers[0] = <<>>
  /\ \A n \in Nat : Writers[n + 1] = WritersLevel(Writers[n], n + 1)
<1>1. Writers = WI!Iter
  BY DEF Writers, WI!Iter
<1> QED
  BY <1>1, WI!Unfold

(* The equation of DumpsTo. *)
LEMMA DumpsUnfold ==
  /\ DumpsTo[0] = [v \in Outputs |-> Raise]
  /\ \A n \in Nat : DumpsTo[n + 1] = DumpsLevel(DumpsTo[n], n + 1)
<1>1. DumpsTo = DI!Iter
  BY DEF DumpsTo, DI!Iter
<1> QED
  BY <1>1, DI!Unfold

(* The equation of WriteTo. *)
LEMMA WriteUnfold ==
  /\ WriteTo[0] = [v \in Outputs |-> Defer]
  /\ \A n \in Nat : WriteTo[n + 1] = WriteLevel(WriteTo[n], n + 1)
<1>1. WriteTo = JI!Iter
  BY DEF WriteTo, JI!Iter
<1> QED
  BY <1>1, JI!Unfold

-----------------------------------------------------------------------------
(* How values nest. *)
LEMMA ValueParts ==
  ASSUME NEW n \in Nat, NEW v \in ValuesTo[n]
  PROVE  /\ n # 0 /\ v.t \in STRING /\ v.a \in STRING /\ WellFormed(v)
         /\ v.c \in Seq(Entries(ValuesTo[n - 1]))
         /\ Len(v.c) \in Nat /\ DOMAIN v.c = 1..Len(v.c)
         /\ \A j \in DOMAIN v.c : v.c[j].k \in ValuesTo[n - 1] /\ v.c[j].v \in ValuesTo[n - 1]
         /\ v = [t |-> v.t, a |-> v.a, c |-> v.c]
<1>1. n # 0 /\ n - 1 \in Nat
  BY ValuesUnfold
<1>2. v \in ValuesOf(ValuesTo[n - 1])
  BY <1>1, ValuesUnfold, (n - 1) + 1 = n
<1>3. v.c \in Seq(Entries(ValuesTo[n - 1])) /\ WellFormed(v) /\ v \in [t: STRING, a: STRING, c: Seq(Entries(ValuesTo[n - 1]))]
  BY <1>2 DEF ValuesOf
<1>4. Len(v.c) \in Nat /\ DOMAIN v.c = 1..Len(v.c)
      /\ \A j \in DOMAIN v.c : v.c[j] \in Entries(ValuesTo[n - 1])
  BY <1>3
<1> QED
  BY <1>1, <1>3, <1>4 DEF Entries

(* A well-formed value around values of n levels has n + 1. *)
LEMMA ValueMade ==
  ASSUME NEW n \in Nat, NEW t \in STRING, NEW a \in STRING,
         NEW c \in Seq(Entries(ValuesTo[n])), WellFormed([t |-> t, a |-> a, c |-> c])
  PROVE  [t |-> t, a |-> a, c |-> c] \in ValuesTo[n + 1]
BY ValuesUnfold DEF ValuesOf

(* A value of n levels is one of n + 1. *)
LEMMA ValuesNext ==
  ASSUME NEW n \in Nat
  PROVE  ValuesTo[n] \subseteq ValuesTo[n + 1]
<1> DEFINE T == {m \in Nat : ValuesTo[m] \subseteq ValuesTo[m + 1]}
<1>1. 0 \in T
  BY ValuesUnfold
<1>2. ASSUME NEW m \in Nat, m \in T  PROVE m + 1 \in T
  <2> SUFFICES ASSUME NEW v \in ValuesTo[m + 1]  PROVE v \in ValuesTo[(m + 1) + 1]
    OBVIOUS
  <2>1. v.c \in Seq(Entries(ValuesTo[m]))
    BY ValueParts, m + 1 \in Nat, (m + 1) - 1 = m
  <2>2. ValuesTo[m] \subseteq ValuesTo[m + 1]
    BY <1>2
  <2>3. Entries(ValuesTo[m]) \subseteq Entries(ValuesTo[m + 1])
    BY <2>2 DEF Entries
  <2>4. v.c \in Seq(Entries(ValuesTo[m + 1]))
    BY <2>1, <2>3
  <2>5. v.t \in STRING /\ v.a \in STRING /\ WellFormed(v) /\ v = [t |-> v.t, a |-> v.a, c |-> v.c]
    BY ValueParts, m + 1 \in Nat
  <2> QED
    BY <2>4, <2>5, ValueMade, m + 1 \in Nat
<1> HIDE DEF T
<1>3. Nat \subseteq T
  BY <1>1, <1>2, LevelInduction
<1> QED
  BY <1>3 DEF T

(* A value of few levels is one of more. *)
LEMMA ValuesGrow ==
  ASSUME NEW m \in Nat, NEW n \in Nat, m <= n
  PROVE  ValuesTo[m] \subseteq ValuesTo[n]
<1> DEFINE T == {d \in Nat : ValuesTo[m] \subseteq ValuesTo[m + d]}
<1>1. 0 \in T
  BY m + 0 = m
<1>2. ASSUME NEW d \in Nat, d \in T  PROVE d + 1 \in T
  BY <1>2, ValuesNext, m + d \in Nat, (m + d) + 1 = m + (d + 1)
<1> HIDE DEF T
<1>3. Nat \subseteq T
  BY <1>1, <1>2, LevelInduction
<1>4. n - m \in T /\ m + (n - m) = n
  BY <1>3
<1> QED
  BY <1>4 DEF T

(* A value without entries has one level. *)
LEMMA ScalarMade ==
  ASSUME NEW n \in Nat \ {0}, NEW t \in STRING, NEW a \in STRING,
         t \notin {"enum", "datetime", "date", "time"}
  PROVE  Val(t, a) \in ValuesTo[n]
<1>1. <<>> \in Seq(Entries(ValuesTo[n - 1]))
  OBVIOUS
<1> QED
  BY <1>1, ValueMade, n - 1 \in Nat, (n - 1) + 1 = n DEF Val, WellFormed, DateLike, Atomic

(* A container nests one level deeper than its entries. *)
LEMMA ContainerMade ==
  ASSUME NEW n \in Nat, NEW t \in {"list", "tuple", "dict", "ordered", "iter"},
         NEW c \in Seq(Entries(ValuesTo[n]))
  PROVE  Container(t, c) \in ValuesTo[n + 1]
BY ValueMade, WordsAssumption DEF Words, Container, WellFormed, DateLike, Atomic

(* A list nests one level deeper than its items. *)
LEMMA ListMade ==
  ASSUME NEW n \in Nat \ {0}, NEW t \in {"list", "tuple", "iter"}, NEW vals, NEW l \in Nat,
         DOMAIN vals = 1..l, \A j \in 1..l : vals[j] \in ValuesTo[n]
  PROVE  ListOf(t, vals) \in ValuesTo[n + 1]
<1> DEFINE c == [j \in DOMAIN vals |-> Entry(Unkeyed, vals[j])]
<1>1. Unkeyed \in ValuesTo[n]
  BY ScalarMade, WordsAssumption DEF Unkeyed, Words
<1>2. \A j \in 1..l : c[j] \in Entries(ValuesTo[n])
  BY <1>1 DEF Entry, Entries
<1>3. c \in Seq(Entries(ValuesTo[n]))
  BY <1>2
<1> QED
  BY <1>3, ContainerMade DEF ListOf

(* None, and what stands for a missing value, are values. *)
LEMMA NoneIsValue ==
  ASSUME NEW n \in Nat \ {0}
  PROVE  NoneVal \in ValuesTo[n] /\ Missing \in ValuesTo[n] /\ Got \in ValuesTo[n]
BY ScalarMade, WordsAssumption DEF NoneVal, Missing, Got, Words

-----------------------------------------------------------------------------
(* What stops a sequence of outcomes first. *)
LEMMA FirstFound ==
  ASSUME NEW n \in Nat, NEW outs, DOMAIN outs = 1..n, NEW kinds, Some(outs, kinds)
  PROVE  \E k \in 1..n : /\ FirstIn(outs, kinds) = outs[k] /\ outs[k].o \in kinds
                         /\ \A l \in 1..k - 1 : outs[l].o \notin kinds
<1> DEFINE T == {k \in 1..n : outs[k].o \in kinds}
           First(k) == outs[k].o \in kinds /\ \A l \in 1..k - 1 : outs[l].o \notin kinds
<1>1. T \in SUBSET Nat /\ T # {}
  BY DEF Some
<1>2. PICK k \in T : \A m \in T : k <= m
  BY <1>1, VI!LeastNat
<1>3. k \in DOMAIN outs /\ First(k)
  BY <1>2
<1>4. FirstIn(outs, kinds) = outs[CHOOSE j \in DOMAIN outs : First(j)]
  BY DEF FirstIn
<1> HIDE DEF First, T
<1>5. (CHOOSE j \in DOMAIN outs : First(j)) \in DOMAIN outs /\ First(CHOOSE j \in DOMAIN outs : First(j))
  BY <1>3
<1> QED
  BY <1>4, <1>5 DEF First

(* Numbers can be put in order. *)
LEMMA InOrderMade ==
  ASSUME NEW n \in Nat, NEW K \in SUBSET (1..n)
  PROVE  /\ Cardinality(K) \in Nat /\ InOrder(K) \in [1..Cardinality(K) -> K]
         /\ \A k \in K : \E i \in 1..Cardinality(K) : InOrder(K)[i] = k
<1> DEFINE Increases(s) == \A i, j \in DOMAIN s : i < j => s[i] < s[j]
           Orders(s, L) == s \in [1..Cardinality(L) -> L] /\ Increases(s)
           T == {m \in Nat : \A L \in SUBSET (1..m) : IsFiniteSet(L) /\ Cardinality(L) \in Nat /\ \E s : Orders(s, L)}
<1>1. 0 \in T
  <2>1. \A L \in SUBSET (1..0) : L = {}
    OBVIOUS
  <2>2. Cardinality({}) = 0 /\ IsFiniteSet({})
    BY FS_EmptySet
  <2>3. <<>> \in [1..0 -> {}] /\ Increases(<<>>)
    OBVIOUS
  <2>4. Orders(<<>>, {})
    BY <2>2, <2>3
  <2> HIDE DEF Orders
  <2>5. \A L \in SUBSET (1..0) : IsFiniteSet(L) /\ Cardinality(L) \in Nat /\ \E s : Orders(s, L)
    <3> SUFFICES ASSUME NEW L \in SUBSET (1..0)
                 PROVE  IsFiniteSet(L) /\ Cardinality(L) \in Nat /\ \E s : Orders(s, L)
      OBVIOUS
    <3>1. L = {}
      BY <2>1
    <3> QED
      BY <2>2, <2>4, <3>1
  <2> QED
    BY <2>5
<1>2. ASSUME NEW m \in Nat, m \in T  PROVE m + 1 \in T
  <2> SUFFICES ASSUME NEW L \in SUBSET (1..m + 1)
               PROVE  IsFiniteSet(L) /\ Cardinality(L) \in Nat /\ \E s : Orders(s, L)
    OBVIOUS
  <2>1. CASE m + 1 \notin L
    <3>1. L \in SUBSET (1..m)
      BY <2>1
    <3> QED
      BY <1>2, <3>1
  <2>2. CASE m + 1 \in L
    <3> DEFINE B == L \ {m + 1}
               c == Cardinality(B)
    <3>1. B \in SUBSET (1..m) /\ L = B \cup {m + 1} /\ m + 1 \notin B
      BY <2>2
    <3>2. IsFiniteSet(B) /\ c \in Nat
      BY <1>2, <3>1
    <3>3. PICK s : Orders(s, B)
      BY <1>2, <3>1
    <3>4. IsFiniteSet(L) /\ Cardinality(L) = c + 1
      BY <3>1, <3>2, FS_AddElement
    <3> DEFINE t == [i \in 1..c + 1 |-> IF i = c + 1 THEN m + 1 ELSE s[i]]
    <3> HIDE DEF c
    <3>5. \A i \in 1..c : s[i] \in B /\ s[i] < m + 1
      <4> SUFFICES ASSUME NEW i \in 1..c  PROVE s[i] \in B /\ s[i] < m + 1
        OBVIOUS
      <4>1. s \in [1..c -> B]
        BY <3>3 DEF c
      <4> HIDE DEF B
      <4>2. s[i] \in B
        BY <4>1
      <4>3. s[i] \in 1..m
        BY <3>1, <4>2
      <4> QED
        BY <4>2, <4>3
    <3>6. t \in [1..c + 1 -> L]
      BY <2>2, <3>2, <3>5
    <3>7. ASSUME NEW i \in 1..c + 1, NEW j \in 1..c + 1, i < j  PROVE t[i] < t[j]
      <4>1. i \in 1..c /\ (j = c + 1 \/ j \in 1..c)
        BY <3>2, <3>7
      <4>2. i \in DOMAIN s /\ (j \in 1..c => j \in DOMAIN s)
        BY <3>3, <4>1 DEF c
      <4>3. j \in 1..c => s[i] < s[j]
        BY <3>3, <3>7, <4>2
      <4> QED
        BY <3>2, <3>5, <4>1, <4>3
    <3>8. Orders(t, L)
      BY <3>4, <3>6, <3>7
    <3> HIDE DEF Orders, t
    <3> QED
      BY <3>2, <3>4, <3>8
  <2> QED
    BY <2>1, <2>2
<1> HIDE DEF T
<1>3. n \in T
  BY <1>1, <1>2, LevelInduction
<1>4. IsFiniteSet(K) /\ Cardinality(K) \in Nat /\ \E s \in [1..Cardinality(K) -> K] : Increases(s)
  BY <1>3 DEF T
<1>5. InOrder(K) = CHOOSE s \in [1..Cardinality(K) -> K] : Increases(s)
  BY DEF InOrder
<1> DEFINE c == Cardinality(K)
           o == InOrder(K)
<1> HIDE DEF c, o
<1>6. c \in Nat /\ o \in [1..c -> K] /\ Increases(o)
  BY <1>4, <1>5 DEF c, o
<1>7. \A i, j \in 1..c : o[i] = o[j] => i = j
  <2> SUFFICES ASSUME NEW i \in 1..c, NEW j \in 1..c, o[i] = o[j]  PROVE i = j
    OBVIOUS
  <2>1. i \in DOMAIN o /\ j \in DOMAIN o /\ o[i] \in K
    BY <1>6
  <2>2. (i < j => o[i] < o[j]) /\ (j < i => o[j] < o[i])
    BY <1>6, <2>1
  <2>3. o[i] \in 1..n
    BY <2>1
  <2> QED
    BY <2>2, <2>3
<1> HIDE DEF Increases
<1>8. o \in Injection(1..c, K)
  <2>1. o \in [1..c -> K]
    BY <1>6
  <2> QED
    BY <1>7, <2>1 DEF Injection, IsInjective
<1>9. Cardinality(1..c) = Cardinality(K)
  BY <1>6, FS_Interval DEF c
<1>10. o \in Surjection(1..c, K)
  BY <1>4, <1>8, <1>9, FS_Injection
<1> QED
  BY <1>6, <1>10 DEF Surjection, c, o

(* The last of numbers. *)
LEMMA GreatestNat ==
  ASSUME NEW n \in Nat, NEW K \in SUBSET (1..n), K # {}
  PROVE  \E k \in K : \A j \in K : j <= k
<1> DEFINE T == {n - k : k \in K}
<1>0. T \in SUBSET Nat /\ T # {}
  <2>1. \A k \in K : n - k \in Nat
    OBVIOUS
  <2>2. PICK k \in K : TRUE
    OBVIOUS
  <2>3. n - k \in T
    OBVIOUS
  <2> QED
    BY <2>1, <2>3
<1>1. PICK m \in T : \A l \in T : m <= l
  BY <1>0, VI!LeastNat
<1>2. PICK k \in K : m = n - k
  BY <1>1
<1>3. \A j \in K : n - k <= n - j
  BY <1>1, <1>2
<1>4. \A j \in K : j <= k
  <2> SUFFICES ASSUME NEW j \in K  PROVE j <= k
    OBVIOUS
  <2>1. n - k <= n - j /\ j \in Nat /\ k \in Nat
    BY <1>3
  <2> QED
    BY <2>1
<1> QED
  BY <1>4

(* The last of a set of positions is one of them. *)
LEMMA LastMade ==
  ASSUME NEW n \in Nat, NEW K \in SUBSET (1..n), K # {}
  PROVE  LastOf(K) \in K
<1> DEFINE Final(k) == \A j \in K : j <= k
<1>1. \E k \in K : Final(k)
  BY GreatestNat
<1>2. LastOf(K) = CHOOSE k \in K : Final(k)
  BY DEF LastOf
<1> HIDE DEF Final
<1> QED
  BY <1>1, <1>2

-----------------------------------------------------------------------------
(* An outcome of the core is marshmallow's, or leaves it to marshmallow. *)
Agrees(core, stock) == core = Defer \/ core = stock

(* Of the outcomes that stop a call marshmallow has one. *)
Settled(out) == out = Raise \/ out.o \notin Stops

(* The core's outcomes, up to the first that stops it, against marshmallow's. *)
LEMMA OutsAgree ==
  ASSUME NEW n \in Nat, NEW mine, NEW theirs, DOMAIN mine = 1..n, DOMAIN theirs = 1..n,
         mine = [j \in 1..n |-> mine[j]], theirs = [j \in 1..n |-> theirs[j]],
         \A j \in 1..n : Agrees(mine[j], theirs[j]) /\ Settled(theirs[j])
  PROVE  \/ ~Some(mine, Stops) /\ mine = theirs
         \/ Some(mine, Stops) /\ FirstIn(mine, Stops) = Defer
         \/ /\ Some(mine, Stops) /\ FirstIn(mine, Stops) = Raise
            /\ Some(theirs, Stops) /\ FirstIn(theirs, Stops) = Raise
<1>1. CASE ~Some(mine, Stops)
  <2>1. \A j \in 1..n : mine[j] = theirs[j]
    BY <1>1 DEF Some, Stops, Agrees, Defer
  <2> QED
    BY <1>1, <2>1
<1>2. CASE Some(mine, Stops)
  <2>1. PICK k \in 1..n : FirstIn(mine, Stops) = mine[k] /\ mine[k].o \in Stops
    BY <1>2, FirstFound
  <2>2. mine[k] = Defer \/ (mine[k] = Raise /\ theirs[k] = Raise)
    BY <2>1 DEF Agrees, Settled
  <2>3. CASE theirs[k] = Raise
    <3>1. Some(theirs, Stops)
      BY <2>3 DEF Some, Stops, Raise
    <3>2. FirstIn(theirs, Stops) = Raise
      BY <3>1, FirstFound DEF Settled
    <3> QED
      BY <1>2, <2>1, <2>2, <3>1, <3>2
  <2> QED
    BY <1>2, <2>1, <2>2, <2>3
<1> QED
  BY <1>1, <1>2

-----------------------------------------------------------------------------
(* How fields nest. *)
LEMMA FieldParts ==
  ASSUME NEW n \in Nat, NEW f \in FieldsTo[n]
  PROVE  /\ n # 0 /\ n - 1 \in Nat
         /\ f.kind \in Kinds /\ f.opts \in SUBSET STRING
         /\ f.inner \in Seq(FieldsTo[n - 1]) /\ f.name \in ValuesTo[1] /\ f.default \in Values
         /\ Len(f.inner) \in Nat /\ DOMAIN f.inner = 1..Len(f.inner)
         /\ \A j \in DOMAIN f.inner : f.inner[j] \in FieldsTo[n - 1]
         /\ Furnished(f)
<1>1. n # 0 /\ n - 1 \in Nat
  BY FieldsUnfold
<1>2. f \in FieldsOf(FieldsTo[n - 1])
  BY <1>1, FieldsUnfold, (n - 1) + 1 = n
<1>3. f.kind \in Kinds /\ f.opts \in SUBSET STRING /\ f.inner \in Seq(FieldsTo[n - 1])
      /\ f.name \in ValuesTo[1] /\ f.default \in Values /\ Furnished(f)
  BY <1>2 DEF FieldsOf
<1> QED
  BY <1>1, <1>3

(* The parts of a value a field is given are such values. *)
LEMMA Parts ==
  ASSUME NEW v \in Values
  PROVE  /\ v.t \in STRING /\ v.a \in STRING /\ WellFormed(v)
         /\ Len(v.c) \in Nat /\ DOMAIN v.c = 1..Len(v.c)
         /\ ValueDepth - 1 \in Nat /\ ValueDepth \in Nat \ {0} /\ ValuesTo[ValueDepth - 1] \subseteq Values
         /\ v.c \in Seq(Entries(ValuesTo[ValueDepth - 1]))
         /\ \A j \in DOMAIN v.c : v.c[j].k \in ValuesTo[ValueDepth - 1] /\ v.c[j].v \in ValuesTo[ValueDepth - 1]
         /\ DOMAIN Each(v) = DOMAIN v.c
         /\ \A j \in DOMAIN v.c : Each(v)[j] \in ValuesTo[ValueDepth - 1]
         /\ \A j \in DOMAIN v.c : v.c[j].k \in Values /\ v.c[j].v \in Values /\ Each(v)[j] \in Values
<1>1. ValueDepth \in Nat \ {0}
  BY SerializeAssumption
<1>2. ValueDepth - 1 \in Nat /\ ValuesTo[ValueDepth - 1] \subseteq Values
  BY <1>1, ValuesGrow DEF Values
<1>3. /\ v.t \in STRING /\ v.a \in STRING /\ WellFormed(v)
      /\ v.c \in Seq(Entries(ValuesTo[ValueDepth - 1]))
      /\ Len(v.c) \in Nat /\ DOMAIN v.c = 1..Len(v.c)
      /\ \A j \in DOMAIN v.c : v.c[j].k \in ValuesTo[ValueDepth - 1] /\ v.c[j].v \in ValuesTo[ValueDepth - 1]
  BY <1>1, ValueParts DEF Values
<1>4. DOMAIN Each(v) = DOMAIN v.c /\ \A j \in DOMAIN v.c : Each(v)[j] = v.c[j].k \/ Each(v)[j] = v.c[j].v
  BY DEF Each, Items
<1> QED
  BY <1>1, <1>2, <1>3, <1>4

(* The item of a key that is there is the value of an entry with it. *)
LEMMA GetItemMade ==
  ASSUME NEW n \in Nat, NEW v \in ValuesTo[n], NEW key, HasKey(v.c, key)
  PROVE  \E j \in DOMAIN v.c : GetItem(v.c, key) = v.c[j].v /\ PyEq(v.c[j].k, key)
<1> DEFINE K == {j \in DOMAIN v.c : PyEq(v.c[j].k, key)}
           Final(j) == PyEq(v.c[j].k, key) /\ \A l \in DOMAIN v.c : PyEq(v.c[l].k, key) => l <= j
<1>1. K \in SUBSET (1..Len(v.c)) /\ Len(v.c) \in Nat /\ K # {}
  BY ValueParts DEF HasKey
<1>2. PICK j \in K : \A l \in K : l <= j
  BY <1>1, GreatestNat
<1>3. j \in DOMAIN v.c /\ Final(j)
  BY <1>2
<1>4. GetItem(v.c, key) = v.c[CHOOSE l \in DOMAIN v.c : Final(l)].v
  BY DEF GetItem
<1>5. \A l : Final(l) => PyEq(v.c[l].k, key)
  OBVIOUS
<1> HIDE DEF Final, K
<1> QED
  BY <1>3, <1>4, <1>5

-----------------------------------------------------------------------------
(* An outcome with a value of n levels. *)
Made(r, n) == r = Raise \/ (r = Ok(r.v) /\ r.v \in ValuesTo[n])

(* What a field made is no deferral. *)
LEMMA MadeSettled ==
  ASSUME NEW r, NEW n, Made(r, n)
  PROVE  Settled(r)
BY DEF Made, Settled, Stops, Raise, Ok

(* What a field made is a value or an exception. *)
LEMMA MadeOk ==
  ASSUME NEW r, NEW n, Made(r, n)
  PROVE  r = Raise \/ r.o = "ok"
BY DEF Made, Ok

(* What is made in few levels is made in more. *)
LEMMA MadeGrow ==
  ASSUME NEW m \in Nat, NEW n \in Nat, m <= n, NEW r, Made(r, m)
  PROVE  Made(r, n)
BY ValuesGrow DEF Made

(* Outcomes marshmallow may have stop at an exception. *)
LEMMA RaisesFirst ==
  ASSUME NEW n \in Nat, NEW outs, DOMAIN outs = 1..n, \A j \in 1..n : Settled(outs[j]), Some(outs, Stops)
  PROVE  FirstIn(outs, Stops) = Raise
BY FirstFound DEF Settled

(* A list of what was made is made, one level deeper. *)
LEMMA CollectedMade ==
  ASSUME NEW n \in Nat \ {0}, NEW type \in {"list", "tuple"}, NEW l \in Nat, NEW outs,
         DOMAIN outs = 1..l, \A j \in 1..l : Made(outs[j], n)
  PROVE  Made(Collected(type, outs), n + 1)
<1>1. CASE Some(outs, Stops)
  BY <1>1, MadeSettled, RaisesFirst DEF Collected, Made
<1>2. CASE ~Some(outs, Stops)
  <2>1. DOMAIN Vals(outs) = 1..l /\ \A j \in 1..l : Vals(outs)[j] \in ValuesTo[n]
    BY <1>2 DEF Vals, Made, Some, Raise, Stops
  <2>2. ListOf(type, Vals(outs)) \in ValuesTo[n + 1]
    BY <2>1, ListMade
  <2> QED
    BY <1>2, <2>2 DEF Collected, Made, Ok
<1> QED
  BY <1>1, <1>2

(* A comprehension over what was made is made, one level deeper. *)
LEMMA ComprehensionMade ==
  ASSUME NEW n \in Nat \ {0}, NEW v, NEW l \in Nat, NEW outs,
         DOMAIN outs = 1..l, \A j \in 1..l : Made(outs[j], n)
  PROVE  Made(Comprehension(v, outs), n + 1)
BY CollectedMade, SMTT(40) DEF Comprehension, Made

(* K numbers the outcomes that are values. *)
Numbers(K, l, outs) ==
  \E m \in Nat : /\ K \in [1..m -> {j \in 1..l : outs[j].o = "ok"}]
                 /\ \A j \in 1..l : outs[j].o = "ok" => \E i \in 1..m : K[i] = j

(* The fields that were not skipped are numbered in order. *)
LEMMA KeptMade ==
  ASSUME NEW l \in Nat, NEW outs, DOMAIN outs = 1..l
  PROVE  Numbers(Kept(outs), l, outs)
BY InOrderMade, ZenonT(60) DEF Kept, Numbers

(* A record of what was made is made, one level deeper. *)
LEMMA RecordMade ==
  ASSUME NEW n \in Nat \ {0}, NEW type \in {"dict", "ordered"}, NEW l \in Nat, NEW keys, NEW outs,
         DOMAIN keys = 1..l, DOMAIN outs = 1..l, \A j \in 1..l : keys[j] \in ValuesTo[n],
         \A j \in 1..l : Made(outs[j], n) \/ outs[j] = Skip
  PROVE  Made(RecordOf(type, keys, outs), n + 1)
<1>1. CASE Some(outs, Stops)
  <2>1. \A j \in 1..l : Settled(outs[j])
    BY MadeSettled DEF Settled, Skip, Stops
  <2> QED
    BY <1>1, <2>1, RaisesFirst DEF RecordOf, Made
<1>2. CASE ~Some(outs, Stops)
  <2>1. PICK m \in Nat : Kept(outs) \in [1..m -> {j \in 1..l : outs[j].o = "ok"}]
    BY KeptMade DEF Numbers
  <2> DEFINE c == [i \in DOMAIN Kept(outs) |-> Entry(keys[Kept(outs)[i]], outs[Kept(outs)[i]].v)]
  <2>2. \A i \in 1..m : Entry(keys[Kept(outs)[i]], outs[Kept(outs)[i]].v) \in Entries(ValuesTo[n])
    <3> SUFFICES ASSUME NEW i \in 1..m
                 PROVE  Entry(keys[Kept(outs)[i]], outs[Kept(outs)[i]].v) \in Entries(ValuesTo[n])
      OBVIOUS
    <3>1. Kept(outs)[i] \in 1..l /\ outs[Kept(outs)[i]].o = "ok"
      BY <2>1
    <3>2. outs[Kept(outs)[i]].v \in ValuesTo[n]
      BY <3>1 DEF Made, Skip, Raise
    <3> QED
      BY <3>1, <3>2 DEF Entry, Entries
  <2>3. c \in Seq(Entries(ValuesTo[n]))
    BY <2>1, <2>2
  <2>4. KeptRecord(type, keys, outs) \in ValuesTo[n + 1]
    BY <2>3, ContainerMade DEF KeptRecord
  <2> QED
    BY <1>2, <2>4 DEF RecordOf, Made, Ok
<1> QED
  BY <1>1, <1>2

-----------------------------------------------------------------------------
(* What marshmallow's serializers make of a value. *)
LEMMA CallMade ==
  ASSUME NEW fn \in ConvertingCalls, NEW v \in Values
  PROVE  Made(Call(fn, v), ValueDepth)
<1>1. CASE \E row \in Results[fn] : row[1] = v
  <2>1. (CHOOSE row \in Results[fn] : row[1] = v)[2] \in Values
    BY <1>1, SerializeAssumption
  <2> QED
    BY <1>1, <2>1 DEF Call, Made, Ok, Values
<1>2. CASE ~\E row \in Results[fn] : row[1] = v
  BY <1>2 DEF Call, Made, Ok, Values
<1> QED
  BY <1>1, <1>2

(* str of a value is a value. *)
LEMMA StrMade ==
  ASSUME NEW n \in Nat, NEW v \in ValuesTo[n]
  PROVE  Str(v) \in ValuesTo[n] /\ Ok(Str(v)) = Ok(Ok(Str(v)).v)
<1>1. v.a \in STRING /\ n \in Nat \ {0}
  BY ValueParts
<1>2. Str(v) \in ValuesTo[n]
  BY <1>1, ScalarMade, WordsAssumption DEF Str, Words
<1> QED
  BY <1>2 DEF Ok

(* as_string makes a value of a value. *)
LEMMA AsStringMade ==
  ASSUME NEW n \in Nat, NEW f, NEW r, Made(r, n)
  PROVE  Made(AsString(f, r), n)
<1>1. CASE r = Raise
  BY <1>1 DEF AsString, Made, Raise
<1>2. CASE r # Raise
  BY <1>2, StrMade DEF AsString, Made, Ok
<1> QED
  BY <1>1, <1>2

(* A dict assigned entry by entry is made, one level deeper. *)
LEMMA AssignedMade ==
  ASSUME NEW n \in Nat, NEW l \in Nat, NEW keys, NEW vals, DOMAIN keys = 1..l, DOMAIN vals = 1..l,
         \A j \in 1..l : keys[j] \in ValuesTo[n] /\ vals[j] \in ValuesTo[n]
  PROVE  Made(Assigned(keys, vals), n + 1)
<1> DEFINE K == {j \in DOMAIN keys : \A i \in Same(keys, j) : j <= i}
           firsts == InOrder(K)
           c == [i \in DOMAIN firsts |-> Entry(keys[firsts[i]], vals[LastOf(Same(keys, firsts[i]))])]
<1>1. K \in SUBSET (1..l)
  OBVIOUS
<1> HIDE DEF K
<1>2. Cardinality(K) \in Nat /\ firsts \in [1..Cardinality(K) -> K]
  BY <1>1, InOrderMade
<1> HIDE DEF firsts
<1>3. ASSUME NEW i \in DOMAIN firsts
      PROVE  Entry(keys[firsts[i]], vals[LastOf(Same(keys, firsts[i]))]) \in Entries(ValuesTo[n])
  <2>1. firsts[i] \in 1..l
    BY <1>1, <1>2, <1>3
  <2>2. Same(keys, firsts[i]) \in SUBSET (1..l) /\ firsts[i] \in Same(keys, firsts[i])
    BY <2>1 DEF Same
  <2>3. LastOf(Same(keys, firsts[i])) \in 1..l
    BY <2>2, LastMade
  <2> QED
    BY <2>1, <2>3 DEF Entry, Entries
<1>4. c \in Seq(Entries(ValuesTo[n]))
  BY <1>2, <1>3
<1>5. DictOf(c) \in ValuesTo[n + 1]
  BY <1>4, ContainerMade DEF DictOf
<1>6. Assigned(keys, vals) = Raise \/ Assigned(keys, vals) = Ok(DictOf(c))
  BY DEF Assigned, K, firsts
<1> QED
  BY <1>5, <1>6 DEF Made, Ok

(* dict(value) nests no deeper than the value. *)
LEMMA DictCallMade ==
  ASSUME NEW v \in Values
  PROVE  Made(DictCall(v), ValueDepth)
<1> DEFINE n == ValueDepth - 1
<1>1. /\ n \in Nat /\ n + 1 = ValueDepth /\ v.c \in Seq(Entries(ValuesTo[n])) /\ Len(v.c) \in Nat
      /\ DOMAIN v.c = 1..Len(v.c) /\ \A j \in DOMAIN v.c : v.c[j].v \in ValuesTo[n]
  BY Parts
<1>2. CASE Mapping(v)
  <2>1. DictOf(v.c) \in ValuesTo[ValueDepth]
    BY <1>1, ContainerMade, SMTT(40) DEF DictOf
  <2> QED
    BY <1>2, <2>1 DEF DictCall, Made, Ok
<1>3. CASE ~Mapping(v) /\ (~Iterable(v) \/ \E j \in DOMAIN v.c : ~Pair(v.c[j].v))
  BY <1>3, SMTT(40) DEF DictCall, Made
<1>4. CASE ~Mapping(v) /\ Iterable(v) /\ \A j \in DOMAIN v.c : Pair(v.c[j].v)
  <2> DEFINE keys == [j \in DOMAIN v.c |-> v.c[j].v.c[1].v]
             vals == [j \in DOMAIN v.c |-> v.c[j].v.c[2].v]
  <2>1. ASSUME NEW j \in 1..Len(v.c)  PROVE keys[j] \in ValuesTo[n] /\ vals[j] \in ValuesTo[n]
    <3>1. v.c[j].v \in ValuesTo[n] /\ Len(v.c[j].v.c) = 2
      BY <1>1, <1>4 DEF Pair
    <3> DEFINE w == v.c[j].v
    <3> HIDE DEF w, n
    <3>2. w \in ValuesTo[n] /\ Len(w.c) = 2
      BY <3>1 DEF w
    <3>3. n # 0 /\ n - 1 \in Nat /\ DOMAIN w.c = 1..2 /\ \A i \in DOMAIN w.c : w.c[i].v \in ValuesTo[n - 1]
      BY <1>1, <3>2, ValueParts
    <3>4. w.c[1].v \in ValuesTo[n - 1] /\ w.c[2].v \in ValuesTo[n - 1]
      BY <3>3
    <3>5. keys[j] = w.c[1].v /\ vals[j] = w.c[2].v
      BY <1>1 DEF w
    <3> QED
      BY <1>1, <3>3, <3>4, <3>5, ValuesGrow, n - 1 <= n, SMTT(40)
  <2> HIDE DEF n
  <2>2. Made(Assigned(keys, vals), n + 1)
    BY <1>1, <2>1, AssignedMade
  <2> QED
    BY <1>1, <1>4, <2>2, SMTT(40) DEF DictCall
<1> QED
  BY <1>2, <1>3, <1>4

(* What is read of a record nests less deep than the record. *)
LEMMA GetValueMade ==
  ASSUME NEW n \in Nat \ {0}, NEW obj \in ValuesTo[n + 1], NEW name
  PROVE  Made(GetValue(obj, name), n)
<1>1. CASE HasKey(obj.c, name)
  <2>1. PICK j \in DOMAIN obj.c : GetItem(obj.c, name) = obj.c[j].v
    BY <1>1, GetItemMade, n + 1 \in Nat
  <2>2. GetItem(obj.c, name) \in ValuesTo[n]
    BY <2>1, ValueParts, n + 1 \in Nat, (n + 1) - 1 = n
  <2> QED
    BY <1>1, <2>2 DEF GetValue, Made, Ok
<1>2. CASE ~HasKey(obj.c, name)
  BY <1>2, NoneIsValue DEF GetValue, Made, Ok
<1> QED
  BY <1>1, <1>2

(* The default in place of a missing value is a value. *)
LEMMA DefaultIsValue ==
  ASSUME NEW f, f.default \in Values, NEW v \in Values
  PROVE  WithDefault(f, v) \in Values
BY DEF WithDefault

(* Field.serialize skips or makes. *)
LEMMA SerializeFieldMade ==
  ASSUME NEW n \in Nat, ValueDepth <= n, NEW ser, NEW opts, NEW f, f.default \in Values,
         NEW obj \in ValuesTo[ValueDepth + 1], \A v \in Values : Made(ser[f][v], n)
  PROVE  SerializeField(ser, opts, f, obj) = Skip \/ Made(SerializeField(ser, opts, f, obj), n)
<1> DEFINE r == IF "get_attribute" \in opts THEN Ok(Got) ELSE GetValue(obj, f.name)
<1>1. ValueDepth \in Nat \ {0} /\ Values \subseteq ValuesTo[n]
  BY SerializeAssumption, ValuesGrow DEF Values
<1>2. Made(r, ValueDepth)
  BY <1>1, GetValueMade, NoneIsValue DEF Made, Ok
<1> HIDE DEF r
<1>3. CASE f.kind = "Constant"
  BY <1>1, <1>3 DEF SerializeField, Made, Ok
<1>4. CASE f.kind # "Constant" /\ r = Raise
  BY <1>4 DEF SerializeField, Made, r, Then, Raise
<1>5. CASE f.kind # "Constant" /\ r # Raise
  <2>1. r.o = "ok" /\ WithDefault(f, r.v) \in Values
    BY <1>2, <1>5, DefaultIsValue DEF Made, Ok, Values
  <2>2. SerializeField(ser, opts, f, obj) =
          IF WithDefault(f, r.v) = Missing THEN Skip ELSE ser[f][WithDefault(f, r.v)]
    BY <1>5, <2>1 DEF SerializeField, Then, r
  <2> QED
    BY <2>1, <2>2
<1> QED
  BY <1>3, <1>4, <1>5

(* The fields are of a schema one level up. *)
LEMMA SerializeRecordMade ==
  ASSUME NEW m \in Nat, NEW n \in Nat, ValueDepth <= n, NEW ser, NEW f \in FieldsTo[m + 1],
         NEW obj \in ValuesTo[ValueDepth + 1], \A g \in FieldsTo[m] : \A v \in Values : Made(ser[g][v], n)
  PROVE  Made(SerializeRecord(ser, f, obj), n + 1)
<1> DEFINE l == Len(f.inner)
           outs == SerializeFields(ser, f, obj)
           type == IF "dict_class" \in f.opts THEN "ordered" ELSE "dict"
<1>1. /\ l \in Nat /\ DOMAIN f.inner = 1..l /\ n \in Nat \ {0} /\ ValuesTo[1] \subseteq ValuesTo[n]
      /\ \A j \in DOMAIN f.inner : f.inner[j] \in FieldsTo[m]
  BY FieldParts, m + 1 \in Nat, (m + 1) - 1 = m, SerializeAssumption, ValuesGrow
<1>2. \A j \in 1..l : f.inner[j].name \in ValuesTo[n] /\ f.inner[j].default \in Values
  BY <1>1, FieldParts
<1>3. DOMAIN Names(f.inner) = 1..l /\ \A j \in 1..l : Names(f.inner)[j] \in ValuesTo[n]
  BY <1>1, <1>2 DEF Names
<1>4. DOMAIN outs = 1..l /\ \A j \in 1..l : Made(outs[j], n) \/ outs[j] = Skip
  BY <1>1, <1>2, SerializeFieldMade DEF SerializeFields
<1> HIDE DEF l, outs
<1>5. Made(RecordOf(type, Names(f.inner), outs), n + 1)
  BY <1>1, <1>3, <1>4, RecordMade
<1> QED
  BY <1>5 DEF SerializeRecord, outs

(* A nested dump makes two levels more than its fields. *)
LEMMA DumpMade ==
  ASSUME NEW m \in Nat, NEW n \in Nat, ValueDepth <= n, NEW ser, NEW f \in FieldsTo[m + 1], NEW v \in Values,
         \A g \in FieldsTo[m] : \A w \in Values : Made(ser[g][w], n)
  PROVE  Made(Dump(ser, f, v), n + 2)
<1>1. ValueDepth \in Nat \ {0} /\ Values \subseteq ValuesTo[ValueDepth + 1] /\ (n + 1) + 1 = n + 2
  BY SerializeAssumption, ValuesNext DEF Values
<1>2. CASE f.opts \cap {"hooked", "overrides"} # {}
  <2>1. n + 2 \in Nat /\ n + 2 # 0
    OBVIOUS
  <2>2. Val("str", "hooked") \in ValuesTo[n + 2]
    BY <2>1, ScalarMade, WordsAssumption DEF Words
  <2> QED
    BY <1>2, <2>2 DEF Dump, Made, Ok
<1>3. CASE f.opts \cap {"hooked", "overrides"} = {} /\ "many" \in f.opts
  <2> DEFINE outs == [j \in DOMAIN v.c |-> SerializeRecord(ser, f, Each(v)[j])]
  <2>1. Len(v.c) \in Nat /\ DOMAIN outs = 1..Len(v.c)
    BY Parts
  <2>2. \A j \in 1..Len(v.c) : Made(outs[j], n + 1)
    BY <1>1, Parts, SerializeRecordMade
  <2>3. Made(Comprehension(v, outs), (n + 1) + 1)
    BY <2>1, <2>2, ComprehensionMade, n + 1 \in Nat \ {0}
  <2> QED
    BY <1>1, <1>3, <2>3 DEF Dump, SerializeMany
<1>4. CASE f.opts \cap {"hooked", "overrides"} = {} /\ "many" \notin f.opts
  <2>1. Made(SerializeRecord(ser, f, v), n + 1)
    BY <1>1, SerializeRecordMade
  <2> QED
    BY <1>4, <2>1, MadeGrow, n + 1 \in Nat, n + 2 \in Nat, n + 1 <= n + 2 DEF Dump, SerializeMany
<1> QED
  BY <1>2, <1>3, <1>4

(* What is plucked nests less deep than the record. *)
LEMMA PluckKeyMade ==
  ASSUME NEW n \in Nat, NEW v \in ValuesTo[n + 1], NEW f
  PROVE  Made(PluckKey(f, v), n)
<1>1. CASE HasKey(v.c, f.inner[1].name)
  <2>1. PICK j \in DOMAIN v.c : GetItem(v.c, f.inner[1].name) = v.c[j].v
    BY <1>1, GetItemMade, n + 1 \in Nat
  <2>2. GetItem(v.c, f.inner[1].name) \in ValuesTo[n]
    BY <2>1, ValueParts, n + 1 \in Nat, (n + 1) - 1 = n
  <2> QED
    BY <1>1, <2>2 DEF PluckKey, Made, Ok
<1>2. CASE ~HasKey(v.c, f.inner[1].name)
  BY <1>2 DEF PluckKey, Made
<1> QED
  BY <1>1, <1>2

(* Plucking makes no more levels. *)
LEMMA PluckMade ==
  ASSUME NEW n \in Nat \ {0}, NEW f, NEW v \in ValuesTo[n + 1]
  PROVE  Made(Pluck(f, v), n + 1)
<1>1. CASE "many" \in f.opts
  <2> DEFINE outs == [j \in DOMAIN v.c |-> PluckKey(f, Each(v)[j])]
  <2>1. /\ Len(v.c) \in Nat /\ DOMAIN v.c = 1..Len(v.c)
        /\ \A j \in DOMAIN v.c : v.c[j].k \in ValuesTo[n] /\ v.c[j].v \in ValuesTo[n]
    BY ValueParts, n + 1 \in Nat, (n + 1) - 1 = n
  <2>2. \A j \in DOMAIN v.c : Each(v)[j] \in ValuesTo[n]
    BY <2>1 DEF Each, Items
  <2>3. \A j \in DOMAIN v.c : Each(v)[j] \in ValuesTo[n + 1]
    BY <2>2, ValuesNext
  <2>4. DOMAIN outs = 1..Len(v.c) /\ \A j \in 1..Len(v.c) : Made(outs[j], n)
    BY <2>1, <2>3, PluckKeyMade
  <2>5. Made(Comprehension(v, outs), n + 1)
    BY <2>1, <2>4, ComprehensionMade
  <2> QED
    BY <1>1, <2>5 DEF Pluck
<1>2. CASE "many" \notin f.opts
  <2>1. Made(PluckKey(f, v), n)
    BY PluckKeyMade
  <2> QED
    BY <1>2, <2>1, MadeGrow, n + 1 \in Nat, n <= n + 1 DEF Pluck
<1> QED
  BY <1>1, <1>2

(* A Dict makes one level more than its fields. *)
LEMMA SerializeDictMade ==
  ASSUME NEW m \in Nat, NEW n \in Nat, ValueDepth <= n, NEW ser, NEW f \in FieldsTo[m + 1], f.kind = "Dict",
         NEW v \in Values, \A g \in FieldsTo[m] : \A w \in Values : Made(ser[g][w], n)
  PROVE  Made(SerializeDict(ser, f, v), n + 1)
<1>1. CASE f.inner = <<NoField, NoField>>
  <2>1. Made(DictCall(v), ValueDepth)
    BY DictCallMade
  <2> QED
    BY <1>1, <2>1, MadeGrow, SerializeAssumption, n + 1 \in Nat, ValueDepth <= n + 1 DEF SerializeDict
<1>2. CASE f.inner # <<NoField, NoField>>
  <2> DEFINE keys == [j \in DOMAIN v.c |-> ser[f.inner[1]][v.c[j].k]]
             vals == [j \in DOMAIN v.c |-> ser[f.inner[2]][v.c[j].v]]
  <2>1. f.inner[1] \in FieldsTo[m] /\ f.inner[2] \in FieldsTo[m]
    BY FieldParts, m + 1 \in Nat, (m + 1) - 1 = m DEF Furnished
  <2>2. /\ Len(v.c) \in Nat /\ DOMAIN keys = 1..Len(v.c) /\ DOMAIN vals = 1..Len(v.c)
        /\ \A j \in 1..Len(v.c) : Made(keys[j], n) /\ Made(vals[j], n)
    BY <2>1, Parts
  <2> HIDE DEF keys, vals
  <2>3. Made(TypedDict(keys, vals), n + 1)
    <3>1. CASE Some(keys, Stops) \/ Some(vals, Stops)
      BY <3>1 DEF TypedDict, Made
    <3>2. CASE ~(Some(keys, Stops) \/ Some(vals, Stops))
      <4>1. DOMAIN Vals(keys) = 1..Len(v.c) /\ DOMAIN Vals(vals) = 1..Len(v.c)
            /\ \A j \in 1..Len(v.c) : Vals(keys)[j] \in ValuesTo[n] /\ Vals(vals)[j] \in ValuesTo[n]
        BY <2>2, <3>2, SMTT(40) DEF Vals, Some, Made, Raise, Stops
      <4>2. Made(Assigned(Vals(keys), Vals(vals)), n + 1)
        BY <2>2, <4>1, AssignedMade
      <4> QED
        BY <3>2, <4>2 DEF TypedDict
    <3> QED
      BY <3>1, <3>2
  <2>4. SerializeDict(ser, f, v) = Raise \/ SerializeDict(ser, f, v) = TypedDict(keys, vals)
    BY <1>2 DEF SerializeDict, keys, vals
  <2> QED
    BY <2>3, <2>4 DEF Made
<1> QED
  BY <1>1, <1>2

(* The text isoformat() gives. *)
LEMMA IsoMade ==
  ASSUME NEW v \in Values, DateLike(v)
  PROVE  /\ WriteTemporal(Moments[v.a]) = IsoFormat(Moments[v.a])
         /\ IsoText(IsoFormat(Moments[v.a])) \in ValuesTo[1]
<1>1. v.a \in DOMAIN Moments
  BY Parts DEF WellFormed
<1>2. WriteTemporal(Moments[v.a]) = IsoFormat(Moments[v.a])
  BY <1>1, SerializeAssumption, TemporalLikeCPython
<1>3. ToString(IsoFormat(Moments[v.a])) \in STRING
  BY <1>1, <1>2, TextAssumption
<1>4. "str" \in STRING
  BY WordsAssumption DEF Words
<1>5. 1 \in Nat \ {0}
  OBVIOUS
<1>6. IsoText(IsoFormat(Moments[v.a])) \in ValuesTo[1]
  BY <1>3, <1>4, <1>5, ScalarMade DEF IsoText
<1> QED
  BY <1>2, <1>6

(* The name and the value of an enum member are values. *)
LEMMA EnumParts ==
  ASSUME NEW v \in Values, v.t = "enum"
  PROVE  v.c[1].v \in Values /\ Val("str", v.a) \in Values
<1>1. 1 \in DOMAIN v.c
  BY Parts DEF WellFormed
<1>2. v.c[1].v \in Values /\ v.a \in STRING /\ ValueDepth \in Nat \ {0}
  BY <1>1, Parts
<1>3. "str" \in STRING
  BY WordsAssumption DEF Words
<1>4. Val("str", v.a) \in Values
  BY <1>2, <1>3, ScalarMade DEF Values
<1> QED
  BY <1>2, <1>4

(* A field makes two levels more than the fields in it. *)
LEMMA SerializeValueMade ==
  ASSUME NEW m \in Nat, NEW n \in Nat, ValueDepth <= n, NEW ser, NEW f \in FieldsTo[m + 1], NEW v \in Values,
         \A g \in FieldsTo[m] : \A w \in Values : Made(ser[g][w], n)
  PROVE  Made(SerializeValue(ser, f, v), n + 2)
<1> DEFINE l == Len(v.c)
<1>1. /\ ValueDepth \in Nat \ {0} /\ n \in Nat \ {0} /\ n + 1 \in Nat /\ n + 2 \in Nat /\ (n + 1) + 1 = n + 2
      /\ n + 2 # 0 /\ ValueDepth <= n + 1 /\ ValueDepth <= n + 2 /\ n <= n + 2 /\ n + 1 <= n + 2
  BY SerializeAssumption
<1>2. /\ Furnished(f) /\ f.kind \in Kinds /\ f.default \in Values /\ DOMAIN f.inner = 1..Len(f.inner)
      /\ \A j \in DOMAIN f.inner : f.inner[j] \in FieldsTo[m]
  BY FieldParts, m + 1 \in Nat, (m + 1) - 1 = m
<1>3. ASSUME NEW r, Made(r, ValueDepth)  PROVE Made(r, n + 2)
  BY <1>1, <1>3, MadeGrow
<1>4. Made(Ok(v), ValueDepth) /\ Made(Ok(f.default), ValueDepth) /\ Made(Ok(NoneVal), ValueDepth)
      /\ Made(Ok(Str(v)), ValueDepth)
  BY <1>1, <1>2, NoneIsValue, StrMade DEF Made, Ok, Values
<1>5. CASE f.kind \in {"None", "Raw", "Boolean", "Constant"} \/ v = NoneVal
  BY <1>3, <1>4, <1>5 DEF SerializeValue
<1>6. ASSUME f.kind \notin {"None", "Raw", "Boolean", "Constant"}, v # NoneVal
      PROVE  Made(SerializeSome(ser, f, v), n + 2)
  <2>1. CASE f.kind \in {"String", "UUID", "IP"}
    <3>1. Made(Call("decode", v), ValueDepth)
      BY CallMade DEF ConvertingCalls
    <3> QED
      BY <1>3, <1>4, <2>1, <3>1 DEF SerializeSome
  <2>2. CASE f.kind \in {"Integer", "Float", "Decimal"}
    <3>1. \A fn \in {"int", "float", "decimal"} : Made(AsString(f, Call(fn, v)), ValueDepth)
      BY <1>1, CallMade, AsStringMade DEF ConvertingCalls
    <3> QED
      BY <1>3, <2>2, <3>1 DEF SerializeSome
  <2>3. CASE f.kind = "TimeDelta"
    <3>1. Made(Call("total_seconds", v), ValueDepth)
      BY CallMade DEF ConvertingCalls
    <3> QED
      BY <1>3, <2>3, <3>1 DEF SerializeSome
  <2>4. CASE f.kind \in {"DateTime", "Date", "Time"}
    <3>1. Made(Call("strftime", v), ValueDepth)
      BY CallMade DEF ConvertingCalls
    <3>2. DateLike(v) => Made(Ok(IsoText(IsoFormat(Moments[v.a]))), ValueDepth)
      BY <1>1, IsoMade, ValuesGrow DEF Made, Ok
    <3>3. Made(SerializeTemporal(f, v), ValueDepth)
      BY <3>1, <3>2 DEF SerializeTemporal, Made
    <3> QED
      BY <1>3, <2>4, <3>3 DEF SerializeSome
  <2>5. CASE f.kind = "Enum"
    <3>1. 1 \in DOMAIN f.inner
      BY <1>2, <2>5 DEF Furnished
    <3>2. v.t = "enum" => v.c[1].v \in Values /\ Val("str", v.a) \in Values
      BY EnumParts
    <3>3. Made(SerializeEnum(ser, f, v), n)
      BY <1>2, <3>1, <3>2 DEF SerializeEnum, Made
    <3> QED
      BY <1>1, <2>5, <3>3, MadeGrow DEF SerializeSome
  <2>6. CASE f.kind = "Dict"
    <3>1. Made(SerializeDict(ser, f, v), n + 1)
      BY <2>6, SerializeDictMade
    <3> QED
      BY <1>1, <2>6, <3>1, MadeGrow DEF SerializeSome
  <2>7. CASE f.kind = "Tuple"
    <3> DEFINE outs == [j \in DOMAIN v.c |-> ser[f.inner[j]][Each(v)[j]]]
    <3>1. l = Len(f.inner) => l \in Nat /\ DOMAIN outs = 1..l /\ \A j \in 1..l : Made(outs[j], n)
      BY <1>2, Parts
    <3>2. l = Len(f.inner) => Made(Collected("tuple", outs), n + 1)
      BY <1>1, <3>1, CollectedMade
    <3>3. Made(SerializeTuple(ser, f, v), n + 1)
      BY <3>2 DEF SerializeTuple, Made
    <3> QED
      BY <1>1, <2>7, <3>3, MadeGrow DEF SerializeSome
  <2>8. CASE f.kind = "List"
    <3> DEFINE outs == [j \in DOMAIN v.c |-> ser[f.inner[1]][Each(v)[j]]]
    <3>1. 1 \in DOMAIN f.inner
      BY <1>2, <2>8 DEF Furnished
    <3>2. l \in Nat /\ DOMAIN outs = 1..l /\ \A j \in 1..l : Made(outs[j], n)
      BY <1>2, <3>1, Parts
    <3>3. Made(Comprehension(v, outs), n + 1)
      BY <1>1, <3>2, ComprehensionMade
    <3> QED
      BY <1>1, <2>8, <3>3, MadeGrow DEF SerializeSome
  <2>9. CASE f.kind = "Foreign"
    <3> DEFINE outs == [j \in DOMAIN v.c |-> Ok(Each(v)[j])]
    <3>1. l \in Nat /\ DOMAIN outs = 1..l /\ \A j \in 1..l : Made(outs[j], ValueDepth)
      BY Parts DEF Made, Ok, Values
    <3>2. Made(Comprehension(v, outs), ValueDepth + 1)
      BY <1>1, <3>1, ComprehensionMade
    <3> QED
      BY <1>1, <2>9, <3>2, MadeGrow, ValueDepth + 1 \in Nat, ValueDepth + 1 <= n + 2 DEF SerializeSome
  <2>10. CASE f.kind = "Nested"
    BY <2>10, DumpMade DEF SerializeSome
  <2>11. CASE f.kind = "Pluck"
    <3>1. Made(Dump(ser, f, v), n + 2)
      BY DumpMade
    <3>2. \A ret \in ValuesTo[n + 2] : Made(Pluck(f, ret), n + 2)
      BY <1>1, PluckMade
    <3>3. Made(Then(Dump(ser, f, v), LAMBDA ret : Pluck(f, ret)), n + 2)
      BY <3>1, <3>2 DEF Then, Made, Raise, Ok
    <3> QED
      BY <2>11, <3>3 DEF SerializeSome
  <2> QED
    BY <1>2, <1>6, <2>1, <2>2, <2>3, <2>4, <2>5, <2>6, <2>7, <2>8, <2>9, <2>10, <2>11 DEF Kinds
<1> QED
  BY <1>5, <1>6 DEF SerializeValue

(* SerializeTo, at a field and a value. *)
LEMMA SerializeIs ==
  ASSUME NEW n \in Nat, NEW f \in FieldsTo[n + 1], NEW v \in Values
  PROVE  SerializeTo[n + 1][f][v] = SerializeValue(SerializeTo[n], f, v)
<1> DEFINE ser == SerializeTo[n]
<1>1. SerializeTo[n + 1] = SerializeLevel(ser, n + 1)
  BY SerializeUnfold
<1> HIDE DEF ser
<1>2. SerializeLevel(ser, n + 1)[f] = [w \in Values |-> SerializeValue(ser, f, w)]
  BY DEF SerializeLevel
<1> QED
  BY <1>1, <1>2 DEF ser

(* What marshmallow makes of a value nests in two more levels for each level of the field. *)
LEMMA SerializeMade ==
  ASSUME NEW n \in Nat
  PROVE  \A f \in FieldsTo[n] : \A v \in Values : Made(SerializeTo[n][f][v], ValueDepth + 2 * n)
<1> DEFINE Is(m) == \A f \in FieldsTo[m] : \A v \in Values : Made(SerializeTo[m][f][v], ValueDepth + 2 * m)
           T == {m \in Nat : Is(m)}
<1>1. 0 \in T
  BY FieldsUnfold
<1>2. ASSUME NEW m \in Nat, m \in T  PROVE m + 1 \in T
  <2>1. /\ ValueDepth + 2 * m \in Nat /\ ValueDepth <= ValueDepth + 2 * m
        /\ (ValueDepth + 2 * m) + 2 = ValueDepth + 2 * (m + 1)
    BY SerializeAssumption
  <2>2. ASSUME NEW f \in FieldsTo[m + 1], NEW v \in Values
        PROVE  Made(SerializeTo[m + 1][f][v], (ValueDepth + 2 * m) + 2)
    BY <1>2, <2>1, <2>2, SerializeIs, SerializeValueMade
  <2> QED
    BY <2>1, <2>2
<1> HIDE DEF T
<1>3. Nat \subseteq T
  BY <1>1, <1>2, LevelInduction
<1> QED
  BY <1>3 DEF T

-----------------------------------------------------------------------------
(* What is made of the outcomes, of the core's against marshmallow's. *)
Comparable(l, mine, theirs) ==
  /\ mine = [j \in 1..l |-> mine[j]] /\ theirs = [j \in 1..l |-> theirs[j]]
  /\ \A j \in 1..l : Agrees(mine[j], theirs[j]) /\ Settled(theirs[j])

(* Of two lists of outcomes that agree one by one, what stops the core
   first is a deferral or stops stock, too. *)
LEMMA Compared ==
  ASSUME NEW l \in Nat, NEW mine, NEW theirs, Comparable(l, mine, theirs)
  PROVE  \/ ~Some(mine, Stops) /\ mine = theirs
         \/ Some(mine, Stops) /\ FirstIn(mine, Stops) = Defer
         \/ /\ Some(mine, Stops) /\ FirstIn(mine, Stops) = Raise
            /\ Some(theirs, Stops) /\ FirstIn(theirs, Stops) = Raise
<1>1. DOMAIN mine = 1..l /\ DOMAIN theirs = 1..l
  BY DEF Comparable
<1> QED
  BY <1>1, OutsAgree DEF Comparable

(* Lists of outcomes that agree agree. *)
LEMMA CollectedAgrees ==
  ASSUME NEW l \in Nat, NEW mine, NEW theirs, Comparable(l, mine, theirs), NEW type
  PROVE  Agrees(Collected(type, mine), Collected(type, theirs))
BY Compared DEF Agrees, Collected

(* Comprehensions of outcomes that agree agree. *)
LEMMA ComprehensionAgrees ==
  ASSUME NEW l \in Nat, NEW mine, NEW theirs, Comparable(l, mine, theirs), NEW v
  PROVE  Agrees(Comprehension(v, mine), Comprehension(v, theirs))
BY CollectedAgrees DEF Agrees, Comprehension

(* Records of outcomes that agree agree. *)
LEMMA RecordAgrees ==
  ASSUME NEW l \in Nat, NEW mine, NEW theirs, Comparable(l, mine, theirs), NEW type, NEW keys
  PROVE  Agrees(RecordOf(type, keys, mine), RecordOf(type, keys, theirs))
BY Compared DEF Agrees, RecordOf

(* Elements of fields of m levels that make of values what marshmallow does. *)
ElementsAgree(elements, m) ==
  \A g \in DOMAIN elements :
    g \in FieldsTo[m] /\ \A w \in Values : Agrees(elements[g][w], SerializeTo[m][g][w])

(* Under QuietConstants, reading the attribute of a Constant is of no effect. *)
LEMMA QuietRead ==
  ASSUME QuietConstants, NEW m \in Nat, NEW f \in FieldsTo[m], f.kind = "Constant",
         NEW obj \in ValuesTo[ValueDepth + 1]
  PROVE  /\ GetValue(obj, f.name) = Ok(GetValue(obj, f.name).v) /\ GetValue(obj, f.name).v \in Values
         /\ f.default # Missing /\ \A v \in Values : SerializeTo[m][f][v] = Ok(f.default)
<1>1. m # 0 /\ m - 1 \in Nat /\ f \in FieldsTo[(m - 1) + 1] /\ (m - 1) + 1 = m
  BY FieldParts
<1>2. f.default # Missing /\ f.name.a \in ConstantNames
  BY FieldParts DEF Furnished
<1>3. \A v \in Values : SerializeTo[m][f][v] = Ok(f.default)
  <2>1. \A v \in Values : SerializeTo[(m - 1) + 1][f][v] = SerializeValue(SerializeTo[m - 1], f, v)
    BY <1>1, SerializeIs
  <2> QED
    BY <1>1, <2>1 DEF SerializeValue
<1>4. f.name.a \notin Raising
  BY <1>2 DEF QuietConstants
<1>5. GetValue(obj, f.name) # Raise
  BY <1>4 DEF GetValue, Raise, Ok
<1>6. Made(GetValue(obj, f.name), ValueDepth)
  BY GetValueMade, SerializeAssumption
<1> QED
  BY <1>2, <1>3, <1>5, <1>6 DEF Made, Values

(* One field of run_one agrees with Field.serialize. *)
LEMMA RunSpecAgrees ==
  ASSUME QuietConstants, NEW m \in Nat, NEW elements, ElementsAgree(elements, m), NEW opts,
         NEW f \in FieldsTo[m], NEW obj \in ValuesTo[ValueDepth + 1]
  PROVE  Agrees(RunSpec(elements, m, opts, f, obj), SerializeField(SerializeTo[m], opts, f, obj))
<1> DEFINE r == GetValue(obj, f.name)
           ser == SerializeTo[m]
<1> HIDE DEF r, ser
<1>1. CASE Callback(elements, opts, f)
  BY <1>1 DEF RunSpec, Agrees
<1>2. CASE ~Callback(elements, opts, f)
  <2>1. "get_attribute" \notin opts /\ f \in DOMAIN elements
    BY <1>2 DEF Callback
  <2>2. Made(r, ValueDepth) /\ f.default \in Values
    BY GetValueMade, SerializeAssumption, FieldParts DEF r
  <2>3. \A w \in Values : Agrees(elements[f][w], ser[f][w])
    BY <2>1 DEF ElementsAgree, ser
  <2>4. RunSpec(elements, m, opts, f, obj) =
          IF r.o # "ok" THEN r
          ELSE IF WithDefault(f, r.v) = Missing THEN Skip ELSE elements[f][WithDefault(f, r.v)]
    BY <1>2 DEF RunSpec, Then, r
  <2>5. r.o = "ok" => WithDefault(f, r.v) \in Values
    BY <2>2, DefaultIsValue DEF Made, Raise, Values
  <2>6. CASE f.kind = "Constant"
    <3>1. r.o = "ok" /\ f.default # Missing /\ \A v \in Values : ser[f][v] = Ok(f.default)
      <4>1. r = Ok(r.v)
        BY <2>6, QuietRead DEF r
      <4>2. f.default # Missing /\ \A v \in Values : ser[f][v] = Ok(f.default)
        BY <2>6, QuietRead DEF ser
      <4> QED
        BY <4>1, <4>2 DEF Ok
    <3>2. WithDefault(f, r.v) # Missing
      BY <3>1 DEF WithDefault
    <3>3. SerializeField(ser, opts, f, obj) = Ok(f.default)
      BY <2>6 DEF SerializeField
    <3> QED
      BY <2>3, <2>4, <2>5, <3>1, <3>2, <3>3 DEF ser
  <2>7. CASE f.kind # "Constant"
    <3>1. SerializeField(ser, opts, f, obj) =
            IF r.o # "ok" THEN r
            ELSE IF WithDefault(f, r.v) = Missing THEN Skip ELSE ser[f][WithDefault(f, r.v)]
      BY <2>1, <2>7 DEF SerializeField, Then, r
    <3> QED
      BY <2>3, <2>4, <2>5, <3>1 DEF ser, Agrees
  <2> QED
    BY <2>6, <2>7
<1> QED
  BY <1>1, <1>2

(* The outcomes of the fields of a schema one level up. *)
LEMMA RunSpecsAgree ==
  ASSUME QuietConstants, NEW m \in Nat, NEW elements, ElementsAgree(elements, m),
         NEW f \in FieldsTo[m + 1], NEW obj \in ValuesTo[ValueDepth + 1]
  PROVE  Comparable(Len(f.inner), RunSpecs(elements, m, f, obj), SerializeFields(SerializeTo[m], f, obj))
<1> DEFINE l == Len(f.inner)
           n == ValueDepth + 2 * m
           mine == RunSpecs(elements, m, f, obj)
           theirs == SerializeFields(SerializeTo[m], f, obj)
<1>1. DOMAIN f.inner = 1..l /\ \A j \in 1..l : f.inner[j] \in FieldsTo[m] /\ f.inner[j].default \in Values
  BY FieldParts, m + 1 \in Nat, (m + 1) - 1 = m
<1>2. mine = [j \in 1..l |-> RunSpec(elements, m, f.opts, f.inner[j], obj)]
  BY <1>1 DEF RunSpecs
<1>3. theirs = [j \in 1..l |-> SerializeField(SerializeTo[m], f.opts, f.inner[j], obj)]
  BY <1>1 DEF SerializeFields
<1>4. ASSUME NEW j \in 1..l
      PROVE  Settled(SerializeField(SerializeTo[m], f.opts, f.inner[j], obj))
  <2>1. n \in Nat /\ ValueDepth <= n
    BY SerializeAssumption
  <2>2. \A v \in Values : Made(SerializeTo[m][f.inner[j]][v], n)
    BY <1>1, SerializeMade
  <2> HIDE DEF n
  <2> QED
    BY <1>1, <2>1, <2>2, SerializeFieldMade, MadeSettled DEF Settled, Skip, Stops
<1>5. \A j \in 1..l : Agrees(RunSpec(elements, m, f.opts, f.inner[j], obj),
                             SerializeField(SerializeTo[m], f.opts, f.inner[j], obj))
  BY <1>1, RunSpecAgrees
<1> HIDE DEF mine, theirs
<1>6. Comparable(l, mine, theirs)
  BY <1>2, <1>3, <1>4, <1>5 DEF Comparable
<1> QED
  BY <1>6 DEF mine, theirs

(* run_one agrees with Schema._serialize. *)
LEMMA RunOneAgrees ==
  ASSUME QuietConstants, NEW m \in Nat, NEW elements, ElementsAgree(elements, m),
         NEW f \in FieldsTo[m + 1], ~Blocked(f), NEW obj \in ValuesTo[ValueDepth + 1]
  PROVE  Agrees(RunOne(elements, m, f, obj), SerializeRecord(SerializeTo[m], f, obj))
<1>1. "dict_class" \notin f.opts
  BY DEF Blocked
<1>2. Len(f.inner) \in Nat
  BY FieldParts, m + 1 \in Nat
<1> QED
  BY <1>1, <1>2, RunSpecsAgree, RecordAgrees DEF RunOne, SerializeRecord

(* run, of one or many, agrees with Nested._serialize. *)
LEMMA RunAgrees ==
  ASSUME QuietConstants, NEW m \in Nat, NEW elements, ElementsAgree(elements, m),
         NEW f \in FieldsTo[m + 1], ~Blocked(f), NEW v \in Values
  PROVE  Agrees(Run(elements, m, f, v), Dump(SerializeTo[m], f, v))
<1> DEFINE l == Len(v.c)
           n == ValueDepth + 2 * m
           mine == [j \in DOMAIN v.c |-> RunOne(elements, m, f, Each(v)[j])]
           theirs == [j \in DOMAIN v.c |-> SerializeRecord(SerializeTo[m], f, Each(v)[j])]
<1>1. Dump(SerializeTo[m], f, v) = SerializeMany(SerializeTo[m], f, v)
  BY DEF Dump, Blocked
<1>2. l \in Nat /\ DOMAIN v.c = 1..l /\ Values \subseteq ValuesTo[ValueDepth + 1] /\ \A j \in 1..l : Each(v)[j] \in Values
  BY Parts, SerializeAssumption, ValuesNext DEF Values
<1>3. \A obj \in Values : Agrees(RunOne(elements, m, f, obj), SerializeRecord(SerializeTo[m], f, obj))
  BY <1>2, RunOneAgrees
<1>4. \A obj \in Values : Settled(SerializeRecord(SerializeTo[m], f, obj))
  <2>1. n \in Nat /\ ValueDepth <= n /\ \A g \in FieldsTo[m] : \A w \in Values : Made(SerializeTo[m][g][w], n)
    BY SerializeAssumption, SerializeMade
  <2> HIDE DEF n
  <2> QED
    BY <1>2, <2>1, SerializeRecordMade, MadeSettled
<1>5. Comparable(l, mine, theirs)
  BY <1>2, <1>3, <1>4 DEF Comparable
<1>6. Agrees(Comprehension(v, mine), Comprehension(v, theirs))
  BY <1>2, <1>5, ComprehensionAgrees, SMTT(40)
<1> QED
  BY <1>1, <1>3, <1>6 DEF Run, SerializeMany

-----------------------------------------------------------------------------
(* Which variant an element is. *)
LEMMA VariantIs ==
  ASSUME NEW f
  PROVE  /\ f.kind = "None" => Variant(f) = "Absent"
         /\ f.kind \in {"Raw", "Boolean"} => Variant(f) = "Passthrough"
         /\ f.kind = "String" => Variant(f) = "Str"
         /\ f.kind = "Integer" => Variant(f) = "Int"
         /\ f.kind = "Float" => Variant(f) = "Float"
         /\ f.kind = "UUID" => Variant(f) = "Uuid"
         /\ f.kind = "IP" => Variant(f) = "IpAddr"
         /\ f.kind \in {"Decimal", "TimeDelta", "Constant", "Enum", "Tuple", "List", "Nested", "Pluck"} =>
              Variant(f) = f.kind
         /\ f.kind \in {"DateTime", "Date", "Time"} =>
              Variant(f) = IF "iso" \in f.opts THEN "TemporalNative" ELSE "Temporal"
         /\ f.kind = "Dict" => Variant(f) = IF f.inner = <<NoField, NoField>> THEN "Dict" ELSE "DictTyped"
BY DEF Variant, Variants, Tags, Built

(* A key that cannot be hashed fails its entry in the core, the whole dict in marshmallow. *)
LEMMA TypedAgrees ==
  ASSUME NEW l \in Nat, NEW keys, NEW vals, NEW stock_keys, NEW stock_vals,
         Comparable(l, keys, stock_keys), Comparable(l, vals, stock_vals),
         \A j \in 1..l : stock_vals[j] = Raise \/ stock_vals[j].o = "ok"
  PROVE  Agrees(TypedEntries(keys, vals), TypedDict(stock_keys, stock_vals))
<1> DEFINE members == [j \in DOMAIN keys |-> SetMember(keys[j], vals[j])]
<1>1. DOMAIN keys = 1..l /\ DOMAIN vals = 1..l /\ DOMAIN stock_keys = 1..l /\ DOMAIN stock_vals = 1..l
  BY DEF Comparable
<1>2. /\ \A j \in 1..l : Agrees(keys[j], stock_keys[j]) /\ Settled(stock_keys[j])
      /\ \A j \in 1..l : Agrees(vals[j], stock_vals[j]) /\ Settled(stock_vals[j])
  BY DEF Comparable
<1>3. DOMAIN members = 1..l /\ \A j \in 1..l : members[j] = SetMember(keys[j], vals[j])
  BY <1>1
<1>4. TypedEntries(keys, vals) = AllOk(members, Assigned(Vals(keys), Vals(vals)))
  BY DEF TypedEntries
<1> HIDE DEF members
<1>5. CASE ~Some(members, Stops)
  <2>1. ASSUME NEW j \in 1..l
        PROVE  keys[j].o \notin Stops /\ vals[j].o \notin Stops
    <3>1. members[j].o \notin Stops
      BY <1>3, <1>5 DEF Some
    <3> QED
      BY <1>3, <3>1 DEF SetMember, Raise, Stops
  <2>2. \A j \in 1..l : keys[j] = stock_keys[j] /\ vals[j] = stock_vals[j]
    BY <1>2, <2>1 DEF Agrees, Defer, Stops
  <2>3. keys = stock_keys /\ vals = stock_vals
    BY <2>2 DEF Comparable
  <2>4. ~Some(stock_keys, Stops) /\ ~Some(stock_vals, Stops)
    BY <1>1, <2>1, <2>3 DEF Some
  <2> QED
    BY <1>4, <1>5, <2>3, <2>4 DEF AllOk, TypedDict, Agrees
<1>6. CASE Some(members, Stops)
  <2>1. PICK k \in 1..l : FirstIn(members, Stops) = members[k] /\ members[k].o \in Stops
    BY <1>3, <1>6, FirstFound
  <2>2. TypedEntries(keys, vals) = members[k] /\ members[k] = SetMember(keys[k], vals[k])
    BY <1>3, <1>4, <1>6, <2>1 DEF AllOk
  <2>3. CASE keys[k].o \in Stops
    <3>1. keys[k] = Defer \/ (keys[k] = Raise /\ stock_keys[k] = Raise)
      BY <1>2, <2>3 DEF Agrees, Settled
    <3>2. stock_keys[k] = Raise => TypedDict(stock_keys, stock_vals) = Raise
      BY <1>1 DEF TypedDict, Some, Stops, Raise
    <3> QED
      BY <2>2, <2>3, <3>1, <3>2 DEF SetMember, Agrees
  <2>4. CASE keys[k].o \notin Stops /\ vals[k].o \in Stops
    <3>1. vals[k] = Defer \/ (vals[k] = Raise /\ stock_vals[k] = Raise)
      BY <1>2, <2>4 DEF Agrees, Settled
    <3>2. stock_vals[k] = Raise => TypedDict(stock_keys, stock_vals) = Raise
      BY <1>1 DEF TypedDict, Some, Stops, Raise
    <3>3. members[k] = vals[k]
      BY <2>2, <2>4, <3>1 DEF SetMember, Defer, Raise
    <3> QED
      BY <2>2, <3>1, <3>2, <3>3 DEF Agrees
  <2>5. CASE keys[k].o \notin Stops /\ vals[k].o \notin Stops
    <3>1. members[k] = Raise /\ ~Hashable(keys[k].v)
      BY <2>1, <2>2, <2>5 DEF SetMember
    <3>2. keys[k] = stock_keys[k]
      BY <1>2, <2>5 DEF Agrees, Defer, Stops
    <3>3. k \in DOMAIN Vals(stock_keys) /\ ~Hashable(Vals(stock_keys)[k])
      BY <1>1, <3>1, <3>2 DEF Vals
    <3>4. TypedDict(stock_keys, stock_vals) = Raise
      BY <3>3 DEF TypedDict, Assigned
    <3> QED
      BY <2>2, <3>1, <3>4 DEF Agrees
  <2> QED
    BY <2>3, <2>4, <2>5
<1> QED
  BY <1>5, <1>6

(* What the fields g of a table make of the values w, one by one. *)
Over(table, l, g, w) == [j \in 1..l |-> table[g[j]][w[j]]]

(* Elements over the parts of a value agree with the fields over them. *)
LEMMA EachAgrees ==
  ASSUME NEW m \in Nat, NEW elements, ElementsAgree(elements, m), NEW l \in Nat,
         NEW g, NEW w, \A j \in 1..l : g[j] \in DOMAIN elements /\ w[j] \in Values
  PROVE  /\ Comparable(l, Over(elements, l, g, w), Over(SerializeTo[m], l, g, w))
         /\ \A j \in 1..l : Over(SerializeTo[m], l, g, w)[j] = Raise \/ Over(SerializeTo[m], l, g, w)[j].o = "ok"
<1> DEFINE n == ValueDepth + 2 * m
           mine == [j \in 1..l |-> elements[g[j]][w[j]]]
           theirs == [j \in 1..l |-> SerializeTo[m][g[j]][w[j]]]
<1>1. \A j \in 1..l : g[j] \in FieldsTo[m] /\ Agrees(mine[j], theirs[j])
  BY DEF ElementsAgree
<1>2. \A j \in 1..l : Made(theirs[j], n)
  BY <1>1, SerializeMade
<1> HIDE DEF n
<1>3. \A j \in 1..l : Settled(theirs[j]) /\ (theirs[j] = Raise \/ theirs[j].o = "ok")
  BY <1>2, MadeSettled, MadeOk
<1>4. Comparable(l, mine, theirs)
  BY <1>1, <1>3 DEF Comparable
<1> QED
  BY <1>3, <1>4 DEF Over

-----------------------------------------------------------------------------
(* One level of elements: what Element::apply makes of a value. *)
LEMMA ApplyDictTypedAgrees ==
  ASSUME NEW m \in Nat, NEW elements, ElementsAgree(elements, m), NEW f \in FieldsTo[m + 1], f.kind = "Dict",
         f.inner # <<NoField, NoField>>, HasElement(elements, f), NEW v \in Values
  PROVE  Agrees(ApplyDictTyped(elements, f, v), SerializeDict(SerializeTo[m], f, v))
<1> DEFINE l == Len(v.c)
           ks == [j \in 1..l |-> v.c[j].k]
           vs == [j \in 1..l |-> v.c[j].v]
           gk == [j \in 1..l |-> f.inner[1]]
           gv == [j \in 1..l |-> f.inner[2]]
           ser == SerializeTo[m]
<1>1. f.inner[1] \in DOMAIN elements /\ f.inner[2] \in DOMAIN elements
  <2>1. DOMAIN f.inner = 1..2
    BY FieldParts, m + 1 \in Nat DEF Furnished
  <2>2. \A j \in DOMAIN f.inner : f.inner[j] \in DOMAIN elements
    BY DEF HasElement
  <2> QED
    BY <2>1, <2>2
<1>2. l \in Nat /\ DOMAIN v.c = 1..l /\ \A j \in 1..l : v.c[j].k \in Values /\ v.c[j].v \in Values
  BY Parts
<1> HIDE DEF l
<1>3. \A j \in 1..l : gk[j] \in DOMAIN elements /\ ks[j] \in Values
  BY <1>1, <1>2
<1>4. \A j \in 1..l : gv[j] \in DOMAIN elements /\ vs[j] \in Values
  BY <1>1, <1>2
<1>5. /\ \A j \in 1..l : gk[j] = f.inner[1] /\ ks[j] = v.c[j].k
      /\ \A j \in 1..l : gv[j] = f.inner[2] /\ vs[j] = v.c[j].v
  OBVIOUS
<1> HIDE DEF gk, gv, ks, vs
<1>6. Comparable(l, Over(elements, l, gk, ks), Over(SerializeTo[m], l, gk, ks))
  BY <1>2, <1>3, EachAgrees
<1>7. /\ Comparable(l, Over(elements, l, gv, vs), Over(SerializeTo[m], l, gv, vs))
      /\ \A j \in 1..l : Over(SerializeTo[m], l, gv, vs)[j] = Raise \/ Over(SerializeTo[m], l, gv, vs)[j].o = "ok"
  BY <1>2, <1>4, EachAgrees
<1>8. Agrees(TypedEntries(Over(elements, l, gk, ks), Over(elements, l, gv, vs)),
             TypedDict(Over(SerializeTo[m], l, gk, ks), Over(SerializeTo[m], l, gv, vs)))
  BY <1>2, <1>6, <1>7, TypedAgrees
<1>9. \A table : /\ Over(table, l, gk, ks) = [j \in DOMAIN v.c |-> table[f.inner[1]][v.c[j].k]]
                 /\ Over(table, l, gv, vs) = [j \in DOMAIN v.c |-> table[f.inner[2]][v.c[j].v]]
  BY <1>2, <1>5 DEF Over
<1>10. CASE ~Mapping(v)
  BY <1>10 DEF ApplyDictTyped, Agrees
<1>11. CASE Mapping(v)
  <2>1. ApplyDictTyped(elements, f, v) = TypedEntries(Over(elements, l, gk, ks), Over(elements, l, gv, vs))
    BY <1>9, <1>11 DEF ApplyDictTyped
  <2>2. SerializeDict(ser, f, v) = TypedDict(Over(ser, l, gk, ks), Over(ser, l, gv, vs))
    BY <1>9, <1>11 DEF SerializeDict
  <2> QED
    BY <1>8, <2>1, <2>2
<1> QED
  BY <1>10, <1>11

(* The Tuple element agrees with the Tuple field. *)
LEMMA ApplyTupleAgrees ==
  ASSUME NEW m \in Nat, NEW elements, ElementsAgree(elements, m), NEW f \in FieldsTo[m + 1], f.kind = "Tuple",
         HasElement(elements, f), NEW v \in Values
  PROVE  Agrees(ApplyTuple(elements, f, v), SerializeTuple(SerializeTo[m], f, v))
<1>1. CASE ~IsListLike(v) \/ Len(v.c) # Len(f.inner)
  BY <1>1 DEF ApplyTuple, Agrees
<1>2. CASE IsListLike(v) /\ Len(v.c) = Len(f.inner)
  <2> DEFINE l == Len(v.c)
             w == Each(v)
  <2>1. l \in Nat /\ DOMAIN v.c = 1..l /\ \A j \in 1..l : w[j] \in Values
    BY Parts
  <2>2. \A j \in 1..l : f.inner[j] \in DOMAIN elements
    BY <1>2, FieldParts, m + 1 \in Nat DEF HasElement
  <2>3. \A j \in 1..l : v.c[j].v = w[j]
    BY <1>2, <2>1 DEF Each, Items, Mapping, IsListLike
  <2> HIDE DEF w
  <2>4. Comparable(l, Over(elements, l, f.inner, w), Over(SerializeTo[m], l, f.inner, w))
    BY <2>1, <2>2, EachAgrees
  <2>5. Agrees(Collected("tuple", Over(elements, l, f.inner, w)), Collected("tuple", Over(SerializeTo[m], l, f.inner, w)))
    BY <2>1, <2>4, CollectedAgrees
  <2>6. \A table : /\ Over(table, l, f.inner, w) = [j \in DOMAIN v.c |-> table[f.inner[j]][v.c[j].v]]
                   /\ Over(table, l, f.inner, w) = [j \in DOMAIN v.c |-> table[f.inner[j]][w[j]]]
    BY <2>1, <2>3 DEF Over
  <2>7. Iterable(v)
    BY <1>2 DEF Iterable, IsListLike
  <2>8. ApplyTuple(elements, f, v) = Collected("tuple", Over(elements, l, f.inner, w))
    BY <1>2, <2>6 DEF ApplyTuple
  <2>9. SerializeTuple(SerializeTo[m], f, v) = Collected("tuple", Over(SerializeTo[m], l, f.inner, w))
    BY <1>2, <2>6, <2>7 DEF SerializeTuple, w
  <2> QED
    BY <2>5, <2>8, <2>9
<1> QED
  BY <1>1, <1>2

(* The List element agrees with the List field. *)
LEMMA ApplyListAgrees ==
  ASSUME NEW m \in Nat, NEW elements, ElementsAgree(elements, m), NEW f \in FieldsTo[m + 1], f.kind = "List",
         HasElement(elements, f), NEW v \in Values
  PROVE  Agrees(Comprehension(v, [j \in DOMAIN v.c |-> elements[f.inner[1]][Each(v)[j]]]),
                Comprehension(v, [j \in DOMAIN v.c |-> SerializeTo[m][f.inner[1]][Each(v)[j]]]))
<1> DEFINE l == Len(v.c)
           w == Each(v)
           g == [j \in 1..l |-> f.inner[1]]
<1>1. 1 \in DOMAIN f.inner
  BY FieldParts, m + 1 \in Nat DEF Furnished
<1>2. l \in Nat /\ DOMAIN v.c = 1..l /\ \A j \in 1..l : w[j] \in Values
  BY Parts
<1>3. \A j \in 1..l : g[j] = f.inner[1] /\ g[j] \in DOMAIN elements
  BY <1>1 DEF HasElement
<1> HIDE DEF g, w, l
<1>4. Comparable(l, Over(elements, l, g, w), Over(SerializeTo[m], l, g, w))
  BY <1>2, <1>3, EachAgrees
<1>5. \A table : Over(table, l, g, w) = [j \in DOMAIN v.c |-> table[f.inner[1]][w[j]]]
  BY <1>2, <1>3 DEF Over
<1>6. Agrees(Comprehension(v, Over(elements, l, g, w)), Comprehension(v, Over(SerializeTo[m], l, g, w)))
  BY <1>2, <1>4, ComprehensionAgrees
<1> QED
  BY <1>5, <1>6 DEF w

(* The Enum element agrees with the Enum field. *)
LEMMA ApplyEnumAgrees ==
  ASSUME NEW m \in Nat, NEW elements, ElementsAgree(elements, m), NEW f \in FieldsTo[m + 1], f.kind = "Enum",
         HasElement(elements, f), NEW v \in Values
  PROVE  Agrees(ApplyEnum(elements, f, v), SerializeEnum(SerializeTo[m], f, v))
<1>1. 1 \in DOMAIN f.inner
  BY FieldParts, m + 1 \in Nat DEF Furnished
<1>2. f.inner[1] \in DOMAIN elements
  BY <1>1 DEF HasElement
<1>3. \A w \in Values : Agrees(elements[f.inner[1]][w], SerializeTo[m][f.inner[1]][w])
  BY <1>2 DEF ElementsAgree
<1>4. v.t = "enum" => v.c[1].v \in Values /\ Val("str", v.a) \in Values
  BY EnumParts
<1> QED
  BY <1>3, <1>4 DEF ApplyEnum, SerializeEnum, Agrees

(* The text of a native time is that of isoformat. *)
LEMMA NativeIs ==
  ASSUME NEW f, f.kind \in {"DateTime", "Date", "Time"}, NEW v \in Values, v.t = NativeType(f)
  PROVE  DateLike(v) /\ Val("str", NativeText(v)) = IsoText(IsoFormat(Moments[v.a]))
<1>1. DateLike(v)
  BY DEF NativeType, DateLike
<1> QED
  BY <1>1, IsoMade DEF NativeText, IsoText

(* An element agrees with its field, if those in it do. *)
LEMMA ApplyAgrees ==
  ASSUME QuietConstants, NEW m \in Nat, NEW elements, ElementsAgree(elements, m), NEW f \in FieldsTo[m + 1],
         HasElement(elements, f), NEW v \in Values
  PROVE  Agrees(Apply(elements, m, f, v), SerializeValue(SerializeTo[m], f, v))
<1> DEFINE ser == SerializeTo[m]
<1>1. f.kind \in Kinds /\ f.kind # "Foreign"
  BY FieldParts, m + 1 \in Nat DEF HasElement
<1>2. CASE f.kind \in {"None", "Raw", "Boolean", "Constant", "Decimal", "TimeDelta"}
  BY <1>2, VariantIs DEF Apply, SerializeValue, Agrees
<1>3. CASE f.kind \notin {"None", "Raw", "Boolean", "Constant", "Decimal", "TimeDelta"} /\ v = NoneVal
  BY <1>1, <1>3, VariantIs DEF Apply, SerializeValue, Agrees, Kinds
<1>4. CASE DefersUnread(f, v) /\ v # NoneVal
  <2>1. Apply(elements, m, f, v) = Defer
    BY <1>4, VariantIs DEF Apply, DefersUnread
  <2> QED
    BY <2>1 DEF Agrees
<1>5. ASSUME f.kind \notin {"None", "Raw", "Boolean", "Constant", "Decimal", "TimeDelta"},
             v # NoneVal, ~DefersUnread(f, v)
      PROVE  Agrees(Apply(elements, m, f, v), SerializeValue(SerializeTo[m], f, v))
  <2>1. Apply(elements, m, f, v) = ApplyValue(elements, m, f, v)
    BY <1>1, <1>5, VariantIs DEF Apply, Kinds
  <2>2. SerializeValue(SerializeTo[m], f, v) = SerializeSome(SerializeTo[m], f, v)
    BY <1>5 DEF SerializeValue
  <2> SUFFICES Agrees(ApplyValue(elements, m, f, v), SerializeSome(ser, f, v))
    BY <2>1, <2>2
  <2> HIDE DEF ser
  <2>3. CASE f.kind \in {"String", "UUID", "IP"}
    <3>1. ApplyValue(elements, m, f, v) = SerializeSome(ser, f, v)
      BY <2>3, VariantIs DEF ApplyValue, SerializeSome
    <3> QED
      BY <3>1 DEF Agrees
  <2>4. CASE f.kind \in {"Integer", "Float"}
    <3>1. \A type \in {"int", "float"} : ApplyNumber(f, type, v) = AsString(f, Call(type, v))
      BY DEF ApplyNumber, AsString, Call, Ok
    <3>2. f.kind = "Integer" => ApplyValue(elements, m, f, v) = ApplyNumber(f, "int", v)
                                /\ SerializeSome(ser, f, v) = AsString(f, Call("int", v))
      BY VariantIs DEF ApplyValue, SerializeSome
    <3>3. f.kind = "Float" => ApplyValue(elements, m, f, v) = ApplyNumber(f, "float", v)
                              /\ SerializeSome(ser, f, v) = AsString(f, Call("float", v))
      BY VariantIs DEF ApplyValue, SerializeSome
    <3> QED
      BY <2>4, <3>1, <3>2, <3>3 DEF Agrees
  <2>5. CASE f.kind \in {"DateTime", "Date", "Time"}
    <3>1. SerializeSome(ser, f, v) = SerializeTemporal(f, v)
      BY <2>5 DEF SerializeSome
    <3>2. CASE "iso" \notin f.opts
      <4>1. ApplyValue(elements, m, f, v) = Call("strftime", v)
        BY <2>5, <3>2, VariantIs DEF ApplyValue
      <4> QED
        BY <3>1, <3>2, <4>1 DEF SerializeTemporal, Agrees
    <3>3. CASE "iso" \in f.opts
      <4>1. ApplyValue(elements, m, f, v) =
              IF v.t = NativeType(f) THEN Ok(Val("str", NativeText(v))) ELSE Defer
        BY <2>5, <3>3, VariantIs DEF ApplyValue
      <4>2. v.t = NativeType(f) => SerializeTemporal(f, v) = Ok(Val("str", NativeText(v)))
        BY <2>5, <3>3, NativeIs DEF SerializeTemporal
      <4> QED
        BY <3>1, <4>1, <4>2 DEF Agrees
    <3> QED
      BY <3>2, <3>3
  <2>6. CASE f.kind = "Enum"
    <3>1. ApplyValue(elements, m, f, v) = ApplyEnum(elements, f, v) /\ SerializeSome(ser, f, v) = SerializeEnum(ser, f, v)
      BY <2>6, VariantIs DEF ApplyValue, SerializeSome
    <3> QED
      BY <2>6, <3>1, ApplyEnumAgrees DEF ser
  <2>7. CASE f.kind = "Dict" /\ f.inner = <<NoField, NoField>>
    <3>1. ApplyValue(elements, m, f, v) = DictCall(v)
      BY <2>7, VariantIs DEF ApplyValue
    <3>2. SerializeSome(ser, f, v) = DictCall(v)
      BY <2>7 DEF SerializeSome, SerializeDict
    <3> QED
      BY <3>1, <3>2 DEF Agrees
  <2>8. CASE f.kind = "Dict" /\ f.inner # <<NoField, NoField>>
    <3>1. ApplyValue(elements, m, f, v) = ApplyDictTyped(elements, f, v)
      BY <2>8, VariantIs DEF ApplyValue
    <3>2. SerializeSome(ser, f, v) = SerializeDict(ser, f, v)
      BY <2>8 DEF SerializeSome
    <3> QED
      BY <2>8, <3>1, <3>2, ApplyDictTypedAgrees DEF ser
  <2>9. CASE f.kind = "Tuple"
    <3>1. ApplyValue(elements, m, f, v) = ApplyTuple(elements, f, v) /\ SerializeSome(ser, f, v) = SerializeTuple(ser, f, v)
      BY <2>9, VariantIs, SMTT(40) DEF ApplyValue, SerializeSome
    <3> QED
      BY <2>9, <3>1, ApplyTupleAgrees DEF ser
  <2>10. CASE f.kind = "List"
    <3>1. ApplyValue(elements, m, f, v) = Comprehension(v, [j \in DOMAIN v.c |-> elements[f.inner[1]][Each(v)[j]]])
      BY <2>10, VariantIs DEF ApplyValue
    <3>2. SerializeSome(ser, f, v) = Comprehension(v, [j \in DOMAIN v.c |-> ser[f.inner[1]][Each(v)[j]]])
      BY <2>10 DEF SerializeSome
    <3> QED
      BY <2>10, <3>1, <3>2, ApplyListAgrees DEF ser
  <2>11. CASE f.kind = "Nested"
    <3>1. ApplyValue(elements, m, f, v) = Run(elements, m, f, v) /\ SerializeSome(ser, f, v) = Dump(ser, f, v)
      BY <2>11, VariantIs DEF ApplyValue, SerializeSome
    <3>2. ~Blocked(f)
      BY <2>11 DEF HasElement
    <3> QED
      BY <3>1, <3>2, RunAgrees DEF ser
  <2>12. CASE f.kind = "Pluck"
    <3>1. ~Blocked(f)
      BY <2>12 DEF HasElement
    <3>2. Agrees(Run(elements, m, f, v), Dump(ser, f, v))
      BY <3>1, RunAgrees DEF ser
    <3>3. ApplyValue(elements, m, f, v) = Then(Run(elements, m, f, v), LAMBDA ret : Pluck(f, ret))
      BY <2>12, VariantIs DEF ApplyValue
    <3>4. SerializeSome(ser, f, v) = Then(Dump(ser, f, v), LAMBDA ret : Pluck(f, ret))
      BY <2>12 DEF SerializeSome
    <3> QED
      BY <3>2, <3>3, <3>4 DEF Agrees, Then, Defer
  <2> QED
    BY <1>1, <1>5, <2>3, <2>4, <2>5, <2>6, <2>7, <2>8, <2>9, <2>10, <2>11, <2>12 DEF Kinds
<1> QED
  BY <1>2, <1>3, <1>4, <1>5

(* Elements, at a field and a value. *)
LEMMA ElementsAre ==
  ASSUME NEW n \in Nat
  PROVE  /\ \A f \in DOMAIN Elements[n + 1] : f \in FieldsTo[n + 1] /\ HasElement(Elements[n], f)
         /\ \A f \in DOMAIN Elements[n + 1] : \A v \in Values : Elements[n + 1][f][v] = Apply(Elements[n], n, f, v)
<1> DEFINE elements == Elements[n]
           Mine == {g \in FieldsTo[n + 1] : HasElement(elements, g)}
<1>1. Elements[n + 1] = ElementsLevel(elements, n + 1)
  BY ElementsUnfold
<1>2. (n + 1) - 1 = n
  OBVIOUS
<1> HIDE DEF elements
<1>3. DOMAIN ElementsLevel(elements, n + 1) = Mine
  BY DEF ElementsLevel
<1>4. \A f \in Mine : ElementsLevel(elements, n + 1)[f] = [v \in Values |-> Apply(elements, n, f, v)]
  BY <1>2 DEF ElementsLevel
<1>5. DOMAIN Elements[n + 1] = Mine
  BY <1>1, <1>3
<1> HIDE DEF Mine
<1>6. ASSUME NEW f \in Mine, NEW v \in Values  PROVE Elements[n + 1][f][v] = Apply(elements, n, f, v)
  <2> DEFINE level == ElementsLevel(elements, n + 1)
  <2>1. Elements[n + 1] = level
    BY <1>1
  <2>2. level[f] = [w \in Values |-> Apply(elements, n, f, w)]
    BY <1>4
  <2> HIDE DEF level
  <2>3. level[f][v] = Apply(elements, n, f, v)
    BY <2>2
  <2> QED
    BY <2>1, <2>3
<1> QED
  BY <1>5, <1>6 DEF elements, Mine

(***************************************************************************)
(* Element::apply (src/dump/serializer.rs:361-513): what an element makes  *)
(* of a value, of any nesting, is what marshmallow's field makes of it, or *)
(* it is left to marshmallow.                                              *)
(***************************************************************************)
THEOREM ElementsLikeStock ==
  ASSUME QuietConstants, NEW n \in Nat
  PROVE  ElementsAgree(Elements[n], n)
<1> DEFINE T == {m \in Nat : ElementsAgree(Elements[m], m)}
<1>1. 0 \in T
  BY ElementsUnfold DEF ElementsAgree
<1>2. ASSUME NEW m \in Nat, m \in T  PROVE m + 1 \in T
  <2>1. ElementsAgree(Elements[m], m)
    BY <1>2
  <2>2. ASSUME NEW f \in DOMAIN Elements[m + 1]
        PROVE  f \in FieldsTo[m + 1] /\ \A v \in Values : Agrees(Elements[m + 1][f][v], SerializeTo[m + 1][f][v])
    <3>1. f \in FieldsTo[m + 1] /\ HasElement(Elements[m], f)
      BY <2>2, ElementsAre
    <3>2. \A v \in Values : Elements[m + 1][f][v] = Apply(Elements[m], m, f, v)
      BY <2>2, ElementsAre
    <3>3. \A v \in Values : SerializeTo[m + 1][f][v] = SerializeValue(SerializeTo[m], f, v)
      BY <3>1, SerializeIs
    <3>4. \A v \in Values : Agrees(Apply(Elements[m], m, f, v), SerializeValue(SerializeTo[m], f, v))
      BY <2>1, <3>1, ApplyAgrees
    <3> QED
      BY <3>1, <3>2, <3>3, <3>4
  <2>3. ElementsAgree(Elements[m + 1], m + 1)
    BY <2>2 DEF ElementsAgree
  <2> QED
    BY <2>3
<1> HIDE DEF T
<1>3. Nat \subseteq T
  BY <1>1, <1>2, LevelInduction
<1> QED
  BY <1>3 DEF T

-----------------------------------------------------------------------------
(* The writer of values against json.dumps. *)

(* The strings are escaped as CPython escapes them. *)
LEMMA Encoded ==
  ASSUME Encodable, NEW a
  PROVE  ~LoneSurrogate(a) /\ JsonString(a) = StringText(a)
<1>1. ASSUME a \in DOMAIN CodePoints
      PROVE  JsonString(a) = StringText(a)
  <2> DEFINE cps == CodePoints[a]
             utf8 == FlattenSeq([j \in DOMAIN cps |-> Utf8(cps[j])])
  <2>1. cps \in Seq(CodePoint)
    BY <1>1, SerializeAssumption
  <2> HIDE DEF cps
  <2>2. JsonEscapeInto(utf8) = Quoted(cps)
    BY <2>1, EscapeLikeCPython DEF Bytes, Escapes, Quoted
  <2> QED
    BY <1>1, <2>2 DEF JsonString, StringText, cps
<1>2. a \notin DOMAIN CodePoints => JsonString(a) = StringText(a)
  BY DEF JsonString, StringText
<1> QED
  BY <1>1, <1>2 DEF Encodable, LoneSurrogate

(* The parts of a value to write are values to write. *)
LEMMA OutputParts ==
  ASSUME NEW v \in Outputs
  PROVE  /\ v.a \in STRING /\ Len(v.c) \in Nat /\ DOMAIN v.c = 1..Len(v.c)
         /\ \A j \in DOMAIN v.c : v.c[j].k \in Outputs /\ v.c[j].v \in Outputs
<1> DEFINE n == ValueDepth + 2 * Levels + 1
<1>1. n \in Nat /\ n # 0 /\ n - 1 \in Nat /\ n - 1 <= n
  BY SerializeAssumption
<1>2. v \in ValuesTo[n] /\ Outputs = ValuesTo[n]
  BY DEF Outputs
<1> HIDE DEF n
<1>3. ValuesTo[n - 1] \subseteq ValuesTo[n]
  BY <1>1, ValuesGrow
<1> QED
  BY <1>1, <1>2, <1>3, ValueParts

(* Members whose keys and values agree agree. *)
LEMMA MemberAgrees ==
  ASSUME NEW k, NEW v, NEW stock_k, NEW stock_v, Agrees(k, stock_k), Settled(stock_k),
         Agrees(v, stock_v), Settled(stock_v)
  PROVE  Agrees(Member(k, v), Member(stock_k, stock_v)) /\ Settled(Member(stock_k, stock_v))
<1>1. CASE k = Defer
  <2>1. Member(k, v) = Defer
    BY <1>1 DEF Member, Defer, Stops
  <2> QED
    BY <2>1 DEF Member, Agrees, Settled
<1>2. CASE k = stock_k
  BY <1>2 DEF Member, Agrees, Settled
<1> QED
  BY <1>1, <1>2 DEF Agrees

(* An object whose members are written one by one. *)
LEMMA ObjectAgrees ==
  ASSUME NEW l \in Nat, NEW keys, NEW vals, NEW stock_keys, NEW stock_vals,
         Comparable(l, keys, stock_keys), Comparable(l, vals, stock_vals)
  PROVE  Agrees(Object(keys, vals), Object(stock_keys, stock_vals))
<1> DEFINE mine == [j \in DOMAIN keys |-> Member(keys[j], vals[j])]
           theirs == [j \in DOMAIN stock_keys |-> Member(stock_keys[j], stock_vals[j])]
           Of(k, v) == Ok(DictOf([j \in DOMAIN k |-> Entry(k[j].v, v[j].v)]))
<1>1. DOMAIN keys = 1..l /\ DOMAIN vals = 1..l /\ DOMAIN stock_keys = 1..l /\ DOMAIN stock_vals = 1..l
  BY DEF Comparable
<1>2. \A j \in 1..l : /\ Agrees(keys[j], stock_keys[j]) /\ Settled(stock_keys[j])
                      /\ Agrees(vals[j], stock_vals[j]) /\ Settled(stock_vals[j])
  BY DEF Comparable
<1>3. \A j \in 1..l : mine[j] = Member(keys[j], vals[j]) /\ theirs[j] = Member(stock_keys[j], stock_vals[j])
  BY <1>1
<1>4. \A j \in 1..l : Agrees(mine[j], theirs[j]) /\ Settled(theirs[j])
  BY <1>2, <1>3, MemberAgrees
<1>5. Comparable(l, mine, theirs)
  BY <1>1, <1>4 DEF Comparable
<1>6. Object(keys, vals) = AllOk(mine, Of(keys, vals)) /\ Object(stock_keys, stock_vals) = AllOk(theirs, Of(stock_keys, stock_vals))
  BY DEF Object
<1> HIDE DEF mine, theirs, Of
<1>7. CASE ~Some(mine, Stops) /\ mine = theirs
  <2>1. ASSUME NEW j \in 1..l  PROVE keys[j] = stock_keys[j] /\ vals[j] = stock_vals[j]
    <3>1. mine[j].o \notin Stops
      BY <1>5, <1>7 DEF Some, Comparable
    <3>2. keys[j].o \notin Stops /\ vals[j].o \notin Stops
      BY <1>3, <3>1 DEF Member
    <3> QED
      BY <1>2, <3>2 DEF Agrees, Defer, Stops
  <2>2. keys = stock_keys /\ vals = stock_vals
    BY <2>1 DEF Comparable
  <2> QED
    BY <1>6, <1>7, <2>2 DEF AllOk, Agrees
<1>8. CASE Some(mine, Stops)
  BY <1>5, <1>6, <1>8, Compared DEF AllOk, Agrees
<1> QED
  BY <1>5, <1>7, <1>8, Compared

(* json.dumps has a text or raises. *)
Ended(r) == r = Raise \/ r.o = "ok"

(* WriteTo and DumpsTo, at a value. *)
LEMMA WriteIs ==
  ASSUME NEW n \in Nat, NEW v \in Outputs
  PROVE  /\ WriteTo[n + 1][v] = WriteJsonValue(WriteTo[n], v)
         /\ DumpsTo[n + 1][v] = JsonDumps(DumpsTo[n], v)
<1> DEFINE write == WriteTo[n]
           dumps == DumpsTo[n]
<1>1. WriteTo[n + 1] = WriteLevel(write, n + 1) /\ DumpsTo[n + 1] = DumpsLevel(dumps, n + 1)
  BY WriteUnfold, DumpsUnfold
<1> HIDE DEF write, dumps
<1>2. WriteLevel(write, n + 1)[v] = WriteJsonValue(write, v)
  BY DEF WriteLevel
<1>3. DumpsLevel(dumps, n + 1)[v] = JsonDumps(dumps, v)
  BY DEF DumpsLevel
<1> QED
  BY <1>1, <1>2, <1>3 DEF write, dumps

(* Without a level left, the writer defers and json.dumps raises. *)
LEMMA NoLevel ==
  ASSUME NEW v \in Outputs
  PROVE  WriteTo[0][v] = Defer /\ DumpsTo[0][v] = Raise
BY WriteUnfold, DumpsUnfold

(* json.dumps ends with a text or an exception, if it does so one level down. *)
LEMMA JsonDumpsEnded ==
  ASSUME NEW dumps, NEW v \in Outputs, \A w \in Outputs : Ended(dumps[w])
  PROVE  Ended(JsonDumps(dumps, v))
<1> DEFINE l == Len(v.c)
           vals == [j \in DOMAIN v.c |-> dumps[v.c[j].v]]
           keys == [j \in DOMAIN v.c |-> DumpsKey(v.c[j].k)]
<1>1. /\ l \in Nat /\ DOMAIN v.c = 1..l
      /\ \A j \in 1..l : v.c[j].k \in Outputs /\ v.c[j].v \in Outputs
  BY OutputParts
<1>2. DOMAIN vals = 1..l /\ \A j \in 1..l : Settled(vals[j])
  BY <1>1 DEF Ended, Settled, Stops
<1>3. DOMAIN keys = 1..l /\ \A j \in 1..l : Settled(keys[j])
  BY <1>1 DEF DumpsKey, Settled, Ok, Stops
<1> HIDE DEF vals, keys
<1>4. CASE v.t \in {"list", "tuple"}
  <2>1. JsonDumps(dumps, v) = Collected("list", vals)
    BY <1>4 DEF JsonDumps, Atomic, Mapping, vals
  <2> QED
    BY <1>1, <1>2, <2>1, RaisesFirst DEF Collected, Ended, Ok
<1>5. CASE Mapping(v)
  <2> DEFINE members == [j \in DOMAIN keys |-> Member(keys[j], vals[j])]
             made == Ok(DictOf([j \in DOMAIN keys |-> Entry(keys[j].v, vals[j].v)]))
  <2>1. DOMAIN members = 1..l /\ \A j \in 1..l : Settled(members[j])
    BY <1>2, <1>3 DEF Member
  <2>2. JsonDumps(dumps, v) = AllOk(members, made)
    BY <1>5 DEF JsonDumps, Atomic, Mapping, Object, keys, vals
  <2>3. Ended(made)
    BY DEF Ended, Ok
  <2> HIDE DEF members, made
  <2> QED
    BY <1>1, <2>1, <2>2, <2>3, RaisesFirst DEF AllOk, Ended
<1>6. CASE v.t \notin {"list", "tuple"} /\ ~Mapping(v)
  BY <1>6 DEF JsonDumps, Ended, Ok
<1> QED
  BY <1>4, <1>5, <1>6

(* json.dumps ends with a text or an exception. *)
LEMMA DumpsEnded ==
  ASSUME NEW n \in Nat, NEW v \in Outputs
  PROVE  Ended(DumpsTo[n][v])
<1> DEFINE T == {m \in Nat : \A w \in Outputs : Ended(DumpsTo[m][w])}
<1>1. 0 \in T
  BY NoLevel DEF Ended
<1>2. ASSUME NEW m \in Nat, m \in T  PROVE m + 1 \in T
  <2>1. \A w \in Outputs : Ended(JsonDumps(DumpsTo[m], w))
    BY <1>2, JsonDumpsEnded
  <2> QED
    BY <2>1, WriteIs
<1> HIDE DEF T
<1>3. n \in T
  BY <1>1, <1>2, LevelInduction
<1> QED
  BY <1>3 DEF T

(* write_json_value agrees with json.dumps, if it does one level down. *)
LEMMA WriteValueAgrees ==
  ASSUME Encodable, NEW write, NEW dumps, NEW v \in Outputs,
         \A w \in Outputs : Agrees(write[w], dumps[w]) /\ Ended(dumps[w])
  PROVE  Agrees(WriteJsonValue(write, v), JsonDumps(dumps, v))
<1> DEFINE l == Len(v.c)
           vals == [j \in DOMAIN v.c |-> write[v.c[j].v]]
           stock_vals == [j \in DOMAIN v.c |-> dumps[v.c[j].v]]
           keys == [j \in DOMAIN v.c |-> WriteKey(v.c[j].k)]
           stock_keys == [j \in DOMAIN v.c |-> DumpsKey(v.c[j].k)]
<1>1. /\ v.a \in STRING /\ l \in Nat /\ DOMAIN v.c = 1..l
      /\ \A j \in 1..l : v.c[j].k \in Outputs /\ v.c[j].v \in Outputs
  BY OutputParts
<1>2. Comparable(l, vals, stock_vals)
  BY <1>1 DEF Comparable, Ended, Settled, Stops
<1>3. \A w \in Outputs : WriteString(w) = Ok(StringText(w.a))
  <2> SUFFICES ASSUME NEW w \in Outputs  PROVE WriteString(w) = Ok(StringText(w.a))
    OBVIOUS
  <2>1. w.a \in STRING
    BY OutputParts
  <2> QED
    BY <2>1, Encoded DEF WriteString
<1>4. \A w \in Outputs : Agrees(WriteKey(w), DumpsKey(w)) /\ Settled(DumpsKey(w))
  BY <1>3 DEF WriteKey, DumpsKey, Agrees, Settled, Ok, Stops
<1>5. Comparable(l, keys, stock_keys)
  BY <1>1, <1>4 DEF Comparable
<1> HIDE DEF vals, stock_vals, keys, stock_keys
<1>6. CASE Atomic(v)
  <2>1. WriteJsonValue(write, v) = Ok(v) /\ JsonDumps(dumps, v) = Ok(v)
    BY <1>6 DEF WriteJsonValue, JsonDumps, Atomic, Mapping
  <2> QED
    BY <2>1 DEF Agrees
<1>7. CASE v.t \in {"list", "tuple"}
  <2>1. WriteJsonValue(write, v) = Collected("list", vals) /\ JsonDumps(dumps, v) = Collected("list", stock_vals)
    BY <1>7 DEF WriteJsonValue, JsonDumps, Atomic, Mapping, vals, stock_vals
  <2> QED
    BY <1>1, <1>2, <2>1, CollectedAgrees
<1>8. CASE Mapping(v)
  <2>1. WriteJsonValue(write, v) = Object(keys, vals) /\ JsonDumps(dumps, v) = Object(stock_keys, stock_vals)
    BY <1>8 DEF WriteJsonValue, JsonDumps, Atomic, Mapping, vals, stock_vals, keys, stock_keys
  <2> QED
    BY <1>1, <1>2, <1>5, <2>1, ObjectAgrees
<1>9. CASE v.t \in {"str", "substr"}
  <2>1. JsonDumps(dumps, v) = Ok(StringText(v.a))
    BY <1>9 DEF JsonDumps, Atomic, Mapping
  <2>2. WriteJsonValue(write, v) = IF v.t = "str" THEN Ok(StringText(v.a)) ELSE Defer
    BY <1>3, <1>9 DEF WriteJsonValue, Atomic, Mapping
  <2> QED
    BY <2>1, <2>2 DEF Agrees
<1>10. CASE ~Atomic(v) /\ ~Mapping(v) /\ v.t \notin {"list", "tuple", "str", "substr"}
  <2>1. WriteJsonValue(write, v) = Defer
    BY <1>10 DEF WriteJsonValue
  <2>2. JsonDumps(dumps, v) = IF v.t = "subint" THEN Ok(Val("int", v.a)) ELSE Raise
    BY <1>10 DEF JsonDumps
  <2> QED
    BY <2>1, <2>2 DEF Agrees
<1> QED
  BY <1>6, <1>7, <1>8, <1>9, <1>10

(* A writer that gives up no later than json.dumps agrees with it. *)
LEMMA WriteAgrees ==
  ASSUME Encodable, NEW k \in Nat, NEW n \in Nat, k <= n, NEW v \in Outputs
  PROVE  Agrees(WriteTo[k][v], DumpsTo[n][v])
<1> DEFINE Is(j, m) == \A w \in Outputs : Agrees(WriteTo[j][w], DumpsTo[m][w])
           T == {m \in Nat : \A j \in 0..m : Is(j, m)}
<1>1. 0 \in T
  <2>1. Is(0, 0)
    BY NoLevel DEF Agrees
  <2> QED
    BY <2>1
<1>2. ASSUME NEW m \in Nat, m \in T  PROVE m + 1 \in T
  <2>1. ASSUME NEW j \in 0..m, NEW w \in Outputs
        PROVE  Agrees(WriteTo[j + 1][w], DumpsTo[m + 1][w])
    <3>1. Is(j, m)
      BY <1>2
    <3>2. Agrees(WriteJsonValue(WriteTo[j], w), JsonDumps(DumpsTo[m], w))
      BY <3>1, DumpsEnded, WriteValueAgrees
    <3> QED
      BY <3>2, WriteIs
  <2>2. \A j \in 0..m : Is(j + 1, m + 1)
    BY <2>1
  <2>3. Is(0, m + 1)
    BY <2>1, NoLevel, 0 \in 0..m DEF Agrees
  <2> HIDE DEF Is
  <2>4. \A j \in 0..m + 1 : Is(j, m + 1)
    <3> SUFFICES ASSUME NEW j \in 0..m + 1, j # 0  PROVE Is(j, m + 1)
      BY <2>3
    <3>1. j - 1 \in 0..m /\ (j - 1) + 1 = j
      OBVIOUS
    <3> QED
      BY <2>2, <3>1
  <2> QED
    BY <2>4
<1> HIDE DEF T
<1>3. n \in T
  BY <1>1, <1>2, LevelInduction
<1> QED
  BY <1>3, k \in 0..n DEF T

(* What the writer writes has no more levels than it counts. *)
LEMMA StringTextMade ==
  ASSUME NEW n \in Nat \ {0}, NEW a \in STRING
  PROVE  StringText(a) \in ValuesTo[n] /\ JsonString(a) \in ValuesTo[n]
<1> DEFINE mine == JsonString(a).a
           theirs == StringText(a).a
<1>1. mine \in STRING /\ theirs \in STRING
  BY TextAssumption DEF JsonString, StringText, Val
<1>2. JsonString(a) = Val("text", mine) /\ StringText(a) = Val("text", theirs)
  BY DEF JsonString, StringText, Val
<1> HIDE DEF mine, theirs
<1>3. "text" \in STRING
  BY WordsAssumption DEF Words
<1> QED
  BY <1>1, <1>2, <1>3, ScalarMade

-----------------------------------------------------------------------------
(* json.dumps of what marshmallow makes, piece by piece. *)
JsonText(r, p) == IF r.o = "ok" THEN DumpsTo[p][r.v] ELSE r

(* The texts of outcomes. *)
Texts(theirs, l, p) == [j \in 1..l |-> JsonText(theirs[j], p)]

OutputDepth == ValueDepth + 2 * Levels + 1

(* What fields make is there to be written. *)
LEMMA SmallIsOutput ==
  ASSUME NEW n \in Nat, n <= OutputDepth
  PROVE  ValuesTo[n] \subseteq Outputs /\ OutputDepth \in Nat /\ Outputs = ValuesTo[OutputDepth]
<1>1. OutputDepth \in Nat
  BY SerializeAssumption DEF OutputDepth
<1>2. Outputs = ValuesTo[OutputDepth]
  BY DEF Outputs, OutputDepth
<1> QED
  BY <1>1, <1>2, ValuesGrow

(* The text of what was made is a text or an exception. *)
LEMMA JsonTextEnded ==
  ASSUME NEW p \in Nat, NEW n \in Nat, n <= OutputDepth, NEW r, Made(r, n)
  PROVE  Ended(JsonText(r, p))
<1>1. CASE r = Raise
  BY <1>1 DEF JsonText, Ended, Raise
<1>2. CASE r # Raise
  <2>1. r.o = "ok" /\ r.v \in Outputs
    BY <1>2, MadeOk, SmallIsOutput DEF Made
  <2> QED
    BY <2>1, DumpsEnded DEF JsonText
<1> QED
  BY <1>1, <1>2

(* What ended is no deferral. *)
LEMMA EndedSettled ==
  ASSUME NEW r, Ended(r)
  PROVE  Settled(r)
BY DEF Ended, Settled, Stops

(* The text of a list is the list of its texts. *)
LEMMA ListText ==
  ASSUME NEW p \in Nat, NEW n \in Nat \ {0}, n < OutputDepth, NEW l \in Nat,
         NEW texts, NEW theirs, DOMAIN theirs = 1..l, \A j \in 1..l : Made(theirs[j], n),
         texts = [j \in 1..l |-> JsonText(theirs[j], p)]
  PROVE  Collected("list", texts) = JsonText(Collected("list", theirs), p + 1)
<1>1. n + 1 \in Nat /\ n + 1 <= OutputDepth /\ n <= OutputDepth /\ OutputDepth \in Nat
  BY SmallIsOutput, 0 \in Nat, SerializeAssumption DEF OutputDepth
<1>2. \A j \in 1..l : Ended(texts[j]) /\ Settled(texts[j])
  BY <1>1, JsonTextEnded, EndedSettled
<1>3. DOMAIN texts = 1..l /\ \A j \in 1..l : texts[j] = JsonText(theirs[j], p)
  OBVIOUS
<1>4. CASE Some(theirs, Stops)
  <2>1. FirstIn(theirs, Stops) = Raise
    BY <1>4, MadeSettled, RaisesFirst
  <2>2. PICK k \in 1..l : theirs[k].o \in Stops
    BY <1>4 DEF Some
  <2>3. texts[k].o \in Stops
    BY <1>3, <2>2 DEF JsonText, Stops
  <2>4. Some(texts, Stops)
    BY <1>3, <2>3 DEF Some
  <2>5. FirstIn(texts, Stops) = Raise
    BY <1>2, <1>3, <2>4, RaisesFirst
  <2> QED
    BY <1>4, <2>1, <2>4, <2>5 DEF Collected, JsonText, Raise
<1>5. CASE ~Some(theirs, Stops)
  <2> DEFINE v == ListOf("list", Vals(theirs))
  <2>1. ASSUME NEW j \in 1..l
        PROVE  theirs[j].o = "ok" /\ theirs[j].v \in ValuesTo[n]
    <3>1. theirs[j].o \notin Stops
      BY <1>5 DEF Some
    <3> QED
      BY <3>1, MadeOk DEF Made, Raise, Stops
  <2>2. DOMAIN Vals(theirs) = 1..l /\ \A j \in 1..l : Vals(theirs)[j] = theirs[j].v
    BY DEF Vals
  <2>3. v \in ValuesTo[n + 1]
    BY <2>1, <2>2, ListMade
  <2>4. v \in Outputs
    BY <1>1, <2>3, SmallIsOutput
  <2>5. v.t = "list" /\ DOMAIN v.c = 1..l /\ \A j \in 1..l : v.c[j].v = theirs[j].v
    BY <2>2 DEF ListOf, Container, Entry
  <2>7. [j \in DOMAIN v.c |-> DumpsTo[p][v.c[j].v]] = texts
    BY <1>3, <2>1, <2>5 DEF JsonText
  <2>8. Collected("list", theirs) = Ok(v)
    BY <1>5 DEF Collected
  <2> HIDE DEF v
  <2>9. DumpsTo[p + 1][v] = JsonDumps(DumpsTo[p], v)
    BY <2>4, WriteIs
  <2>6. DumpsTo[p + 1][v] = Collected("list", [j \in DOMAIN v.c |-> DumpsTo[p][v.c[j].v]])
    BY <2>5, <2>9 DEF JsonDumps, Atomic, Mapping
  <2> QED
    BY <2>6, <2>7, <2>8, SMTT(40) DEF JsonText, Ok
<1> QED
  BY <1>4, <1>5

(* A record of the outcomes under the keys, which are written as json_keys. *)
Recorded(n, l, keys, json_keys, theirs) ==
  /\ n \in Nat \ {0} /\ n < OutputDepth /\ l \in Nat
  /\ DOMAIN keys = 1..l /\ DOMAIN json_keys = 1..l /\ DOMAIN theirs = 1..l
  /\ \A j \in 1..l : /\ keys[j] \in ValuesTo[n] /\ DumpsKey(keys[j]) = Ok(json_keys[j])
                     /\ Made(theirs[j], n) \/ theirs[j] = Skip

(* The text of a record is the record of its texts. *)
LEMMA RecordText ==
  ASSUME NEW p \in Nat, NEW n, NEW l, NEW keys, NEW json_keys, NEW theirs,
         Recorded(n, l, keys, json_keys, theirs)
  PROVE  RecordOf("dict", json_keys, Texts(theirs, l, p)) = JsonText(RecordOf("dict", keys, theirs), p + 1)
<1>8. /\ n \in Nat \ {0} /\ n < OutputDepth /\ l \in Nat
      /\ DOMAIN keys = 1..l /\ DOMAIN json_keys = 1..l /\ DOMAIN theirs = 1..l
      /\ \A j \in 1..l : keys[j] \in ValuesTo[n] /\ DumpsKey(keys[j]) = Ok(json_keys[j])
      /\ \A j \in 1..l : Made(theirs[j], n) \/ theirs[j] = Skip
  BY DEF Recorded
<1>1. n + 1 \in Nat /\ n + 1 <= OutputDepth /\ n <= OutputDepth /\ OutputDepth \in Nat
  BY <1>8, SmallIsOutput, 0 \in Nat, SerializeAssumption DEF OutputDepth
<1> DEFINE texts == Texts(theirs, l, p)
<1>2. DOMAIN texts = 1..l /\ \A j \in 1..l : texts[j] = JsonText(theirs[j], p)
  BY DEF Texts
<1> SUFFICES RecordOf("dict", json_keys, texts) = JsonText(RecordOf("dict", keys, theirs), p + 1)
  OBVIOUS
<1> HIDE DEF texts
<1> USE <1>8
<1>3. \A j \in 1..l : /\ theirs[j] = Skip => texts[j] = Skip
                      /\ theirs[j] # Skip => Ended(texts[j])
  BY <1>1, <1>2, JsonTextEnded DEF JsonText, Skip
<1>4. \A j \in 1..l : Settled(texts[j]) /\ Settled(theirs[j])
  BY <1>3, EndedSettled, MadeSettled DEF Settled, Skip, Stops
<1>5. CASE Some(theirs, Stops)
  <2>1. FirstIn(theirs, Stops) = Raise
    BY <1>4, <1>5, RaisesFirst
  <2>2. PICK k \in 1..l : theirs[k].o \in Stops
    BY <1>5 DEF Some
  <2>3. texts[k].o \in Stops
    BY <1>2, <2>2 DEF JsonText, Stops
  <2>4. Some(texts, Stops)
    BY <1>2, <2>3 DEF Some
  <2>5. FirstIn(texts, Stops) = Raise
    BY <1>2, <1>4, <2>4, RaisesFirst
  <2> QED
    BY <1>5, <2>1, <2>4, <2>5 DEF RecordOf, JsonText, Raise
<1>7. Numbers(Kept(theirs), l, theirs)
  BY KeptMade
<1>6. CASE ~Some(theirs, Stops)
  <2> DEFINE K == Kept(theirs)
             v == KeptRecord("dict", keys, theirs)
             ks == [i \in DOMAIN v.c |-> DumpsKey(v.c[i].k)]
             vs == [i \in DOMAIN v.c |-> DumpsTo[p][v.c[i].v]]
             members == [i \in DOMAIN ks |-> Member(ks[i], vs[i])]
  <2>1. ASSUME NEW j \in 1..l
        PROVE  theirs[j] = Skip \/ (theirs[j].o = "ok" /\ theirs[j].v \in ValuesTo[n])
    <3>1. theirs[j].o \notin Stops
      BY <1>6 DEF Some
    <3> QED
      BY <3>1, MadeOk DEF Made, Raise, Stops
  <2>2. PICK m \in Nat : /\ K \in [1..m -> {j \in 1..l : theirs[j].o = "ok"}]
                         /\ \A j \in 1..l : theirs[j].o = "ok" => \E i \in 1..m : K[i] = j
    BY <1>7 DEF Numbers
  <2>3. RecordOf("dict", keys, theirs) = Ok(v)
    BY <1>6 DEF RecordOf
  <2>4. v \in Outputs
    <3>1. Made(RecordOf("dict", keys, theirs), n + 1)
      BY RecordMade
    <3>2. v \in ValuesTo[n + 1]
      BY <2>3, <3>1 DEF Made, Ok, Raise
    <3> QED
      BY <1>1, <3>2, SmallIsOutput
  <2>5. /\ v.t = "dict" /\ DOMAIN v.c = 1..m
        /\ \A i \in 1..m : v.c[i].k = keys[K[i]] /\ v.c[i].v = theirs[K[i]].v
    BY <2>2 DEF KeptRecord, Container, Entry
  <2> HIDE DEF v, K
  <2>6. DumpsTo[p + 1][v] = Object(ks, vs)
    BY <2>4, <2>5, WriteIs DEF JsonDumps, Atomic, Mapping
  <2>7. \A i \in 1..m : K[i] \in 1..l /\ theirs[K[i]].o = "ok"
    BY <2>2
  <2>8. \A i \in 1..m : ks[i] = Ok(json_keys[K[i]]) /\ vs[i] = texts[K[i]]
    BY <1>2, <2>5, <2>7 DEF JsonText
  <2>9. Object(ks, vs) = AllOk(members, Ok(DictOf([i \in DOMAIN ks |-> Entry(ks[i].v, vs[i].v)])))
    BY DEF Object
  <2>10. DOMAIN ks = 1..m /\ DOMAIN vs = 1..m
    BY <2>5
  <2> HIDE DEF ks, vs
  <2>11. DOMAIN members = 1..m /\ \A i \in 1..m : members[i] = texts[K[i]]
    BY <2>8, <2>10 DEF Member, Ok, Stops
  <2> DEFINE written == Ok(DictOf([i \in 1..m |-> Entry(ks[i].v, vs[i].v)]))
  <2>15. Object(ks, vs) = AllOk(members, written)
    BY <2>9, <2>10
  <2>16. JsonText(Ok(v), p + 1) = DumpsTo[p + 1][v]
    BY DEF JsonText, Ok
  <2> HIDE DEF written
  <2>12. JsonText(RecordOf("dict", keys, theirs), p + 1) = AllOk(members, written)
    BY <2>3, <2>6, <2>15, <2>16
  <2> HIDE DEF members
  <2>13. CASE Some(texts, Stops)
    <3>1. FirstIn(texts, Stops) = Raise
      BY <1>2, <1>4, <2>13, RaisesFirst
    <3>2. PICK j \in 1..l : texts[j].o \in Stops
      BY <1>2, <2>13 DEF Some
    <3>3. theirs[j].o = "ok"
      BY <1>3, <2>1, <3>2 DEF Skip, Stops
    <3>4. PICK i \in 1..m : K[i] = j
      BY <2>2, <3>3
    <3>5. Some(members, Stops)
      BY <2>11, <3>2, <3>4 DEF Some
    <3>6. FirstIn(members, Stops) = Raise
      BY <1>4, <2>7, <2>11, <3>5, RaisesFirst
    <3> QED
      BY <2>12, <2>13, <3>1, <3>5, <3>6 DEF RecordOf, AllOk
  <2>14. CASE ~Some(texts, Stops)
    <3>1. \A j \in 1..l : texts[j].o = "ok" <=> theirs[j].o = "ok"
      BY <1>2, <1>3, <2>1, <2>14 DEF Some, Ended, Raise, Stops, Skip
    <3>2. Kept(texts) = K
      BY <1>2, <3>1 DEF Kept, K
    <3>3. ~Some(members, Stops)
      BY <1>2, <2>7, <2>11, <2>14 DEF Some
    <3>4. DOMAIN K = 1..m
      BY <2>2
    <3>7. ASSUME NEW i \in 1..m  PROVE ks[i].v = json_keys[K[i]] /\ vs[i].v = texts[K[i]].v
      <4>1. ks[i] = Ok(json_keys[K[i]]) /\ vs[i] = texts[K[i]]
        BY <2>8
      <4> QED
        BY <4>1 DEF Ok
    <3>5. [i \in 1..m |-> Entry(ks[i].v, vs[i].v)] = [i \in DOMAIN K |-> Entry(json_keys[K[i]], texts[K[i]].v)]
      BY <3>4, <3>7
    <3>6. written = Ok(KeptRecord("dict", json_keys, texts))
      BY <3>2, <3>5 DEF DictOf, KeptRecord, written
    <3> QED
      BY <2>12, <2>14, <3>3, <3>6 DEF RecordOf, AllOk
  <2> QED
    BY <2>13, <2>14
<1> QED
  BY <1>5, <1>6

-----------------------------------------------------------------------------

(* What the writer makes of an outcome of the core is the text of          *)
(* marshmallow's.                                                          *)
LEMMA WrittenAgrees ==
  ASSUME Encodable, NEW r, NEW s, Agrees(r, s), NEW n \in Nat, n <= OutputDepth, s = Skip \/ Made(s, n),
         NEW p \in Nat, TopLevel <= p
  PROVE  Agrees(Written(r), JsonText(s, p))
<1>1. CASE r = Defer
  <2>1. Written(r) = Defer
    BY <1>1 DEF Written, Defer
  <2> QED
    BY <2>1 DEF Agrees
<1>2. CASE r = s /\ s.o = "ok"
  <2>1. s.v \in Outputs
    BY <1>2, SmallIsOutput DEF Made, Skip, Raise
  <2>2. TopLevel \in Nat
    BY TextAssumption DEF TopLevel
  <2>3. Agrees(WriteTo[TopLevel][s.v], DumpsTo[p][s.v])
    BY <2>1, <2>2, WriteAgrees
  <2> QED
    BY <1>2, <2>3 DEF Written, JsonText
<1>3. CASE r = s /\ s.o # "ok"
  BY <1>3 DEF Written, JsonText, Agrees
<1> QED
  BY <1>1, <1>2, <1>3 DEF Agrees

(* Writers of fields of m levels that write of values what json.dumps      *)
(* writes of what marshmallow makes of them.                               *)
Below(m) == 2 * m + DepthLimit - 1
WritersAgree(writers, m) ==
  \A g \in DOMAIN writers :
    /\ g \in FieldsTo[m]
    /\ \A w \in Values, p \in Nat : Below(m) <= p => Agrees(writers[g][w], JsonText(SerializeTo[m][g][w], p))

(* The least level a field can be of. *)
LEMMA BelowTop ==
  ASSUME NEW m \in Nat, NEW f \in FieldsTo[m]
  PROVE  TopLevel <= Below(m) /\ Below(m) \in Nat /\ TopLevel \in Nat
<1>1. m # 0
  BY FieldParts
<1>2. DepthLimit \in Nat \ {0}
  BY TextAssumption
<1> QED
  BY <1>1, <1>2 DEF TopLevel, Below

(* The levels a field makes are below those of Outputs. *)
LEMMA OutputBound ==
  ASSUME NEW m \in Nat, m <= Levels
  PROVE  /\ ValueDepth + 2 * m \in Nat \ {0} /\ ValueDepth <= ValueDepth + 2 * m
         /\ ValueDepth + 2 * m < OutputDepth /\ ValueDepth + 2 * m <= OutputDepth
         /\ ValueDepth \in Nat \ {0} /\ Levels \in Nat
BY SerializeAssumption DEF OutputDepth

(* Field.serialize skips, or makes two levels for each of the field's. *)
LEMMA SerializeFieldIs ==
  ASSUME NEW m \in Nat, NEW opts, NEW f \in FieldsTo[m], NEW obj \in ValuesTo[ValueDepth + 1]
  PROVE  \/ SerializeField(SerializeTo[m], opts, f, obj) = Skip
         \/ Made(SerializeField(SerializeTo[m], opts, f, obj), ValueDepth + 2 * m)
<1> DEFINE n == ValueDepth + 2 * m
<1>1. n \in Nat /\ ValueDepth <= n
  BY SerializeAssumption
<1>2. \A v \in Values : Made(SerializeTo[m][f][v], n)
  BY SerializeMade
<1>3. f.default \in Values
  BY FieldParts
<1> HIDE DEF n
<1>4. \/ SerializeField(SerializeTo[m], opts, f, obj) = Skip
      \/ Made(SerializeField(SerializeTo[m], opts, f, obj), n)
  BY <1>1, <1>2, <1>3, SerializeFieldMade
<1> QED
  BY <1>4 DEF n

(* One field of write_json_one agrees with the text of Field.serialize. *)
LEMMA WriteSpecAgrees ==
  ASSUME QuietConstants, Encodable, NEW m \in Nat, m <= Levels, NEW writers, WritersAgree(writers, m), NEW opts,
         NEW f \in FieldsTo[m], NEW obj \in ValuesTo[ValueDepth + 1], NEW p \in Nat, Below(m) <= p
  PROVE  Agrees(WriteSpec(writers, m, opts, f, obj), JsonText(SerializeField(SerializeTo[m], opts, f, obj), p))
<1> DEFINE r == GetValue(obj, f.name)
           ser == SerializeTo[m]
           s == SerializeField(SerializeTo[m], opts, f, obj)
           n == ValueDepth + 2 * m
<1>1. TopLevel <= p
  BY BelowTop
<1>2. s = Skip \/ Made(s, n)
  BY SerializeFieldIs
<1>3. n \in Nat /\ n <= OutputDepth
  BY OutputBound
<1> HIDE DEF n, r, ser
<1>4. CASE Callback(writers, opts, f)
  <2>1. WriteSpec(writers, m, opts, f, obj) = Written(s)
    BY <1>4 DEF WriteSpec
  <2>2. Agrees(s, s)
    BY DEF Agrees
  <2> HIDE DEF s
  <2>3. Agrees(Written(s), JsonText(s, p))
    BY <1>1, <1>2, <1>3, <2>2, WrittenAgrees
  <2> QED
    BY <2>1, <2>3 DEF s
<1>5. CASE ~Callback(writers, opts, f)
  <2>1. "get_attribute" \notin opts /\ f \in DOMAIN writers
    BY <1>5 DEF Callback
  <2>2. Made(r, ValueDepth) /\ f.default \in Values
    BY GetValueMade, SerializeAssumption, FieldParts DEF r
  <2>3. \A w \in Values : Agrees(writers[f][w], JsonText(ser[f][w], p))
    BY <2>1 DEF WritersAgree, ser
  <2>4. WriteSpec(writers, m, opts, f, obj) =
          IF r.o # "ok" THEN r
          ELSE IF WithDefault(f, r.v) = Missing THEN Skip ELSE writers[f][WithDefault(f, r.v)]
    BY <1>5 DEF WriteSpec, Then, r
  <2>5. r.o = "ok" => WithDefault(f, r.v) \in Values
    BY <2>2, DefaultIsValue DEF Made, Raise, Values
  <2>6. CASE f.kind = "Constant"
    <3>1. r.o = "ok" /\ f.default # Missing /\ \A v \in Values : ser[f][v] = Ok(f.default)
      <4>1. r = Ok(r.v)
        BY <2>6, QuietRead DEF r
      <4>2. f.default # Missing /\ \A v \in Values : ser[f][v] = Ok(f.default)
        BY <2>6, QuietRead DEF ser
      <4> QED
        BY <4>1, <4>2 DEF Ok
    <3>2. WithDefault(f, r.v) # Missing
      BY <3>1 DEF WithDefault
    <3>3. s = Ok(f.default)
      BY <2>6 DEF SerializeField
    <3>4. WriteSpec(writers, m, opts, f, obj) = writers[f][WithDefault(f, r.v)]
      BY <2>4, <3>1, <3>2
    <3>5. Agrees(writers[f][WithDefault(f, r.v)], JsonText(ser[f][WithDefault(f, r.v)], p))
      BY <2>3, <2>5, <3>1
    <3>6. ser[f][WithDefault(f, r.v)] = s
      BY <2>5, <3>1, <3>3
    <3> QED
      BY <3>4, <3>5, <3>6
  <2>7. CASE f.kind # "Constant"
    <3>1. s = IF r.o # "ok" THEN r
              ELSE IF WithDefault(f, r.v) = Missing THEN Skip ELSE ser[f][WithDefault(f, r.v)]
      BY <2>1, <2>7 DEF SerializeField, Then, r, ser
    <3> HIDE DEF s
    <3>2. CASE r.o # "ok"
      BY <2>4, <3>1, <3>2 DEF Agrees, JsonText, s
    <3>3. CASE r.o = "ok" /\ WithDefault(f, r.v) = Missing
      <4>1. JsonText(Skip, p) = Skip
        BY DEF JsonText, Skip
      <4> QED
        BY <2>4, <3>1, <3>3, <4>1 DEF Agrees, s
    <3>4. CASE r.o = "ok" /\ WithDefault(f, r.v) # Missing
      BY <2>3, <2>4, <2>5, <3>1, <3>4 DEF s
    <3> QED
      BY <3>2, <3>3, <3>4 DEF s
  <2> QED
    BY <2>6, <2>7
<1> QED
  BY <1>4, <1>5

(* The outcomes of the fields of a schema one level up. *)
LEMMA WriteSpecsAgree ==
  ASSUME QuietConstants, Encodable, NEW m \in Nat, m <= Levels, NEW writers, WritersAgree(writers, m),
         NEW f \in FieldsTo[m + 1], NEW obj \in ValuesTo[ValueDepth + 1], NEW p \in Nat, Below(m) <= p
  PROVE  Comparable(Len(f.inner), WriteSpecs(writers, m, f, obj),
                    Texts(SerializeFields(SerializeTo[m], f, obj), Len(f.inner), p))
<1> DEFINE l == Len(f.inner)
           n == ValueDepth + 2 * m
           mine == WriteSpecs(writers, m, f, obj)
           Mine(j) == WriteSpec(writers, m, f.opts, f.inner[j], obj)
           Field(j) == SerializeField(SerializeTo[m], f.opts, f.inner[j], obj)
           theirs == Texts(SerializeFields(SerializeTo[m], f, obj), l, p)
<1>1. DOMAIN f.inner = 1..l /\ \A j \in 1..l : f.inner[j] \in FieldsTo[m]
  BY FieldParts, m + 1 \in Nat, (m + 1) - 1 = m
<1>2. mine = [j \in 1..l |-> Mine(j)]
  BY <1>1 DEF WriteSpecs
<1>3. theirs = [j \in 1..l |-> JsonText(Field(j), p)]
  BY <1>1 DEF SerializeFields, Texts
<1>4. \A j \in 1..l : Agrees(Mine(j), JsonText(Field(j), p))
  BY <1>1, WriteSpecAgrees
<1>5. \A j \in 1..l : Field(j) = Skip \/ Made(Field(j), n)
  BY <1>1, SerializeFieldIs
<1>6. n \in Nat /\ n <= OutputDepth
  BY OutputBound
<1> HIDE DEF mine, theirs, n, Field, Mine
<1>7. ASSUME NEW j \in 1..l  PROVE Settled(JsonText(Field(j), p))
  <2>1. CASE Field(j) = Skip
    BY <2>1 DEF JsonText, Skip, Settled, Stops
  <2>2. CASE Made(Field(j), n)
    BY <1>6, <2>2, JsonTextEnded, EndedSettled
  <2> QED
    BY <1>5, <2>1, <2>2
<1>8. Comparable(l, mine, theirs)
  BY <1>2, <1>3, <1>4, <1>7 DEF Comparable
<1> QED
  BY <1>8 DEF mine, theirs

(* The names are written as json.dumps writes keys. *)
LEMMA NamesText ==
  ASSUME Encodable, NEW m \in Nat, NEW f \in FieldsTo[m + 1]
  PROVE  /\ DOMAIN Names(f.inner) = 1..Len(f.inner) /\ DOMAIN JsonKeys(f) = 1..Len(f.inner)
         /\ \A j \in 1..Len(f.inner) : /\ Names(f.inner)[j] \in ValuesTo[1]
                                       /\ DumpsKey(Names(f.inner)[j]) = Ok(JsonKeys(f)[j])
<1> DEFINE l == Len(f.inner)
<1>1. DOMAIN f.inner = 1..l /\ \A j \in 1..l : f.inner[j] \in FieldsTo[m]
  BY FieldParts, m + 1 \in Nat, (m + 1) - 1 = m
<1>2. DOMAIN Names(f.inner) = 1..l /\ DOMAIN JsonKeys(f) = 1..l
  BY <1>1 DEF Names, JsonKeys
<1>3. ASSUME NEW j \in 1..l
      PROVE  Names(f.inner)[j] \in ValuesTo[1] /\ DumpsKey(Names(f.inner)[j]) = Ok(JsonKeys(f)[j])
  <2> DEFINE name == f.inner[j].name
  <2>1. name \in ValuesTo[1] /\ name.t = "str"
    BY <1>1, FieldParts DEF Furnished
  <2>2. name.a \in STRING
    BY <2>1, ValueParts, 1 \in Nat
  <2>3. Names(f.inner)[j] = name /\ JsonKeys(f)[j] = JsonString(name.a)
    BY <1>1 DEF Names, JsonKeys
  <2> HIDE DEF name
  <2>4. DumpsKey(name) = Ok(StringText(name.a))
    BY <2>1 DEF DumpsKey
  <2> QED
    BY <2>1, <2>2, <2>3, <2>4, Encoded
<1> QED
  BY <1>2, <1>3

(* Serializer::write_json_one. *)
LEMMA WriteJsonOneAgrees ==
  ASSUME QuietConstants, Encodable, NEW m \in Nat, m <= Levels, NEW writers, WritersAgree(writers, m),
         NEW f \in FieldsTo[m + 1], ~Blocked(f), NEW obj \in ValuesTo[ValueDepth + 1],
         NEW p \in Nat, Below(m) <= p
  PROVE  Agrees(WriteJsonOne(writers, m, f, obj), JsonText(SerializeRecord(SerializeTo[m], f, obj), p + 1))
<1> DEFINE l == Len(f.inner)
           n == ValueDepth + 2 * m
           keys == Names(f.inner)
           json_keys == JsonKeys(f)
           mine == WriteSpecs(writers, m, f, obj)
           theirs == SerializeFields(SerializeTo[m], f, obj)
           texts == Texts(theirs, l, p)
<1> HIDE DEF texts
<1>1. /\ l \in Nat /\ DOMAIN f.inner = 1..l /\ \A j \in 1..l : f.inner[j] \in FieldsTo[m]
  BY FieldParts, m + 1 \in Nat, (m + 1) - 1 = m
<1>2. n \in Nat \ {0} /\ n < OutputDepth
  BY OutputBound
<1>3. /\ DOMAIN keys = 1..l /\ DOMAIN json_keys = 1..l
      /\ \A j \in 1..l : keys[j] \in ValuesTo[1] /\ DumpsKey(keys[j]) = Ok(json_keys[j])
  BY NamesText
<1>4. ValuesTo[1] \subseteq ValuesTo[n]
  BY <1>2, ValuesGrow
<1>5. DOMAIN theirs = 1..l
  BY <1>1 DEF SerializeFields
<1>6. \A j \in 1..l : Made(theirs[j], n) \/ theirs[j] = Skip
  BY <1>1, SerializeFieldIs DEF SerializeFields
<1>8. Comparable(l, mine, texts)
  BY WriteSpecsAgree DEF texts
<1>9. WriteJsonOne(writers, m, f, obj) = RecordOf("dict", json_keys, mine)
  BY DEF WriteJsonOne
<1>10. SerializeRecord(SerializeTo[m], f, obj) = RecordOf("dict", keys, theirs)
  BY DEF SerializeRecord, Blocked
<1> HIDE DEF l, n, keys, json_keys, mine, theirs
<1>13. \A j \in 1..l : keys[j] \in ValuesTo[n] /\ DumpsKey(keys[j]) = Ok(json_keys[j])
  BY <1>3, <1>4
<1>14. l \in Nat /\ DOMAIN keys = 1..l /\ DOMAIN json_keys = 1..l
  BY <1>1, <1>3
<1>11. RecordOf("dict", json_keys, texts) = JsonText(RecordOf("dict", keys, theirs), p + 1)
  <2>1. Recorded(n, l, keys, json_keys, theirs)
    BY <1>2, <1>5, <1>6, <1>13, <1>14 DEF Recorded
  <2> QED
    BY <2>1, RecordText DEF texts
<1>12. Agrees(RecordOf("dict", json_keys, mine), RecordOf("dict", json_keys, texts))
  BY <1>1, <1>8, RecordAgrees
<1> QED
  BY <1>9, <1>10, <1>11, <1>12

(* A list of what is written of outcomes, as json.dumps writes the list. *)
LEMMA ComprehensionText ==
  ASSUME NEW p \in Nat, NEW n \in Nat \ {0}, n < OutputDepth, NEW l \in Nat, NEW v,
         NEW mine, NEW theirs, mine = [j \in 1..l |-> mine[j]], DOMAIN theirs = 1..l,
         \A j \in 1..l : Made(theirs[j], n),
         \A j \in 1..l : Agrees(mine[j], JsonText(theirs[j], p))
  PROVE  Agrees(Comprehension(v, mine), JsonText(Comprehension(v, theirs), p + 1))
<1> DEFINE texts == Texts(theirs, l, p)
<1>1. n \in Nat /\ n <= OutputDepth
  BY SerializeAssumption DEF OutputDepth
<1>2. \A j \in 1..l : Settled(JsonText(theirs[j], p))
  BY <1>1, JsonTextEnded, EndedSettled
<1>3. texts = [j \in 1..l |-> JsonText(theirs[j], p)]
  BY DEF Texts
<1> HIDE DEF texts
<1>4. Comparable(l, mine, texts)
  BY <1>2, <1>3 DEF Comparable
<1>5. Collected("list", texts) = JsonText(Collected("list", theirs), p + 1)
  BY <1>3, ListText
<1>6. CASE Iterable(v)
  BY <1>4, <1>5, <1>6, CollectedAgrees DEF Comprehension
<1>7. CASE ~Iterable(v)
  BY <1>7 DEF Comprehension, JsonText, Agrees, Raise
<1> QED
  BY <1>6, <1>7

(* Serializer::write_json_many, of a Nested with many. *)
LEMMA WriteManyAgrees ==
  ASSUME QuietConstants, Encodable, NEW m \in Nat, m + 1 <= Levels, NEW writers, WritersAgree(writers, m),
         NEW f \in FieldsTo[m + 1], ~Blocked(f), NEW v \in Values, NEW p \in Nat, Below(m + 1) <= p
  PROVE  Agrees(Comprehension(v, [j \in DOMAIN v.c |-> WriteJsonOne(writers, m, f, Each(v)[j])]),
                JsonText(Comprehension(v, [j \in DOMAIN v.c |-> SerializeRecord(SerializeTo[m], f, Each(v)[j])]), p))
<1> DEFINE l == Len(v.c)
           n == ValueDepth + 2 * m
           mine == [j \in DOMAIN v.c |-> WriteJsonOne(writers, m, f, Each(v)[j])]
           theirs == [j \in DOMAIN v.c |-> SerializeRecord(SerializeTo[m], f, Each(v)[j])]
<1>10. Levels \in Nat /\ DepthLimit \in Nat /\ DepthLimit >= 1
  BY SerializeAssumption, TextAssumption
<1>1. /\ m <= Levels /\ p - 1 \in Nat /\ p - 2 \in Nat /\ Below(m) <= p - 2
      /\ (p - 1) + 1 = p /\ (p - 2) + 1 = p - 1
  BY <1>10 DEF Below
<1>2. n \in Nat /\ ValueDepth <= n /\ n + 1 \in Nat \ {0} /\ n + 1 < OutputDepth
  BY SerializeAssumption, SMTT(40) DEF OutputDepth
<1>3. /\ l \in Nat /\ DOMAIN v.c = 1..l /\ Values \subseteq ValuesTo[ValueDepth + 1]
      /\ \A j \in 1..l : Each(v)[j] \in Values
  BY Parts, SerializeAssumption, ValuesNext DEF Values
<1>4. \A g \in FieldsTo[m] : \A w \in Values : Made(SerializeTo[m][g][w], n)
  BY SerializeMade
<1> HIDE DEF n
<1>5. \A obj \in Values : Made(SerializeRecord(SerializeTo[m], f, obj), n + 1)
  BY <1>2, <1>3, <1>4, SerializeRecordMade
<1>6. \A obj \in Values : Agrees(WriteJsonOne(writers, m, f, obj),
                                 JsonText(SerializeRecord(SerializeTo[m], f, obj), p - 1))
  <2> SUFFICES ASSUME NEW obj \in Values
               PROVE  Agrees(WriteJsonOne(writers, m, f, obj),
                             JsonText(SerializeRecord(SerializeTo[m], f, obj), (p - 2) + 1))
    BY <1>1
  <2>1. obj \in ValuesTo[ValueDepth + 1]
    BY <1>3
  <2> QED
    BY <1>1, <2>1, WriteJsonOneAgrees
<1>7. DOMAIN theirs = 1..l /\ mine = [j \in 1..l |-> mine[j]] /\ \A j \in 1..l : Made(theirs[j], n + 1)
  BY <1>3, <1>5
<1>8. \A j \in 1..l : Agrees(mine[j], JsonText(theirs[j], p - 1))
  BY <1>3, <1>6
<1> HIDE DEF mine, theirs, l
<1>9. Agrees(Comprehension(v, mine), JsonText(Comprehension(v, theirs), (p - 1) + 1))
  BY <1>1, <1>2, <1>3, <1>7, <1>8, ComprehensionText
<1> QED
  BY <1>1, <1>9 DEF mine, theirs

(* A List. *)
LEMMA WriteListAgrees ==
  ASSUME Encodable, NEW m \in Nat, m + 1 <= Levels, NEW writers, WritersAgree(writers, m),
         NEW f \in FieldsTo[m + 1], f.inner # <<>>, f.inner[1] \in DOMAIN writers, NEW v \in Values,
         NEW p \in Nat, Below(m + 1) <= p
  PROVE  Agrees(Comprehension(v, [j \in DOMAIN v.c |-> writers[f.inner[1]][Each(v)[j]]]),
                JsonText(Comprehension(v, [j \in DOMAIN v.c |-> SerializeTo[m][f.inner[1]][Each(v)[j]]]), p))
<1> DEFINE l == Len(v.c)
           n == ValueDepth + 2 * m
           g == f.inner[1]
           mine == [j \in DOMAIN v.c |-> writers[g][Each(v)[j]]]
           theirs == [j \in DOMAIN v.c |-> SerializeTo[m][g][Each(v)[j]]]
<1>1. m <= Levels /\ p - 1 \in Nat /\ Below(m) <= p - 1 /\ (p - 1) + 1 = p
  BY SerializeAssumption, TextAssumption DEF Below
<1>2. n \in Nat \ {0} /\ n < OutputDepth
  BY <1>1, OutputBound
<1>3. l \in Nat /\ DOMAIN v.c = 1..l /\ \A j \in 1..l : Each(v)[j] \in Values
  BY Parts
<1>4. g \in FieldsTo[m] /\ \A w \in Values : Agrees(writers[g][w], JsonText(SerializeTo[m][g][w], p - 1))
  BY <1>1 DEF WritersAgree
<1>5. \A w \in Values : Made(SerializeTo[m][g][w], n)
  BY <1>4, SerializeMade
<1>6. DOMAIN theirs = 1..l /\ mine = [j \in 1..l |-> mine[j]] /\ \A j \in 1..l : Made(theirs[j], n)
  BY <1>3, <1>5
<1>7. \A j \in 1..l : Agrees(mine[j], JsonText(theirs[j], p - 1))
  BY <1>3, <1>4
<1> HIDE DEF mine, theirs, n, l, g
<1>8. Agrees(Comprehension(v, mine), JsonText(Comprehension(v, theirs), (p - 1) + 1))
  BY <1>1, <1>2, <1>3, <1>6, <1>7, ComprehensionText
<1> QED
  BY <1>1, <1>8 DEF mine, theirs, g

(* A native time: its text has nothing to escape. *)
LEMMA NativeText_ ==
  ASSUME NEW f, f.kind \in {"DateTime", "Date", "Time"}, NEW v \in Values, v.t = NativeType(f), NEW p \in Nat \ {0}
  PROVE  Ok(Val("text", NativeText(v))) = JsonText(Ok(Val("str", NativeText(v))), p)
<1> DEFINE text == NativeText(v)
<1>1. v.a \in DOMAIN Moments
  BY Parts, NativeIs DEF WellFormed
<1>2. text \in STRING /\ text \notin DOMAIN CodePoints
  BY <1>1, TextAssumption DEF NativeText
<1> HIDE DEF text
<1>3. "str" \in STRING
  BY WordsAssumption DEF Words
<1>4. OutputDepth \in Nat \ {0}
  BY SerializeAssumption DEF OutputDepth
<1>5. Val("str", text) \in Outputs
  BY <1>2, <1>3, <1>4, ScalarMade, SmallIsOutput
<1>6. DumpsTo[(p - 1) + 1][Val("str", text)] = JsonDumps(DumpsTo[p - 1], Val("str", text))
  BY <1>5, WriteIs, p - 1 \in Nat
<1>7. JsonDumps(DumpsTo[p - 1], Val("str", text)) = Ok(StringText(text))
  <2> DEFINE value == Val("str", text)
  <2>1. value.t = "str" /\ value.a = text
    BY DEF Val
  <2> HIDE DEF value
  <2>2. JsonDumps(DumpsTo[p - 1], value) = Ok(StringText(text))
    BY <2>1 DEF JsonDumps, Atomic, Mapping
  <2> QED
    BY <2>2 DEF value
<1>8. StringText(text) = Val("text", text)
  BY <1>2 DEF StringText
<1>9. (p - 1) + 1 = p
  OBVIOUS
<1> QED
  BY <1>6, <1>7, <1>8, <1>9 DEF JsonText, Ok, text

(* The text of None is null. *)
LEMMA NoneText ==
  ASSUME NEW p \in Nat \ {0}
  PROVE  Ok(NoneVal) = JsonText(Ok(NoneVal), p)
<1>1. NoneVal \in Outputs
  BY NoneIsValue, SerializeAssumption, SmallIsOutput DEF OutputDepth
<1>2. DumpsTo[(p - 1) + 1][NoneVal] = JsonDumps(DumpsTo[p - 1], NoneVal)
  BY <1>1, WriteIs, p - 1 \in Nat
<1>3. NoneVal.t = "NoneType"
  BY DEF NoneVal, Val
<1>4. JsonDumps(DumpsTo[p - 1], NoneVal) = Ok(NoneVal)
  BY <1>3 DEF JsonDumps, Atomic, Mapping
<1> QED
  BY <1>2, <1>4, (p - 1) + 1 = p DEF JsonText, Ok

(* Element::write_json of one level. *)
LEMMA WriteJsonAgrees ==
  ASSUME QuietConstants, Encodable, NEW m \in Nat, m + 1 <= Levels, NEW writers, WritersAgree(writers, m),
         DOMAIN writers = DOMAIN Elements[m], NEW f \in DOMAIN Elements[m + 1], NEW v \in Values,
         NEW p \in Nat, Below(m + 1) <= p
  PROVE  Agrees(WriteJson(writers, m, f, v), JsonText(SerializeTo[m + 1][f][v], p))
<1> DEFINE s == SerializeTo[m + 1][f][v]
           ser == SerializeTo[m]
<1>1. /\ m + 1 \in Nat /\ f \in FieldsTo[m + 1] /\ HasElement(Elements[m], f) /\ p # 0
      /\ f.kind \in Kinds
  BY ElementsAre, FieldParts, BelowTop, TextAssumption DEF TopLevel
<1>2. s = SerializeValue(ser, f, v)
  BY <1>1, SerializeIs
<1>3. CASE Variant(f) \notin {"Nested", "List", "TemporalNative"}
  <2> DEFINE r == Elements[m + 1][f][v]
             n == ValueDepth + 2 * (m + 1)
  <2>1. WriteJson(writers, m, f, v) = Written(r)
    BY <1>3 DEF WriteJson
  <2>2. Agrees(r, s)
    BY <1>1, ElementsLikeStock DEF ElementsAgree
  <2>3. Made(s, n)
    BY <1>1, SerializeMade
  <2>4. n \in Nat /\ n <= OutputDepth
    BY <1>1, OutputBound
  <2>5. TopLevel <= p
    BY <1>1, BelowTop
  <2> HIDE DEF r, n, s
  <2>6. Agrees(Written(r), JsonText(s, p))
    BY <2>2, <2>3, <2>4, <2>5, WrittenAgrees
  <2> QED
    BY <2>1, <2>6 DEF s
<1>4. ASSUME Variant(f) \in {"Nested", "List", "TemporalNative"}, v = NoneVal
      PROVE  Agrees(WriteJson(writers, m, f, v), JsonText(s, p))
  <2>1. WriteJson(writers, m, f, v) = Ok(NoneVal)
    BY <1>4 DEF WriteJson
  <2>2. f.kind \notin {"None", "Raw", "Boolean", "Constant"}
    BY <1>4, VariantIs
  <2>3. s = Ok(NoneVal)
    BY <1>2, <1>4, <2>2 DEF SerializeValue
  <2> QED
    BY <1>1, <2>1, <2>3, NoneText DEF Agrees
<1>5. ASSUME Variant(f) \in {"Nested", "List", "TemporalNative"}, v # NoneVal, DefersUnread(f, v)
      PROVE  Agrees(WriteJson(writers, m, f, v), JsonText(s, p))
  BY <1>5 DEF WriteJson, Agrees
<1>6. ASSUME Variant(f) \in {"Nested", "List", "TemporalNative"}, v # NoneVal, ~DefersUnread(f, v)
      PROVE  Agrees(WriteJson(writers, m, f, v), JsonText(s, p))
  <2>1. f.kind \in {"Nested", "List", "DateTime", "Date", "Time"} /\ (f.kind \notin {"Nested", "List"} => "iso" \in f.opts)
    <3>1. f.kind # "Foreign"
      BY <1>1 DEF HasElement
    <3> QED
      BY <1>1, <1>6, <3>1, VariantIs DEF Kinds
  <2>2. s = SerializeSome(ser, f, v)
    BY <1>2, <1>6, <2>1 DEF SerializeValue
  <2> HIDE DEF s, ser
  <2>3. CASE f.kind \in {"DateTime", "Date", "Time"}
    <3>1. WriteJson(writers, m, f, v) = IF v.t = NativeType(f) THEN Ok(Val("text", NativeText(v))) ELSE Defer
      BY <1>6, <2>1, <2>3, VariantIs DEF WriteJson
    <3>2. v.t = NativeType(f) => s = Ok(Val("str", NativeText(v)))
      BY <2>1, <2>2, <2>3, NativeIs DEF SerializeSome, SerializeTemporal
    <3>3. v.t = NativeType(f) => Ok(Val("text", NativeText(v))) = JsonText(Ok(Val("str", NativeText(v))), p)
      BY <1>1, <2>3, NativeText_, SMTT(40)
    <3> QED
      BY <3>1, <3>2, <3>3 DEF Agrees, s
  <2>4. CASE f.kind = "List"
    <3>1. WriteJson(writers, m, f, v) = Comprehension(v, [j \in DOMAIN v.c |-> writers[f.inner[1]][Each(v)[j]]])
      BY <1>6, <2>4, VariantIs DEF WriteJson
    <3>2. s = Comprehension(v, [j \in DOMAIN v.c |-> ser[f.inner[1]][Each(v)[j]]])
      BY <2>2, <2>4 DEF SerializeSome
    <3>3. f.inner # <<>> /\ 1 \in DOMAIN f.inner
      BY <1>1, <2>4, FieldParts DEF Furnished
    <3>4. f.inner[1] \in DOMAIN writers
      BY <1>1, <2>4, <3>3 DEF HasElement
    <3>5. Agrees(Comprehension(v, [j \in DOMAIN v.c |-> writers[f.inner[1]][Each(v)[j]]]),
                 JsonText(Comprehension(v, [j \in DOMAIN v.c |-> SerializeTo[m][f.inner[1]][Each(v)[j]]]), p))
      BY <1>1, <3>3, <3>4, WriteListAgrees
    <3> QED
      BY <3>1, <3>2, <3>5 DEF s, ser
  <2>5. CASE f.kind = "Nested"
    <3>1. ~Blocked(f)
      BY <1>1, <2>5 DEF HasElement
    <3>2. s = SerializeMany(ser, f, v)
      BY <2>2, <2>5, <3>1 DEF SerializeSome, Dump, Blocked
    <3>3. CASE "many" \in f.opts
      <4>1. WriteJson(writers, m, f, v) =
              Comprehension(v, [j \in DOMAIN v.c |-> WriteJsonOne(writers, m, f, Each(v)[j])])
        BY <1>6, <2>5, <3>3, VariantIs DEF WriteJson
      <4>2. s = Comprehension(v, [j \in DOMAIN v.c |-> SerializeRecord(ser, f, Each(v)[j])])
        BY <3>2, <3>3 DEF SerializeMany
      <4>3. Agrees(Comprehension(v, [j \in DOMAIN v.c |-> WriteJsonOne(writers, m, f, Each(v)[j])]),
              JsonText(Comprehension(v, [j \in DOMAIN v.c |-> SerializeRecord(SerializeTo[m], f, Each(v)[j])]), p))
        BY <1>1, <3>1, WriteManyAgrees
      <4> QED
        BY <4>1, <4>2, <4>3 DEF s, ser
    <3>4. CASE "many" \notin f.opts
      <4>1. WriteJson(writers, m, f, v) = WriteJsonOne(writers, m, f, v)
        BY <1>6, <2>5, <3>4, VariantIs DEF WriteJson
      <4>2. s = SerializeRecord(ser, f, v)
        BY <3>2, <3>4 DEF SerializeMany
      <4>3. p - 1 \in Nat /\ Below(m) <= p - 1 /\ m <= Levels /\ (p - 1) + 1 = p
        BY <1>1, SerializeAssumption, TextAssumption, SMTT(40) DEF Below
      <4>4. v \in ValuesTo[ValueDepth + 1]
        BY SerializeAssumption, ValuesNext DEF Values
      <4>5. Agrees(WriteJsonOne(writers, m, f, v), JsonText(SerializeRecord(SerializeTo[m], f, v), (p - 1) + 1))
        BY <1>1, <3>1, <4>3, <4>4, WriteJsonOneAgrees
      <4> QED
        BY <4>1, <4>2, <4>3, <4>5 DEF s, ser
    <3> QED
      BY <3>3, <3>4
  <2> QED
    BY <2>1, <2>3, <2>4, <2>5
<1> QED
  BY <1>3, <1>4, <1>5, <1>6

(* Writers, at a field and a value. *)
LEMMA WritersAre ==
  ASSUME NEW n \in Nat
  PROVE  /\ DOMAIN Writers[n + 1] = DOMAIN Elements[n + 1]
         /\ \A f \in DOMAIN Elements[n + 1] : \A v \in Values : Writers[n + 1][f][v] = WriteJson(Writers[n], n, f, v)
<1> DEFINE writers == Writers[n]
           level == WritersLevel(writers, n + 1)
           Mine == DOMAIN Elements[n + 1]
<1>1. Writers[n + 1] = level
  BY WritersUnfold
<1>2. (n + 1) - 1 = n
  OBVIOUS
<1> HIDE DEF writers
<1>3. DOMAIN level = Mine
  BY DEF WritersLevel
<1>4. \A f \in Mine : level[f] = [v \in Values |-> WriteJson(writers, n, f, v)]
  BY <1>2 DEF WritersLevel
<1> HIDE DEF Mine, level
<1>5. \A f \in Mine : \A v \in Values : level[f][v] = WriteJson(writers, n, f, v)
  BY <1>4
<1> QED
  BY <1>1, <1>3, <1>5 DEF Mine, writers

(* Writers are those of the fields that have elements. *)
LEMMA WritersDomain ==
  ASSUME NEW n \in Nat
  PROVE  DOMAIN Writers[n] = DOMAIN Elements[n]
<1>1. CASE n = 0
  BY <1>1, WritersUnfold, ElementsUnfold
<1>2. CASE n # 0
  BY <1>2, WritersAre, n - 1 \in Nat, (n - 1) + 1 = n
<1> QED
  BY <1>1, <1>2

(***************************************************************************)
(* Element::write_json (src/dump/serializer.rs:268-359): what a writer     *)
(* writes of a value, of any nesting, is what json.dumps writes of what    *)
(* marshmallow's field makes of it, or it is left to them.                 *)
(***************************************************************************)
THEOREM WritersLikeStock ==
  ASSUME QuietConstants, Encodable, NEW n \in Nat, n <= Levels
  PROVE  WritersAgree(Writers[n], n)
<1> DEFINE Is(m) == WritersAgree(Writers[m], m)
           T == {m \in Nat : m <= Levels => Is(m)}
<1>1. 0 \in T
  <2>1. DOMAIN Writers[0] = {}
    BY WritersUnfold
  <2> QED
    BY <2>1 DEF WritersAgree
<1>2. ASSUME NEW m \in Nat, m \in T  PROVE m + 1 \in T
  <2> SUFFICES ASSUME m + 1 <= Levels  PROVE Is(m + 1)
    OBVIOUS
  <2>1. m <= Levels
    BY SerializeAssumption
  <2>2. WritersAgree(Writers[m], m) /\ DOMAIN Writers[m] = DOMAIN Elements[m]
    BY <1>2, <2>1, WritersDomain
  <2>3. DOMAIN Writers[m + 1] = DOMAIN Elements[m + 1]
    BY WritersAre
  <2>4. ASSUME NEW g \in DOMAIN Elements[m + 1]
        PROVE  /\ g \in FieldsTo[m + 1]
               /\ \A w \in Values, p \in Nat :
                    Below(m + 1) <= p => Agrees(Writers[m + 1][g][w], JsonText(SerializeTo[m + 1][g][w], p))
    <3>1. g \in FieldsTo[m + 1]
      BY ElementsAre
    <3>2. \A w \in Values : Writers[m + 1][g][w] = WriteJson(Writers[m], m, g, w)
      BY WritersAre
    <3>3. \A w \in Values, p \in Nat :
            Below(m + 1) <= p => Agrees(WriteJson(Writers[m], m, g, w), JsonText(SerializeTo[m + 1][g][w], p))
      BY <2>2, WriteJsonAgrees
    <3> QED
      BY <3>1, <3>2, <3>3
  <2> QED
    BY <2>3, <2>4 DEF WritersAgree
<1> HIDE DEF T
<1>3. n \in T
  BY <1>1, <1>2, LevelInduction
<1> QED
  BY <1>3 DEF T

-----------------------------------------------------------------------------

(* An outcome of the core with a value of n levels. *)
Bound(r, n) == r = Defer \/ Made(r, n)

(* What is bound is a deferral, an exception or a text of so many levels. *)
LEMMA BoundOk ==
  ASSUME NEW r, NEW n, Bound(r, n)
  PROVE  r = Defer \/ r = Raise \/ (r.o = "ok" /\ r.v \in ValuesTo[n])
BY DEF Bound, Made, Ok

(* What is bound by few levels is bound by more. *)
LEMMA BoundGrow ==
  ASSUME NEW m \in Nat, NEW n \in Nat, m <= n, NEW r, Bound(r, m)
  PROVE  Bound(r, n)
BY MadeGrow DEF Bound

(* Of outcomes that have a value or stop, one that stops is found. *)
LEMMA BoundFirst ==
  ASSUME NEW n \in Nat, NEW l \in Nat, NEW outs, DOMAIN outs = 1..l, Some(outs, Stops),
         \A j \in 1..l : outs[j] = Skip \/ Bound(outs[j], n)
  PROVE  FirstIn(outs, Stops) \in {Raise, Defer}
<1>1. PICK k \in 1..l : FirstIn(outs, Stops) = outs[k] /\ outs[k].o \in Stops
  BY FirstFound
<1>2. outs[k] # Skip /\ outs[k].o # "ok"
  BY <1>1 DEF Skip, Stops
<1> QED
  BY <1>1, <1>2, BoundOk

(* A container of members that nest in n levels; an empty one has one level. *)
LEMMA EntriesMade ==
  ASSUME NEW n \in Nat, NEW t \in {"list", "dict"}, NEW l \in Nat, NEW k, NEW v,
         \A j \in 1..l : v[j] \in ValuesTo[n] /\ (n # 0 => k[j] \in ValuesTo[n])
  PROVE  Container(t, [j \in 1..l |-> Entry(k[j], v[j])]) \in ValuesTo[n + 1]
<1> DEFINE c == [j \in 1..l |-> Entry(k[j], v[j])]
<1>1. \A j \in 1..l : n # 0
  BY ValueParts
<1>2. \A j \in 1..l : c[j] \in Entries(ValuesTo[n])
  BY <1>1 DEF Entry, Entries
<1>3. c \in Seq(Entries(ValuesTo[n]))
  BY <1>2
<1> HIDE DEF c
<1>4. Container(t, c) \in ValuesTo[n + 1]
  BY <1>3, ContainerMade
<1> QED
  BY <1>4 DEF c

(* A list of bound texts is bound, one level deeper. *)
LEMMA CollectedBound ==
  ASSUME NEW n \in Nat, NEW l \in Nat, NEW outs, DOMAIN outs = 1..l, \A j \in 1..l : Bound(outs[j], n)
  PROVE  Bound(Collected("list", outs), n + 1)
<1>1. CASE Some(outs, Stops)
  <2>1. Collected("list", outs) \in {Raise, Defer}
    BY <1>1, BoundFirst DEF Collected
  <2> QED
    BY <2>1 DEF Bound, Made
<1>2. CASE ~Some(outs, Stops)
  <2> DEFINE k == [j \in 1..l |-> Unkeyed]
             v == [j \in 1..l |-> outs[j].v]
  <2>1. ASSUME NEW j \in 1..l  PROVE v[j] \in ValuesTo[n]
    <3>1. outs[j].o \notin Stops
      BY <1>2 DEF Some
    <3> QED
      BY <3>1, BoundOk DEF Defer, Raise, Stops
  <2>2. n # 0 => Unkeyed \in ValuesTo[n]
    BY ScalarMade, WordsAssumption DEF Unkeyed, Words
  <2>3. \A j \in 1..l : k[j] = Unkeyed
    OBVIOUS
  <2>4. ListOf("list", Vals(outs)) = Container("list", [j \in 1..l |-> Entry(k[j], v[j])])
    BY DEF ListOf, Vals
  <2> HIDE DEF k, v
  <2>5. Container("list", [j \in 1..l |-> Entry(k[j], v[j])]) \in ValuesTo[n + 1]
    BY <2>1, <2>2, <2>3, EntriesMade, ZenonT(60)
  <2> QED
    BY <1>2, <2>4, <2>5 DEF Collected, Bound, Made, Ok
<1> QED
  BY <1>1, <1>2

(* A comprehension of bound texts is bound, one level deeper. *)
LEMMA ComprehensionBound ==
  ASSUME NEW n \in Nat, NEW l \in Nat, NEW outs, DOMAIN outs = 1..l, \A j \in 1..l : Bound(outs[j], n), NEW v
  PROVE  Bound(Comprehension(v, outs), n + 1)
BY CollectedBound DEF Comprehension, Bound, Made

(* An object of bound texts is bound, one level deeper. *)
LEMMA ObjectBound ==
  ASSUME NEW n \in Nat, NEW l \in Nat, NEW keys, NEW outs, DOMAIN keys = 1..l, DOMAIN outs = 1..l,
         \A j \in 1..l : Bound(outs[j], n),
         \A j \in 1..l : keys[j] = Defer \/ keys[j] = Raise \/ \A d \in Nat \ {0} : Made(keys[j], d)
  PROVE  Bound(Object(keys, outs), n + 1)
<1> DEFINE members == [j \in DOMAIN keys |-> Member(keys[j], outs[j])]
           made == Ok(DictOf([j \in DOMAIN keys |-> Entry(keys[j].v, outs[j].v)]))
<1>1. Object(keys, outs) = AllOk(members, made)
  BY DEF Object
<1>2. DOMAIN members = 1..l /\ \A j \in 1..l : members[j] = Member(keys[j], outs[j])
  OBVIOUS
<1> HIDE DEF members, made
<1>3. CASE Some(members, Stops)
  <2>1. PICK i \in 1..l : FirstIn(members, Stops) = members[i] /\ members[i].o \in Stops
    BY <1>2, <1>3, FirstFound
  <2>2. members[i] \in {Raise, Defer}
    <3>1. CASE keys[i].o \in Stops
      <4>1. members[i] = keys[i]
        BY <1>2, <3>1 DEF Member
      <4>2. Made(keys[i], 1) => keys[i] = Raise \/ keys[i].o = "ok"
        BY MadeOk
      <4> QED
        BY <3>1, <4>1, <4>2 DEF Stops
    <3>2. CASE keys[i].o \notin Stops
      <4>1. members[i] = outs[i]
        BY <1>2, <3>2 DEF Member
      <4> QED
        BY <2>1, <4>1, BoundOk DEF Stops
    <3> QED
      BY <3>1, <3>2
  <2> QED
    BY <1>1, <1>3, <2>1, <2>2 DEF AllOk, Bound, Made
<1>4. CASE ~Some(members, Stops)
  <2> DEFINE k == [j \in 1..l |-> keys[j].v]
             v == [j \in 1..l |-> outs[j].v]
  <2>1. ASSUME NEW j \in 1..l  PROVE v[j] \in ValuesTo[n] /\ (n # 0 => k[j] \in ValuesTo[n])
    <3>1. members[j].o \notin Stops
      BY <1>2, <1>4 DEF Some
    <3>2. keys[j].o \notin Stops /\ outs[j].o \notin Stops
      BY <1>2, <3>1 DEF Member
    <3>3. outs[j].v \in ValuesTo[n]
      BY <3>2, BoundOk DEF Defer, Raise, Stops
    <3>4. n # 0 => Made(keys[j], n)
      BY <3>2 DEF Defer, Raise, Stops
    <3> QED
      BY <3>2, <3>3, <3>4 DEF Made, Raise, Stops
  <2>2. made = Ok(Container("dict", [j \in 1..l |-> Entry(k[j], v[j])]))
    BY DEF made, DictOf
  <2> HIDE DEF k, v
  <2>3. Container("dict", [j \in 1..l |-> Entry(k[j], v[j])]) \in ValuesTo[n + 1]
    BY <2>1, EntriesMade
  <2> QED
    BY <1>1, <1>4, <2>2, <2>3 DEF AllOk, Bound, Made, Ok
<1> QED
  BY <1>3, <1>4

(* A record of bound texts is bound, one level deeper. *)
LEMMA RecordBound ==
  ASSUME NEW n \in Nat, NEW l \in Nat, NEW keys, NEW outs, DOMAIN keys = 1..l, DOMAIN outs = 1..l,
         \A j \in 1..l : outs[j] = Skip \/ Bound(outs[j], n),
         \A j \in 1..l : \A d \in Nat \ {0} : keys[j] \in ValuesTo[d]
  PROVE  Bound(RecordOf("dict", keys, outs), n + 1)
<1>1. CASE Some(outs, Stops)
  <2>1. RecordOf("dict", keys, outs) \in {Raise, Defer}
    BY <1>1, BoundFirst DEF RecordOf
  <2> QED
    BY <2>1 DEF Bound, Made
<1>2. CASE ~Some(outs, Stops)
  <2> DEFINE K == Kept(outs)
             k == [i \in DOMAIN K |-> keys[K[i]]]
             v == [i \in DOMAIN K |-> outs[K[i]].v]
  <2>1. Numbers(K, l, outs)
    BY KeptMade
  <2>2. KeptRecord("dict", keys, outs) = Container("dict", [i \in DOMAIN K |-> Entry(k[i], v[i])])
    BY DEF KeptRecord
  <2> HIDE DEF K
  <2>3. PICK m \in Nat : K \in [1..m -> {j \in 1..l : outs[j].o = "ok"}]
    BY <2>1 DEF Numbers
  <2>4. DOMAIN K = 1..m
    BY <2>3
  <2>5. ASSUME NEW i \in 1..m  PROVE v[i] \in ValuesTo[n] /\ (n # 0 => k[i] \in ValuesTo[n])
    <3>1. K[i] \in 1..l /\ outs[K[i]].o = "ok"
      BY <2>3
    <3>2. outs[K[i]].v \in ValuesTo[n]
      BY <3>1, BoundOk DEF Skip, Defer, Raise
    <3> QED
      BY <2>4, <3>1, <3>2
  <2> HIDE DEF k, v
  <2>6. Container("dict", [i \in 1..m |-> Entry(k[i], v[i])]) \in ValuesTo[n + 1]
    BY <2>5, EntriesMade
  <2> QED
    BY <1>2, <2>2, <2>4, <2>6 DEF RecordOf, Bound, Made, Ok
<1> QED
  BY <1>1, <1>2

-----------------------------------------------------------------------------
(* write_json_value nests no deeper than it counts. *)
LEMMA WriteStringBound ==
  ASSUME NEW v \in Outputs, NEW n \in Nat \ {0}
  PROVE  WriteString(v) = Raise \/ Made(WriteString(v), n)
<1>1. JsonString(v.a) \in ValuesTo[n]
  BY OutputParts, StringTextMade
<1> QED
  BY <1>1 DEF WriteString, Made, Ok

(* What has no entries has one level. *)
LEMMA AtomicMade ==
  ASSUME NEW v \in Outputs, Atomic(v), NEW n \in Nat
  PROVE  v \in ValuesTo[n + 1]
<1>1. OutputDepth \in Nat /\ v \in ValuesTo[OutputDepth]
  BY SmallIsOutput, 0 \in Nat, SerializeAssumption DEF OutputDepth, Outputs
<1>2. v.t \in STRING /\ v.a \in STRING /\ WellFormed(v) /\ v = [t |-> v.t, a |-> v.a, c |-> v.c]
  BY <1>1, ValueParts
<1>3. v.c = <<>>
  BY <1>2 DEF WellFormed
<1>4. v.c \in Seq(Entries(ValuesTo[n]))
  BY <1>3
<1> QED
  BY <1>2, <1>4, ValueMade

(* write_json_value adds one level. *)
LEMMA WriteValueBound ==
  ASSUME NEW n \in Nat, NEW write, NEW v \in Outputs, \A w \in Outputs : Bound(write[w], n)
  PROVE  Bound(WriteJsonValue(write, v), n + 1)
<1> DEFINE l == Len(v.c)
           vals == [j \in DOMAIN v.c |-> write[v.c[j].v]]
           keys == [j \in DOMAIN v.c |-> WriteKey(v.c[j].k)]
<1>1. /\ l \in Nat /\ DOMAIN v.c = 1..l
      /\ \A j \in 1..l : v.c[j].k \in Outputs /\ v.c[j].v \in Outputs
  BY OutputParts
<1>2. DOMAIN vals = 1..l /\ \A j \in 1..l : Bound(vals[j], n)
  BY <1>1
<1>3. \A w \in Outputs : WriteKey(w) = Defer \/ WriteKey(w) = Raise \/ \A d \in Nat \ {0} : Made(WriteKey(w), d)
  BY WriteStringBound DEF WriteKey
<1>4. /\ DOMAIN keys = 1..l
      /\ \A j \in 1..l : keys[j] = Defer \/ keys[j] = Raise \/ \A d \in Nat \ {0} : Made(keys[j], d)
  BY <1>1, <1>3
<1> HIDE DEF vals, keys
<1>5. CASE Atomic(v)
  <2>1. WriteJsonValue(write, v) = Ok(v)
    BY <1>5 DEF WriteJsonValue, Atomic, Mapping
  <2> QED
    BY <1>5, <2>1, AtomicMade DEF Bound, Made, Ok
<1>6. CASE v.t = "str"
  <2>1. WriteJsonValue(write, v) = WriteString(v)
    BY <1>6 DEF WriteJsonValue, Atomic, Mapping
  <2>2. WriteString(v) = Raise \/ Made(WriteString(v), n + 1)
    BY WriteStringBound, n + 1 \in Nat \ {0}
  <2> QED
    BY <2>1, <2>2 DEF Bound, Made
<1>7. CASE v.t \in {"list", "tuple"}
  <2>1. WriteJsonValue(write, v) = Collected("list", vals)
    BY <1>7 DEF WriteJsonValue, Atomic, Mapping, vals
  <2> QED
    BY <1>1, <1>2, <2>1, CollectedBound
<1>8. CASE Mapping(v)
  <2>1. WriteJsonValue(write, v) = Object(keys, vals)
    BY <1>8 DEF WriteJsonValue, Atomic, Mapping, keys, vals
  <2> QED
    BY <1>1, <1>2, <1>4, <2>1, ObjectBound
<1>9. CASE ~Atomic(v) /\ ~Mapping(v) /\ v.t \notin {"str", "list", "tuple"}
  <2>1. WriteJsonValue(write, v) = Defer
    BY <1>9 DEF WriteJsonValue
  <2> QED
    BY <2>1 DEF Bound
<1> QED
  BY <1>5, <1>6, <1>7, <1>8, <1>9

(* With n levels left, the writer writes no more than n. *)
LEMMA WriteBound ==
  ASSUME NEW n \in Nat, NEW v \in Outputs
  PROVE  Bound(WriteTo[n][v], n)
<1> DEFINE T == {m \in Nat : \A w \in Outputs : Bound(WriteTo[m][w], m)}
<1>1. 0 \in T
  BY NoLevel DEF Bound
<1>2. ASSUME NEW m \in Nat, m \in T  PROVE m + 1 \in T
  <2>1. \A w \in Outputs : Bound(WriteJsonValue(WriteTo[m], w), m + 1)
    BY <1>2, WriteValueBound
  <2> QED
    BY <2>1, WriteIs
<1> HIDE DEF T
<1>3. n \in T
  BY <1>1, <1>2, LevelInduction
<1> QED
  BY <1>3 DEF T

(* What is written through the depth limit is bound by it. *)
LEMMA WrittenBound ==
  ASSUME NEW r, NEW s, Agrees(r, s), NEW n \in Nat, n <= OutputDepth, s = Skip \/ Made(s, n)
  PROVE  Written(r) = Skip \/ Bound(Written(r), TopLevel)
<1>1. CASE r = Defer
  BY <1>1 DEF Written, Defer, Bound
<1>2. CASE r = s /\ s.o = "ok"
  <2>1. s.v \in Outputs
    BY <1>2, SmallIsOutput DEF Made, Skip, Raise
  <2>2. TopLevel \in Nat
    BY TextAssumption DEF TopLevel
  <2> QED
    BY <1>2, <2>1, <2>2, WriteBound DEF Written
<1>3. CASE r = s /\ s.o # "ok"
  <2>1. Written(r) = s
    BY <1>3 DEF Written
  <2>2. s = Skip \/ s = Raise
    BY <1>3, MadeOk
  <2> QED
    BY <2>1, <2>2 DEF Bound, Made
<1> QED
  BY <1>1, <1>2, <1>3 DEF Agrees

-----------------------------------------------------------------------------
(* Writers of fields of m levels nest in at most two levels for each of    *)
(* theirs and the limit.                                                   *)
WritersBound(writers) ==
  \A m \in Nat : \A f \in DOMAIN writers \cap FieldsTo[m] : \A v \in Values : Bound(writers[f][v], Below(m))

(* One field of write_json_one is bound. *)
LEMMA WriteSpecBound ==
  ASSUME NEW n \in Nat, n <= Levels, NEW m \in Nat, NEW writers, WritersBound(writers), NEW opts,
         NEW f \in FieldsTo[n], f \in FieldsTo[m], NEW obj \in ValuesTo[ValueDepth + 1]
  PROVE  WriteSpec(writers, n, opts, f, obj) = Skip \/ Bound(WriteSpec(writers, n, opts, f, obj), Below(m))
<1> DEFINE r == GetValue(obj, f.name)
           s == SerializeField(SerializeTo[n], opts, f, obj)
           d == ValueDepth + 2 * n
<1>1. TopLevel <= Below(m) /\ Below(m) \in Nat /\ TopLevel \in Nat
  BY BelowTop
<1>2. s = Skip \/ Made(s, d)
  BY SerializeFieldIs
<1>3. d \in Nat /\ d <= OutputDepth
  BY OutputBound
<1>4. Agrees(s, s)
  BY DEF Agrees
<1> HIDE DEF d, r, s
<1>5. CASE Callback(writers, opts, f)
  <2>1. WriteSpec(writers, n, opts, f, obj) = Written(s)
    BY <1>5 DEF WriteSpec, s
  <2>2. Written(s) = Skip \/ Bound(Written(s), TopLevel)
    BY <1>2, <1>3, <1>4, WrittenBound
  <2> QED
    BY <1>1, <2>1, <2>2, BoundGrow
<1>6. CASE ~Callback(writers, opts, f)
  <2>1. f \in DOMAIN writers
    BY <1>6 DEF Callback
  <2>2. Made(r, ValueDepth) /\ f.default \in Values
    BY GetValueMade, SerializeAssumption, FieldParts DEF r
  <2>3. \A w \in Values : Bound(writers[f][w], Below(m))
    BY <2>1 DEF WritersBound
  <2>4. WriteSpec(writers, n, opts, f, obj) =
          IF r.o # "ok" THEN r
          ELSE IF WithDefault(f, r.v) = Missing THEN Skip ELSE writers[f][WithDefault(f, r.v)]
    BY <1>6 DEF WriteSpec, Then, r
  <2>5. r.o = "ok" => WithDefault(f, r.v) \in Values
    BY <2>2, DefaultIsValue DEF Made, Raise, Values
  <2>6. r = Raise \/ r.o = "ok"
    BY <2>2, MadeOk
  <2>7. CASE r = Raise
    BY <2>4, <2>7 DEF Bound, Made, Raise
  <2>8. CASE r.o = "ok"
    BY <2>3, <2>4, <2>5, <2>8
  <2> QED
    BY <2>6, <2>7, <2>8
<1> QED
  BY <1>5, <1>6

(* write_json_one is bound, one level deeper than its fields. *)
LEMMA WriteJsonOneBound ==
  ASSUME NEW n \in Nat, n <= Levels, NEW m \in Nat, NEW writers, WritersBound(writers),
         NEW f \in FieldsTo[n + 1], f \in FieldsTo[m + 1], NEW obj \in ValuesTo[ValueDepth + 1]
  PROVE  Bound(WriteJsonOne(writers, n, f, obj), Below(m) + 1)
<1> DEFINE l == Len(f.inner)
           keys == JsonKeys(f)
           outs == WriteSpecs(writers, n, f, obj)
<1>1. /\ l \in Nat /\ DOMAIN f.inner = 1..l
      /\ \A j \in 1..l : f.inner[j] \in FieldsTo[n] /\ f.inner[j] \in FieldsTo[m]
  BY FieldParts, n + 1 \in Nat, (n + 1) - 1 = n, m + 1 \in Nat, (m + 1) - 1 = m
<1>2. DOMAIN keys = 1..l /\ DOMAIN outs = 1..l
  BY <1>1 DEF JsonKeys, WriteSpecs
<1>3. ASSUME NEW j \in 1..l  PROVE \A d \in Nat \ {0} : keys[j] \in ValuesTo[d]
  <2>1. f.inner[j].name.a \in STRING
    BY <1>1, FieldParts, ValueParts, 1 \in Nat
  <2>2. keys[j] = JsonString(f.inner[j].name.a)
    BY <1>1 DEF JsonKeys
  <2> QED
    BY <2>1, <2>2, StringTextMade
<1>4. \A j \in 1..l : outs[j] = Skip \/ Bound(outs[j], Below(m))
  BY <1>1, WriteSpecBound DEF WriteSpecs
<1>5. Below(m) \in Nat
  BY TextAssumption DEF Below
<1> HIDE DEF l, keys, outs
<1>6. Bound(RecordOf("dict", keys, outs), Below(m) + 1)
  BY <1>1, <1>2, <1>3, <1>4, <1>5, RecordBound
<1> QED
  BY <1>6 DEF WriteJsonOne, keys, outs

(* A writer is bound, two levels deeper than those in it. *)
LEMMA WriteJsonBound ==
  ASSUME QuietConstants, NEW n \in Nat, n + 1 <= Levels, NEW m \in Nat, NEW writers, WritersBound(writers),
         DOMAIN writers = DOMAIN Elements[n], NEW f \in DOMAIN Elements[n + 1], f \in FieldsTo[m + 1],
         NEW v \in Values
  PROVE  Bound(WriteJson(writers, n, f, v), Below(m + 1))
<1>1. /\ n + 1 \in Nat /\ f \in FieldsTo[n + 1] /\ HasElement(Elements[n], f) /\ m + 1 \in Nat
      /\ f.kind \in Kinds
  <2>1. f \in FieldsTo[n + 1] /\ HasElement(Elements[n], f)
    BY ElementsAre
  <2> QED
    BY <2>1, n + 1 \in Nat, m + 1 \in Nat, FieldParts
<1>2. /\ Below(m) \in Nat /\ Below(m + 1) \in Nat \ {0} /\ Below(m + 1) = (Below(m) + 1) + 1
      /\ TopLevel <= Below(m + 1) /\ TopLevel \in Nat /\ n <= Levels
  <2>1. DepthLimit \in Nat \ {0} /\ Levels \in Nat
    BY TextAssumption, SerializeAssumption
  <2> QED
    BY <2>1 DEF Below, TopLevel
<1>3. CASE Variant(f) \notin {"Nested", "List", "TemporalNative"}
  <2> DEFINE r == Elements[n + 1][f][v]
             s == SerializeTo[n + 1][f][v]
             d == ValueDepth + 2 * (n + 1)
  <2>1. WriteJson(writers, n, f, v) = Written(r)
    BY <1>3 DEF WriteJson
  <2>2. Agrees(r, s)
    BY <1>1, ElementsLikeStock DEF ElementsAgree
  <2>3. Made(s, d)
    BY <1>1, SerializeMade
  <2>4. d \in Nat /\ d <= OutputDepth
    BY <1>1, OutputBound
  <2> HIDE DEF r, s, d
  <2>5. Written(r) = Skip \/ Bound(Written(r), TopLevel)
    BY <2>2, <2>3, <2>4, WrittenBound
  <2>6. Written(r) # Skip
    <3>1. r = Defer \/ r = Raise \/ (r.o = "ok" /\ r.v \in Outputs)
      BY <2>2, <2>3, <2>4, MadeOk, SmallIsOutput DEF Agrees, Made
    <3>2. ASSUME r.o = "ok", r.v \in Outputs  PROVE Written(r) # Skip
      <4>1. Bound(WriteTo[TopLevel][r.v], TopLevel)
        BY <1>2, <3>2, WriteBound
      <4> QED
        BY <3>2, <4>1 DEF Written, Bound, Made, Ok, Skip, Defer, Raise
    <3> QED
      BY <3>1, <3>2 DEF Written, Defer, Raise, Skip
  <2> QED
    BY <1>2, <2>1, <2>5, <2>6, BoundGrow
<1>4. ASSUME Variant(f) \in {"Nested", "List", "TemporalNative"}, v = NoneVal
      PROVE  Bound(WriteJson(writers, n, f, v), Below(m + 1))
  <2>1. WriteJson(writers, n, f, v) = Ok(NoneVal)
    BY <1>4 DEF WriteJson
  <2> QED
    BY <1>2, <2>1, NoneIsValue DEF Bound, Made, Ok
<1>5. ASSUME Variant(f) \in {"Nested", "List", "TemporalNative"}, v # NoneVal, DefersUnread(f, v)
      PROVE  Bound(WriteJson(writers, n, f, v), Below(m + 1))
  BY <1>5 DEF WriteJson, Bound
<1>6. ASSUME Variant(f) \in {"Nested", "List", "TemporalNative"}, v # NoneVal, ~DefersUnread(f, v)
      PROVE  Bound(WriteJson(writers, n, f, v), Below(m + 1))
  <2>1. f.kind \in {"Nested", "List", "DateTime", "Date", "Time"}
    <3>1. f.kind # "Foreign"
      BY <1>1 DEF HasElement
    <3> QED
      BY <1>1, <1>6, <3>1, VariantIs DEF Kinds
  <2>2. /\ Len(v.c) \in Nat /\ DOMAIN v.c = 1..Len(v.c) /\ Values \subseteq ValuesTo[ValueDepth + 1]
        /\ \A j \in 1..Len(v.c) : Each(v)[j] \in Values
    BY Parts, SerializeAssumption, ValuesNext DEF Values
  <2>3. CASE f.kind \in {"DateTime", "Date", "Time"}
    <3>1. Variant(f) = "TemporalNative"
      BY <1>6, <2>3, VariantIs
    <3>2. WriteJson(writers, n, f, v) = IF v.t = NativeType(f) THEN Ok(Val("text", NativeText(v))) ELSE Defer
      BY <1>6, <3>1 DEF WriteJson
    <3>3. v.t = NativeType(f) => v.a \in DOMAIN Moments
      BY <2>3, Parts, NativeIs DEF WellFormed
    <3>4. v.t = NativeType(f) => NativeText(v) \in STRING
      BY <3>3, TextAssumption DEF NativeText
    <3>5. "text" \in STRING
      BY WordsAssumption DEF Words
    <3>6. v.t = NativeType(f) => Val("text", NativeText(v)) \in ValuesTo[Below(m + 1)]
      BY <1>2, <3>4, <3>5, ScalarMade
    <3> QED
      BY <3>2, <3>6 DEF Bound, Made, Ok
  <2>4. CASE f.kind = "List"
    <3> DEFINE outs == [j \in DOMAIN v.c |-> writers[f.inner[1]][Each(v)[j]]]
    <3>1. WriteJson(writers, n, f, v) = Comprehension(v, outs)
      BY <1>6, <2>4, VariantIs DEF WriteJson
    <3>2. 1 \in DOMAIN f.inner /\ f.inner[1] \in FieldsTo[m]
      BY <1>1, <2>4, FieldParts, (m + 1) - 1 = m DEF Furnished
    <3>3. f.inner[1] \in DOMAIN writers
      BY <1>1, <2>4, <3>2 DEF HasElement
    <3>4. \A w \in Values : Bound(writers[f.inner[1]][w], Below(m))
      BY <3>2, <3>3 DEF WritersBound
    <3>5. DOMAIN outs = 1..Len(v.c) /\ \A j \in 1..Len(v.c) : Bound(outs[j], Below(m))
      BY <2>2, <3>4
    <3> HIDE DEF outs
    <3>6. Bound(Comprehension(v, outs), Below(m) + 1)
      BY <1>2, <2>2, <3>5, ComprehensionBound
    <3> QED
      BY <1>2, <3>1, <3>6, BoundGrow
  <2>5. CASE f.kind = "Nested"
    <3>1. \A obj \in Values : Bound(WriteJsonOne(writers, n, f, obj), Below(m) + 1)
      BY <1>1, <1>2, <2>2, WriteJsonOneBound
    <3>2. CASE "many" \in f.opts
      <4> DEFINE outs == [j \in DOMAIN v.c |-> WriteJsonOne(writers, n, f, Each(v)[j])]
      <4>1. WriteJson(writers, n, f, v) = Comprehension(v, outs)
        BY <1>6, <2>5, <3>2, VariantIs DEF WriteJson
      <4>2. DOMAIN outs = 1..Len(v.c) /\ \A j \in 1..Len(v.c) : Bound(outs[j], Below(m) + 1)
        BY <2>2, <3>1
      <4>4. Below(m) + 1 \in Nat
        BY <1>2
      <4> HIDE DEF outs
      <4>3. Bound(Comprehension(v, outs), (Below(m) + 1) + 1)
        BY <2>2, <4>2, <4>4, ComprehensionBound
      <4> QED
        BY <1>2, <4>1, <4>3
    <3>3. CASE "many" \notin f.opts
      <4>1. WriteJson(writers, n, f, v) = WriteJsonOne(writers, n, f, v)
        BY <1>6, <2>5, <3>3, VariantIs DEF WriteJson
      <4> QED
        BY <1>2, <3>1, <4>1, BoundGrow
    <3> QED
      BY <3>2, <3>3
  <2> QED
    BY <2>1, <2>3, <2>4, <2>5
<1> QED
  BY <1>3, <1>4, <1>5, <1>6

(***************************************************************************)
(* R3 (src/json_writer.rs:127-130): what a field of m levels writes nests  *)
(* in at most two levels for each of them and the limit of the writer.     *)
(***************************************************************************)
THEOREM WritersNestBounded ==
  ASSUME QuietConstants, NEW n \in Nat, n <= Levels
  PROVE  WritersBound(Writers[n])
<1> DEFINE T == {k \in Nat : k <= Levels => WritersBound(Writers[k])}
<1>1. 0 \in T
  <2>1. DOMAIN Writers[0] = {}
    BY WritersUnfold
  <2> QED
    BY <2>1 DEF WritersBound
<1>2. ASSUME NEW k \in Nat, k \in T  PROVE k + 1 \in T
  <2> SUFFICES ASSUME k + 1 <= Levels  PROVE WritersBound(Writers[k + 1])
    OBVIOUS
  <2>1. k <= Levels
    BY SerializeAssumption
  <2>2. WritersBound(Writers[k]) /\ DOMAIN Writers[k + 1] = DOMAIN Elements[k + 1]
    BY <1>2, <2>1, WritersAre
  <2>3. DOMAIN Writers[k] = DOMAIN Elements[k]
    BY <2>1, WritersDomain
  <2> SUFFICES ASSUME NEW m \in Nat, NEW f \in DOMAIN Elements[k + 1], f \in FieldsTo[m], NEW v \in Values
               PROVE  Bound(Writers[k + 1][f][v], Below(m))
    BY <2>2 DEF WritersBound
  <2>4. m - 1 \in Nat /\ (m - 1) + 1 = m
    BY FieldParts
  <2>5. Writers[k + 1][f][v] = WriteJson(Writers[k], k, f, v)
    BY WritersAre
  <2>6. Bound(WriteJson(Writers[k], k, f, v), Below((m - 1) + 1))
    BY <2>2, <2>3, <2>4, WriteJsonBound
  <2> QED
    BY <2>4, <2>5, <2>6
<1> HIDE DEF T
<1>3. n \in T
  BY <1>1, <1>2, LevelInduction
<1> QED
  BY <1>3 DEF T

-----------------------------------------------------------------------------

(***************************************************************************)
(* The behaviour.                                                          *)
(***************************************************************************)

(* What an attempt left of a record is a record of the same shape. *)
LEMMA LeftByMade ==
  ASSUME NEW n \in Nat \ {0}, NEW record \in ValuesTo[n + 1], NEW f, NEW outs
  PROVE  /\ LeftBy(f, outs, record) \in ValuesTo[n + 1]
         /\ DOMAIN LeftBy(f, outs, record).c = DOMAIN record.c
<1> DEFINE empty == Container("iter", <<>>)
           Read(m) ==
             \E j \in DOMAIN f.inner : /\ f.inner[j].name = m.k /\ Reads(f.opts, f.inner[j], m.v)
                                       /\ \A l \in 1..j - 1 : outs[l].o \notin Stops
           c == [j \in DOMAIN record.c |->
                  IF Read(record.c[j]) THEN Entry(record.c[j].k, empty) ELSE record.c[j]]
<1>1. /\ n + 1 \in Nat /\ record.t \in STRING /\ record.a \in STRING /\ WellFormed(record)
      /\ Len(record.c) \in Nat /\ DOMAIN record.c = 1..Len(record.c)
      /\ \A j \in DOMAIN record.c : record.c[j].k \in ValuesTo[n] /\ record.c[j].v \in ValuesTo[n]
      /\ record = [t |-> record.t, a |-> record.a, c |-> record.c]
      /\ record.c \in Seq(Entries(ValuesTo[n]))
  BY ValueParts, n + 1 \in Nat, (n + 1) - 1 = n
<1>2. empty \in ValuesTo[n]
  <2>1. <<>> \in Seq(Entries(ValuesTo[n - 1]))
    OBVIOUS
  <2> QED
    BY <2>1, ContainerMade, n - 1 \in Nat, (n - 1) + 1 = n
<1>3. LeftBy(f, outs, record) = [record EXCEPT !.c = c]
  BY DEF LeftBy
<1>4. \A j \in DOMAIN record.c : c[j] = record.c[j] \/ c[j] = Entry(record.c[j].k, empty)
  OBVIOUS
<1>7. c = [j \in 1..Len(record.c) |-> c[j]]
  BY <1>1
<1> HIDE DEF c, empty
<1>5. LeftBy(f, outs, record) = [t |-> record.t, a |-> record.a, c |-> c]
  BY <1>1, <1>3
<1>6. ASSUME NEW j \in 1..Len(record.c)  PROVE c[j] \in Entries(ValuesTo[n])
  <2>1. record.c[j] \in Entries(ValuesTo[n])
    BY <1>1
  <2>2. Entry(record.c[j].k, empty) \in Entries(ValuesTo[n])
    BY <1>1, <1>2 DEF Entry, Entries
  <2> QED
    BY <1>1, <1>4, <2>1, <2>2
<1>8. c \in Seq(Entries(ValuesTo[n])) /\ Len(c) = Len(record.c) /\ DOMAIN c = DOMAIN record.c
  BY <1>1, <1>6, <1>7
<1>9. WellFormed([t |-> record.t, a |-> record.a, c |-> c])
  BY <1>1, <1>8 DEF WellFormed, Atomic, DateLike
<1> QED
  BY <1>1, <1>5, <1>8, <1>9, ValueMade

(* A record whose iterators no field reads is left as it was.              *)
LEMMA LeftAlone ==
  ASSUME NEW record, record = [t |-> record.t, a |-> record.a, c |-> record.c],
         NEW l \in Nat, record.c = [j \in 1..l |-> record.c[j]], NEW f, NEW outs,
         \A j \in DOMAIN f.inner : \A m \in DOMAIN record.c :
           f.inner[j].name = record.c[m].k => ~Reads(f.opts, f.inner[j], record.c[m].v)
  PROVE  LeftBy(f, outs, record) = record
BY DEF LeftBy

(* What is known of a call at each of its steps.                           *)
CallInv ==
  /\ \E case \in Cases : schema \in case.schemas /\ given \in case.records
  /\ TypeOK
  /\ current \in ValuesTo[ValueDepth + 1]
  /\ stage \in {"json", "run"} => ~Blocked(schema)
  /\ stage = "json" => entry = "dumps"

(* The schemas and records of the cases are typed. *)
LEMMA CaseIs ==
  ASSUME \E case \in Cases : schema \in case.schemas /\ given \in case.records
  PROVE  /\ schema \in FieldsTo[Levels + 1] /\ schema.kind = "Nested"
         /\ given \in ValuesTo[ValueDepth + 1]
BY CasesAssumption

(* An answer is a value, a text or an exception. *)
LEMMA AnsweredEnds ==
  ASSUME NEW r, Made(r, OutputDepth)
  PROVE  Answered(r).o \in {"ok", "raise"}
<1>1. OutputDepth \in Nat /\ PyDepth + 1 \in Nat
  BY SerializeAssumption DEF OutputDepth
<1>2. Answered(r) = r \/ Answered(r) = JsonText(r, PyDepth + 1)
  BY DEF Answered, JsonText
<1>3. Ended(JsonText(r, PyDepth + 1))
  BY <1>1, JsonTextEnded, OutputDepth <= OutputDepth
<1>4. r = Raise \/ r.o = "ok"
  BY MadeOk
<1> QED
  BY <1>2, <1>3, <1>4 DEF Ended, Raise

(* marshmallow's own serialization of the record. *)
LEMMA StockMade ==
  ASSUME schema \in FieldsTo[Levels + 1], NEW record \in ValuesTo[ValueDepth + 1]
  PROVE  Made(Stock(record), OutputDepth)
<1> DEFINE n == ValueDepth + 2 * Levels
<1>1. n \in Nat /\ ValueDepth <= n /\ Levels \in Nat /\ n + 1 = OutputDepth
  BY SerializeAssumption DEF OutputDepth
<1>2. \A g \in FieldsTo[Levels] : \A v \in Values : Made(SerializeTo[Levels][g][v], n)
  BY <1>1, SerializeMade
<1> HIDE DEF n
<1>3. Made(SerializeRecord(SerializeTo[Levels], schema, record), n + 1)
  BY <1>1, <1>2, SerializeRecordMade
<1> QED
  BY <1>1, <1>3 DEF Stock

(* DumpSerializer.run against it. *)
LEMMA RunDictAgrees ==
  ASSUME QuietConstants, schema \in FieldsTo[Levels + 1], ~Blocked(schema), NEW record \in ValuesTo[ValueDepth + 1]
  PROVE  Agrees(RunOne(Elements[Levels], Levels, schema, record), Stock(record))
<1>1. Levels \in Nat
  BY SerializeAssumption
<1>2. ElementsAgree(Elements[Levels], Levels)
  BY <1>1, ElementsLikeStock
<1> QED
  BY <1>1, <1>2, RunOneAgrees DEF Stock

(* DumpSerializer.run_json against json.dumps of it. *)
LEMMA RunJsonAgrees ==
  ASSUME QuietConstants, Encodable, schema \in FieldsTo[Levels + 1], ~Blocked(schema),
         NEW record \in ValuesTo[ValueDepth + 1]
  PROVE  Agrees(WriteJsonOne(Writers[Levels], Levels, schema, record), JsonText(Stock(record), PyDepth + 1))
<1>1. Levels \in Nat /\ Levels <= Levels /\ PyDepth \in Nat /\ DepthLimit \in Nat
  BY SerializeAssumption, TextAssumption
<1>2. WritersAgree(Writers[Levels], Levels)
  BY <1>1, WritersLikeStock
<1>3. Below(Levels) <= PyDepth
  BY <1>1, PyDepthAssumption DEF Below
<1> QED
  BY <1>1, <1>2, <1>3, WriteJsonOneAgrees DEF Stock

-----------------------------------------------------------------------------
(* An attempt that ends the call has a value or raises.                    *)
LEMMA JsonEnds ==
  ASSUME QuietConstants, CallInv, stage = "json"
  PROVE  LET r == WriteJsonOne(Writers[Levels], Levels, schema, current)
         IN  r = Defer \/ r.o \in {"ok", "raise"}
<1>1. schema \in FieldsTo[Levels + 1] /\ current \in ValuesTo[ValueDepth + 1]
  BY CaseIs DEF CallInv
<1>2. Levels \in Nat /\ Levels <= Levels
  BY SerializeAssumption
<1>3. WritersBound(Writers[Levels])
  BY <1>2, WritersNestBounded
<1>4. Bound(WriteJsonOne(Writers[Levels], Levels, schema, current), Below(Levels) + 1)
  BY <1>1, <1>2, <1>3, WriteJsonOneBound
<1> QED
  BY <1>4, BoundOk DEF Raise

(* run defers or answers. *)
LEMMA DictEnds ==
  ASSUME QuietConstants, CallInv, stage = "run"
  PROVE  LET r == RunOne(Elements[Levels], Levels, schema, current)
         IN  r = Defer \/ Answered(r).o \in {"ok", "raise"}
<1>1. schema \in FieldsTo[Levels + 1] /\ current \in ValuesTo[ValueDepth + 1] /\ ~Blocked(schema)
  BY CaseIs DEF CallInv
<1>2. Agrees(RunOne(Elements[Levels], Levels, schema, current), Stock(current))
  BY <1>1, RunDictAgrees
<1>3. Answered(Stock(current)).o \in {"ok", "raise"}
  BY <1>1, StockMade, AnsweredEnds
<1> QED
  BY <1>2, <1>3 DEF Agrees

(* marshmallow answers. *)
LEMMA StockEnds ==
  ASSUME CallInv
  PROVE  Answered(Stock(current)).o \in {"ok", "raise"}
<1>1. schema \in FieldsTo[Levels + 1] /\ current \in ValuesTo[ValueDepth + 1]
  BY CaseIs DEF CallInv
<1> QED
  BY <1>1, StockMade, AnsweredEnds

(* A step that ends the call keeps the types. *)
LEMMA EndKeeps ==
  ASSUME CallInv, NEW r, r.o \in {"ok", "raise"}, Keep, End(r)
  PROVE  CallInv'
<1>1. r # Pending
  BY DEF Pending
<1>2. /\ schema' = schema /\ entry' = entry /\ given' = given /\ current' = current
      /\ stage' = "done" /\ result' = r
  BY DEF Keep, End
<1>3. TypeOK'
  BY <1>1, <1>2 DEF CallInv, TypeOK
<1> QED
  BY <1>2, <1>3 DEF CallInv

(* A step that goes to the next attempt keeps the types. *)
LEMMA RetryKeeps ==
  ASSUME CallInv, NEW next \in {"run", "stock"}, next = "run" => ~Blocked(schema), stage # "done", NEW outs,
         Keep, Retry(next, outs)
  PROVE  CallInv'
<1>1. /\ schema' = schema /\ entry' = entry /\ given' = given /\ result' = result
      /\ stage' = next /\ current' = LeftBy(schema, outs, current)
  BY DEF Keep, Retry
<1>2. current' \in ValuesTo[ValueDepth + 1] /\ DOMAIN current'.c = DOMAIN current.c
  BY <1>1, LeftByMade, SerializeAssumption DEF CallInv
<1>3. TypeOK'
  BY <1>1, <1>2 DEF CallInv, TypeOK
<1> QED
  BY <1>1, <1>2, <1>3 DEF CallInv

(* Before the first attempt the types hold. *)
LEMMA CallStarts ==
  ASSUME Init
  PROVE  CallInv
<1>1. PICK case \in Cases : schema \in case.schemas /\ given \in case.records
  BY DEF Init
<1>2. current = given /\ result = Pending /\ entry \in {"dump", "dumps"}
      /\ stage = IF Blocked(schema) THEN "stock" ELSE IF entry = "dumps" THEN "json" ELSE "run"
  BY DEF Init
<1>3. TypeOK
  BY <1>2 DEF TypeOK
<1>4. current \in ValuesTo[ValueDepth + 1]
  BY <1>1, <1>2, CaseIs
<1> QED
  BY <1>1, <1>2, <1>3, <1>4 DEF CallInv

(* Every attempt keeps the types: one case per action of Next. *)
LEMMA CallSteps ==
  ASSUME QuietConstants, CallInv, [Next]_vars
  PROVE  CallInv'
<1>1. CASE RunJson
  <2> DEFINE r == WriteJsonOne(Writers[Levels], Levels, schema, current)
  <2>1. stage = "json" /\ ~Blocked(schema) /\ Keep
    BY <1>1 DEF RunJson, CallInv
  <2>2. r = Defer \/ r.o \in {"ok", "raise"}
    BY <2>1, JsonEnds
  <2>3. CASE r = Defer
    <3>1. Retry("run", WriteSpecs(Writers[Levels], Levels, schema, current))
      BY <1>1, <2>3 DEF RunJson
    <3> QED
      BY <2>1, <3>1, RetryKeeps
  <2>4. CASE r # Defer
    <3>1. End(r)
      BY <1>1, <2>4 DEF RunJson
    <3> HIDE DEF r
    <3> QED
      BY <2>1, <2>2, <2>4, <3>1, EndKeeps
  <2> QED
    BY <2>3, <2>4
<1>2. CASE RunDict
  <2> DEFINE r == RunOne(Elements[Levels], Levels, schema, current)
  <2>1. stage = "run" /\ Keep
    BY <1>2 DEF RunDict
  <2>2. r = Defer \/ Answered(r).o \in {"ok", "raise"}
    BY <2>1, DictEnds
  <2>3. CASE r = Defer
    <3>1. Retry("stock", RunSpecs(Elements[Levels], Levels, schema, current))
      BY <1>2, <2>3 DEF RunDict
    <3> QED
      BY <2>1, <3>1, RetryKeeps
  <2>4. CASE r # Defer
    <3>1. End(Answered(r))
      BY <1>2, <2>4 DEF RunDict
    <3> HIDE DEF r
    <3> QED
      BY <2>1, <2>2, <2>4, <3>1, EndKeeps
  <2> QED
    BY <2>3, <2>4
<1>3. CASE RunStock
  <2>1. Keep /\ End(Answered(Stock(current)))
    BY <1>3 DEF RunStock
  <2> QED
    BY <2>1, StockEnds, EndKeeps
<1>4. CASE UNCHANGED vars
  BY <1>4 DEF CallInv, TypeOK, vars
<1> QED
  BY <1>1, <1>2, <1>3, <1>4 DEF Next

(* A call that ended has a value or raised, whatever the schema and the    *)
(* record: no AccelFallback leaves it.                                     *)
THEOREM DumpTypes ==
  ASSUME QuietConstants
  PROVE  Spec => []TypeOK
<1>1. CallInv /\ [Next]_vars => CallInv'
  BY CallSteps
<1>2. CallInv => TypeOK
  BY DEF CallInv
<1> QED
  BY <1>1, <1>2, CallStarts, PTL DEF Spec

(***************************************************************************)
(* R3 (src/json_writer.rs:127-130): a text the writer makes nests in no    *)
(* more than two levels for each level of the schema's fields, and the     *)
(* limit, however deep the record is.                                      *)
(***************************************************************************)
THEOREM TextsNestBounded ==
  ASSUME QuietConstants
  PROVE  Spec => []BoundedNesting
<1>1. CallInv /\ [Next]_vars => CallInv'
  BY CallSteps
<1>2. CallInv => BoundedNesting
  <2> SUFFICES ASSUME CallInv, stage = "json", NEW n \in 1..Levels, schema \in FieldsTo[n + 1],
                      WriteJsonOne(Writers[Levels], Levels, schema, current).o = "ok"
               PROVE  WriteJsonOne(Writers[Levels], Levels, schema, current).v \in ValuesTo[2 * n + DepthLimit]
    BY DEF BoundedNesting
  <2>1. schema \in FieldsTo[Levels + 1] /\ current \in ValuesTo[ValueDepth + 1]
    BY CaseIs DEF CallInv
  <2>2. Levels \in Nat /\ Levels <= Levels /\ DepthLimit \in Nat /\ n \in Nat /\ Below(n) + 1 = 2 * n + DepthLimit
    BY SerializeAssumption, TextAssumption DEF Below
  <2>3. WritersBound(Writers[Levels])
    BY <2>2, WritersNestBounded
  <2>4. Bound(WriteJsonOne(Writers[Levels], Levels, schema, current), Below(n) + 1)
    BY <2>1, <2>2, <2>3, WriteJsonOneBound
  <2> QED
    BY <2>2, <2>4, BoundOk DEF Defer, Raise
<1> QED
  BY <1>1, <1>2, CallStarts, PTL DEF Spec

-----------------------------------------------------------------------------
(* N1: nothing that iterates is an element that walks into an iterator.    *)
LEMMA NoneReads ==
  ASSUME NEW opts, NEW f, NEW v,
         IsOneShotIterator(v) /\ Iterates(f) =>
           \/ "get_attribute" \in opts
           \/ f.kind # "Dict" /\ ~Callback(Elements[Levels], opts, f)
  PROVE  ~Reads(opts, f, v)
<1> SUFFICES ASSUME IsOneShotIterator(v), Iterates(f), "get_attribute" \notin opts, Reads(opts, f, v)
             PROVE  FALSE
  BY DEF Reads
<1>1. f.kind # "Dict" /\ ~Callback(Elements[Levels], opts, f)
  OBVIOUS
<1>2. f \in DOMAIN Elements[Levels]
  BY <1>1 DEF Callback
<1>3. Levels - 1 \in Nat /\ (Levels - 1) + 1 = Levels
  BY SerializeAssumption
<1>4. HasElement(Elements[Levels - 1], f)
  BY <1>2, <1>3, ElementsAre
<1>5. f.kind # "Foreign"
  BY <1>4 DEF HasElement
<1>6. DefersUnread(f, v) \/ f.kind = "Tuple"
  BY <1>1, <1>5 DEF Iterates, DefersUnread
<1> QED
  BY <1>1, <1>6 DEF Reads

(* With guarded iterators, an attempt that defers read none. *)
LEMMA RetryLeaves ==
  ASSUME GuardedIterators, CallInv, current = given, NEW next, NEW outs, Retry(next, outs)
  PROVE  current' = current
<1>1. PICK case \in Cases : schema \in case.schemas /\ current \in case.records
  BY DEF CallInv
<1>2. current' = LeftBy(schema, outs, current)
  BY DEF Retry
<1>3. /\ current = [t |-> current.t, a |-> current.a, c |-> current.c]
      /\ Len(current.c) \in Nat /\ DOMAIN current.c = 1..Len(current.c)
  BY ValueParts, SerializeAssumption, ValueDepth + 1 \in Nat DEF CallInv
<1>4. current.c = [j \in 1..Len(current.c) |-> current.c[j]]
  <2>1. current.c \in Seq(Entries(ValuesTo[(ValueDepth + 1) - 1]))
    BY ValueParts, SerializeAssumption, ValueDepth + 1 \in Nat DEF CallInv
  <2> QED
    BY <2>1
<1>5. \A j \in DOMAIN schema.inner : \A m \in DOMAIN current.c :
        schema.inner[j].name = current.c[m].k => ~Reads(schema.opts, schema.inner[j], current.c[m].v)
  <2> SUFFICES ASSUME NEW j \in DOMAIN schema.inner, NEW m \in DOMAIN current.c,
                      schema.inner[j].name = current.c[m].k
               PROVE  ~Reads(schema.opts, schema.inner[j], current.c[m].v)
    OBVIOUS
  <2> DEFINE f == schema.inner[j]
             v == current.c[m].v
  <2>1. IsOneShotIterator(v) /\ Iterates(f) =>
          \/ "get_attribute" \in schema.opts
          \/ f.kind # "Dict" /\ ~Callback(Elements[Levels], schema.opts, f)
    BY <1>1 DEF GuardedIterators
  <2> HIDE DEF f, v
  <2>2. ~Reads(schema.opts, f, v)
    BY <2>1, NoneReads
  <2> QED
    BY <2>2 DEF f, v
<1> QED
  BY <1>2, <1>3, <1>4, <1>5, LeftAlone

(* Every attempt keeps the record as given, until the call ends. *)
LEMMA SameSteps ==
  ASSUME QuietConstants, GuardedIterators, CallInv, stage # "done" => current = given, [Next]_vars
  PROVE  (stage # "done" => current = given)'
<1>1. ASSUME NEW next, NEW outs, Retry(next, outs), Keep, stage # "done"  PROVE current' = given'
  BY <1>1, RetryLeaves DEF Keep
<1>2. CASE RunJson
  BY <1>1, <1>2 DEF RunJson, End
<1>3. CASE RunDict
  BY <1>1, <1>3 DEF RunDict, End
<1>4. CASE RunStock
  BY <1>4 DEF RunStock, End
<1>5. CASE UNCHANGED vars
  BY <1>5 DEF vars
<1> QED
  BY <1>2, <1>3, <1>4, <1>5 DEF Next

(***************************************************************************)
(* N1 (src/dump/serializer.rs:296-300, 457-459): what an attempt leaves to *)
(* the next one is the record as it was given.                             *)
(***************************************************************************)
THEOREM RerunsAlike ==
  ASSUME QuietConstants, GuardedIterators
  PROVE  Spec => []RerunsSeeTheSame
<1> DEFINE Seen == stage # "done" => current = given
<1>1. Init => CallInv /\ Seen
  BY CallStarts DEF Init
<1>2. CallInv /\ Seen /\ [Next]_vars => CallInv' /\ Seen'
  BY CallSteps, SameSteps
<1>3. CallInv /\ Seen => RerunsSeeTheSame
  BY DEF RerunsSeeTheSame
<1> HIDE DEF Seen
<1> QED
  BY <1>1, <1>2, <1>3, PTL DEF Spec

(* Every attempt that ends the call ends it like stock: one case per action. *)
LEMMA StockSteps ==
  ASSUME QuietConstants, Encodable, CallInv, stage # "done" => current = given, DumpsLikeStock, [Next]_vars
  PROVE  DumpsLikeStock'
<1>1. schema \in FieldsTo[Levels + 1] /\ current \in ValuesTo[ValueDepth + 1]
  BY CaseIs DEF CallInv
<1>2. ASSUME NEW r, End(r), Keep, stage # "done", r = Answered(Stock(current))
      PROVE  DumpsLikeStock'
  <2>1. schema' = schema /\ given' = given /\ entry' = entry /\ current = given /\ result' = r
    BY <1>2 DEF End, Keep
  <2>2. Answered(Stock(given))' = Answered(Stock(given))
    BY <2>1 DEF Answered, Stock
  <2> QED
    BY <1>2, <2>1, <2>2 DEF DumpsLikeStock
<1>3. ASSUME NEW next, NEW outs, next # "done", Retry(next, outs)  PROVE DumpsLikeStock'
  BY <1>3 DEF Retry, DumpsLikeStock
<1>4. CASE RunJson
  <2> DEFINE r == WriteJsonOne(Writers[Levels], Levels, schema, current)
  <2>1. stage = "json" /\ Keep /\ ~Blocked(schema) /\ entry = "dumps"
    BY <1>4 DEF RunJson, CallInv
  <2>2. Agrees(r, JsonText(Stock(current), PyDepth + 1))
    BY <1>1, <2>1, RunJsonAgrees
  <2>3. JsonText(Stock(current), PyDepth + 1) = Answered(Stock(current))
    BY <2>1 DEF JsonText, Answered
  <2>4. IF r = Defer THEN Retry("run", WriteSpecs(Writers[Levels], Levels, schema, current)) ELSE End(r)
    BY <1>4 DEF RunJson
  <2> HIDE DEF r
  <2> QED
    BY <1>2, <1>3, <2>1, <2>2, <2>3, <2>4 DEF Agrees
<1>5. CASE RunDict
  <2> DEFINE r == RunOne(Elements[Levels], Levels, schema, current)
  <2>1. stage = "run" /\ Keep /\ ~Blocked(schema)
    BY <1>5 DEF RunDict, CallInv
  <2>2. Agrees(r, Stock(current))
    BY <1>1, <2>1, RunDictAgrees
  <2>3. IF r = Defer THEN Retry("stock", RunSpecs(Elements[Levels], Levels, schema, current)) ELSE End(Answered(r))
    BY <1>5 DEF RunDict
  <2> HIDE DEF r
  <2> QED
    BY <1>2, <1>3, <2>1, <2>2, <2>3 DEF Agrees
<1>6. CASE RunStock
  BY <1>2, <1>6 DEF RunStock
<1>7. CASE UNCHANGED vars
  BY <1>7 DEF vars, DumpsLikeStock, Answered, Stock
<1> QED
  BY <1>4, <1>5, <1>6, <1>7 DEF Next

(***************************************************************************)
(* README.md:7-9 and 51-54: the value, the text or the error of a call is  *)
(* that of marshmallow and json.dumps on the record as it was given, for   *)
(* every schema, every record, every nesting and every limit.              *)
(***************************************************************************)
THEOREM DumpLikeStock ==
  ASSUME QuietConstants, Encodable, GuardedIterators
  PROVE  Spec => []DumpsLikeStock
<1> DEFINE Seen == stage # "done" => current = given
           Inv == CallInv /\ Seen /\ DumpsLikeStock
<1>1. Init => Inv
  <2>1. Init => stage # "done" /\ current = given
    BY DEF Init
  <2> QED
    BY <2>1, CallStarts DEF DumpsLikeStock
<1>2. Inv /\ [Next]_vars => Inv'
  BY CallSteps, SameSteps, StockSteps
<1>3. Inv => DumpsLikeStock
  OBVIOUS
<1> HIDE DEF Inv
<1> QED
  BY <1>1, <1>2, <1>3, PTL DEF Spec
=============================================================================
