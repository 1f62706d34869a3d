----------------------------- MODULE JsonWriter -----------------------------
(***************************************************************************)
(* json_escape_into of src/json_writer.rs: one pass over the UTF-8 bytes   *)
(* of a string, in which runs of clean bytes are copied as they are.       *)
(* A string is the sequence of its code points, a text the sequence of its *)
(* bytes (all ASCII, once written), both as numbers.                       *)
(***************************************************************************)
EXTENDS Integers, Sequences

(* 0x10000, the first character above the BMP, and 0xD800 and 0xDC00. *)
Astral == 64 * 1024
HighBase == 54 * 1024
LowBase == 55 * 1024

CodePoint == 0..17 * Astral - 1
Surrogate(cp) == HighBase <= cp /\ cp < 56 * 1024

(* str::len_utf8, the bytes of a char, and the char that starts at byte i. *)
Utf8Len(cp) == IF cp < 128 THEN 1 ELSE IF cp < 2048 THEN 2 ELSE IF cp < Astral THEN 3 ELSE 4

Tail6(cp, shift) == 128 + ((cp \div shift) % 64)

Utf8(cp) ==
  CASE Utf8Len(cp) = 1 -> <<cp>>
    [] Utf8Len(cp) = 2 -> <<192 + cp \div 64, Tail6(cp, 1)>>
    [] Utf8Len(cp) = 3 -> <<224 + cp \div 4096, Tail6(cp, 64), Tail6(cp, 1)>>
    [] Utf8Len(cp) = 4 -> <<240 + cp \div 262144, Tail6(cp, 4096), Tail6(cp, 64), Tail6(cp, 1)>>

CharAt(bytes, i) ==
  LET b(k) == bytes[i + k] - 128
  IN  CASE bytes[i] < 224 -> (bytes[i] - 192) * 64 + b(1)
        [] bytes[i] \in 224..239 -> (bytes[i] - 224) * 4096 + b(1) * 64 + b(2)
        [] bytes[i] > 239 -> (bytes[i] - 240) * 262144 + b(1) * 4096 + b(2) * 64 + b(3)

-----------------------------------------------------------------------------
Hex(d) == IF d < 10 THEN 48 + d ELSE 87 + d

PushU4(cp) ==
  <<92, 117, Hex(cp \div 4096 % 16), Hex(cp \div 256 % 16), Hex(cp \div 16 % 16), Hex(cp % 16)>>

(* ESCAPE_TABLE. *)
Class(b) ==
  IF b \in {8, 9, 10, 12, 13, 34, 92} THEN "short"
  ELSE IF b < 32 \/ b = 127 THEN "control" ELSE IF b < 128 THEN "clean" ELSE "non_ascii"

Short(b) ==
  CASE b = 8 -> 98 [] b = 9 -> 116 [] b = 10 -> 110 [] b = 12 -> 102 [] b = 13 -> 114
    [] b \in {34, 92} -> b

High(cp) == HighBase + (cp - Astral) \div 1024
Low(cp) == LowBase + ((cp - Astral) % 1024)

EscapeNonAscii(cp) == IF cp < Astral THEN PushU4(cp) ELSE PushU4(High(cp)) \o PushU4(Low(cp))

(* The loop: buf is written for the bytes before last, a run is open from there to i. *)
Flush(bytes, st, n, text) ==
  [i |-> st.i + n, last |-> st.i + n,
   buf |-> st.buf \o SubSeq(bytes, st.last, st.i - 1) \o text]

EscapeByte(bytes, st) ==
  LET b == bytes[st.i]
  IN  CASE Class(b) = "clean" -> [st EXCEPT !.i = st.i + 1]
        [] Class(b) = "short" -> Flush(bytes, st, 1, <<92, Short(b)>>)
        [] Class(b) = "control" -> Flush(bytes, st, 1, PushU4(b))
        [] Class(b) = "non_ascii" ->
             Flush(bytes, st, Utf8Len(CharAt(bytes, st.i)), EscapeNonAscii(CharAt(bytes, st.i)))

JsonEscapeInto(bytes) ==
  LET scan[n \in 0..Len(bytes)] ==
        IF n = 0 THEN [i |-> 1, last |-> 1, buf |-> <<34>>]
        ELSE IF scan[n - 1].i > Len(bytes) THEN scan[n - 1]
        ELSE EscapeByte(bytes, scan[n - 1])
      end == scan[Len(bytes)]
  IN  end.buf \o SubSeq(bytes, end.last, Len(bytes)) \o <<34>>

-----------------------------------------------------------------------------
(* CPython's py_encode_basestring_ascii, of one character. *)
EncodeAscii(cp) ==
  IF cp \in {34, 92} THEN <<92, cp>>
  ELSE IF cp \in {8, 9, 10, 12, 13} THEN <<92, Short(cp)>>
  ELSE IF cp \in 32..126 THEN <<cp>>
  ELSE IF cp < Astral THEN PushU4(cp)
  ELSE PushU4(HighBase + (((cp - Astral) \div 1024) % 1024)) \o PushU4(LowBase + ((cp - Astral) % 1024))
=============================================================================
