------------------------------ MODULE Temporal ------------------------------
(***************************************************************************)
(* src/temporal.rs: the ISO text of a datetime, date or time, and of its   *)
(* UTC offset, next to what CPython's isoformat() gives.                   *)
(*                                                                         *)
(* A text is the sequence of the numbers and signs in it; padding and      *)
(* separators follow from their places, so an optional part is tagged.     *)
(*                                                                         *)
(* A moment is a record: type, the numbers of its date and of its time,    *)
(* its microseconds, and its utcoffset() as a set, empty for None.  A      *)
(* timedelta is normalised as CPython keeps it: 0 <= seconds < Day,        *)
(* 0 <= us < UsPerSecond, and only the days may be negative.               *)
(***************************************************************************)
EXTENDS Integers, Sequences

(* 1000000 in the code; TLC's integers have 32 bits, its runs take less. *)
CONSTANT UsPerSecond

ASSUME UsPerSecondAssumption == UsPerSecond \in Nat \ {0}

Day == 24 * 3600

Optional(tag, n) == IF n # 0 THEN <<tag, n>> ELSE <<>>

(* ":SS" and ".ffffff" of an offset: the seconds if there are microseconds, too. *)
SecondsPart(ss, us) ==
  IF ss = 0 /\ us = 0 THEN <<>> ELSE <<"s", ss>> \o Optional("us", us)

OffsetText(sign, hh, mm, ss, us) == <<sign, hh, mm>> \o SecondsPart(ss, us)

-----------------------------------------------------------------------------
(* write_utcoffset: sign and magnitude of the offset in microseconds. *)
TotalUs(delta) == (delta.days * Day + delta.seconds) * UsPerSecond + delta.us

(* Mutant: the sign is that of the days, the carry of the seconds is lost. *)
WriteUtcOffsetByDays(delta) ==
  OffsetText(IF delta.days < 0 THEN "-" ELSE "+", delta.seconds \div 3600,
             (delta.seconds \div 60) % 60, delta.seconds % 60, delta.us)

WriteMagnitude(sign, abs_us) ==
  LET abs_s == abs_us \div UsPerSecond
  IN  OffsetText(sign, abs_s \div 3600, (abs_s \div 60) % 60, abs_s % 60, abs_us % UsPerSecond)

WriteUtcOffset(delta) ==
  IF TotalUs(delta) < 0 THEN WriteMagnitude("-", -TotalUs(delta))
  ELSE WriteMagnitude("+", TotalUs(delta))

(* write_temporal_native, of a moment of the type the field is for. *)
WriteTime(text, m) ==
  text \o m.time \o Optional("us", m.us)
    \o (IF m.offset = {} THEN <<>> ELSE WriteUtcOffset(CHOOSE delta \in m.offset : TRUE))

WriteTemporal(m) == IF m.type = "date" THEN m.date ELSE WriteTime(m.date, m)

-----------------------------------------------------------------------------
(* CPython: -delta, normalised again, then divmod by an hour and a minute. *)
Negated(delta) ==
  LET seconds == -delta.seconds + ((-delta.us) \div UsPerSecond)
  IN  [days |-> -delta.days + (seconds \div Day),
       seconds |-> seconds % Day,
       us |-> (-delta.us) % UsPerSecond]

DivmodText(sign, delta) ==
  LET hour_rest == delta.seconds % 3600
  IN  OffsetText(sign, delta.days * 24 + delta.seconds \div 3600,
                 hour_rest \div 60, hour_rest % 60, delta.us)

FormatOffset(delta) ==
  IF delta.days < 0 THEN DivmodText("-", Negated(delta)) ELSE DivmodText("+", delta)

IsoFormat(m) ==
  m.date \o m.time \o Optional("us", m.us)
    \o (IF m.offset = {} THEN <<>> ELSE FormatOffset(CHOOSE delta \in m.offset : TRUE))

(* What utcoffset() may return: strictly between -24 and 24 hours. *)
Offset(delta) ==
  /\ delta.days \in {-1, 0} /\ delta.seconds \in 0..Day - 1 /\ delta.us \in 0..UsPerSecond - 1
  /\ delta.days = -1 => delta.seconds + delta.us > 0
=============================================================================
