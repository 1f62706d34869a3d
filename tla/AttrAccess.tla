----------------------------- MODULE AttrAccess -----------------------------
(***************************************************************************)
(* How the dump core reads a key of an object (attr_access.rs): a dict at  *)
(* once, anything else by item and then by attribute, with one slot per    *)
(* thread that remembers, for the type of the object probed last, whether  *)
(* that object had __getitem__.  Reading runs user code (properties,       *)
(* __getattr__, __getitem__), which may dump again on the same thread.  A  *)
(* dotted key is one such reading per part.                                *)
(***************************************************************************)
EXTENDS Naturals, Sequences, SequencesExt

CONSTANTS
  Addresses,     \* where type objects live
  DictType,      \* the address of dict
  MaxRuns        \* bound: runs within runs

NoType == "none"

ASSUME AttrAssumption ==
  DictType \in Addresses /\ NoType \notin Addresses /\ MaxRuns \in Nat \ {0}

(* Whether a class has __getitem__, and what hasattr(obj, "__getitem__")   *)
(* says of an object: what its class does, or what an attribute of its     *)
(* own, its __getattr__ or its __getattribute__ makes of it.               *)
Kinds == {"indexable", "plain"}
Answers == Kinds \cup {"raises"}

Probed == [type: Addresses, own: Answers \cup {"class"}]

(* An object that is read, by its type, by its answer to hasattr, and by   *)
(* what obj[key], if its class has items, and getattr(obj, key) do:        *)
(* "caught" is a KeyError, IndexError, TypeError or AttributeError.  A     *)
(* missing value, looked into for the next part of a dotted key, is a      *)
(* plain object without attributes.                                        *)
Objects ==
  [type: Addresses, own: Answers \cup {"class"},
   item: {"value", "caught", "error"}, attr: {"value", "AttributeError", "error"}]

NoReading == [type |-> NoType, core |-> "none", stock |-> "none"]
Idle == <<>>

VARIABLES
  types,    \* the kind of the class at each address
  slot,     \* INDEXABLE_LAST: [type, kind]
  runs,     \* the runs under way, each with the object that it probes, if any
  told,     \* history: the answers of the objects read since the last clearing
  reading   \* the last reading, and what marshmallow's would be

attrVars == <<types, slot, runs, told, reading>>

Empty == [type |-> NoType, kind |-> "plain"]
Untold == [a \in Addresses |-> {}]

AttrInit ==
  /\ types \in [Addresses -> Kinds] /\ types[DictType] = "indexable"
  /\ slot = Empty /\ runs = <<>> /\ told = Untold /\ reading = NoReading

(* hasattr(obj, "__getitem__") asks the object. *)
HasGetItem(o) == IF o.own = "class" THEN types[o.type] ELSE o.own

(* obj[key] asks the class only, and raises TypeError if it has no items.  *)
Item(o) == IF types[o.type] = "indexable" THEN o.item ELSE "caught"

ByAttribute(o) ==
  CASE o.attr = "value" -> "attribute"
    [] o.attr = "AttributeError" -> "missing"
    [] o.attr = "error" -> "attribute error"

ByItem(o) ==
  CASE Item(o) = "value" -> "item"
    [] Item(o) = "caught" -> ByAttribute(o)
    [] Item(o) = "error" -> "item error"

(* get_one, once it holds has_getitem. *)
GetOne(o, kind) ==
  CASE kind = "indexable" -> ByItem(o)
    [] kind = "plain" -> ByAttribute(o)
    [] kind = "raises" -> "probe error"

(* marshmallow's _get_value_for_key asks every object it reads. *)
GetValueForKey(o) == GetOne(o, HasGetItem(o))

(* o is read, by the core on the strength of an answer.                    *)
ReadAs(o, kind) ==
  /\ reading' = [type |-> o.type, core |-> GetOne(o, kind), stock |-> GetValueForKey(o)]
  /\ told' = [told EXCEPT ![o.type] = @ \cup {HasGetItem(o)}]

-----------------------------------------------------------------------------
(* Mutant of Cleared: the slot outlives the run. *)
ClearedNever == slot

Cleared == Empty

(* DumpSerializer::run or run_json: the outermost, or one from user code   *)
(* under another.                                                          *)
StartRun ==
  /\ Len(runs) < MaxRuns
  /\ runs' = Append(runs, Idle) /\ slot' = Cleared /\ told' = Untold
  /\ reading' = NoReading
  /\ UNCHANGED types

EndRun ==
  /\ runs # <<>> /\ Last(runs) = Idle
  /\ runs' = Front(runs)
  /\ UNCHANGED <<types, slot, told, reading>>

(* get_value: a key, or each part of a dotted key, is one reading of one object. *)
Reads(o) == runs # <<>> /\ Last(runs) = Idle /\ o \in Objects

(* An exact dict: it answers as dict does, and its item is there or not.   *)
ReadDict(o) ==
  /\ Reads(o) /\ o.type = DictType /\ o.own = "class" /\ o.item # "error"
  /\ reading' = [type |-> o.type, core |-> IF o.item = "value" THEN "item" ELSE ByAttribute(o),
                stock |-> GetValueForKey(o)]
  /\ UNCHANGED <<types, slot, runs, told>>

ReadCached(o) ==
  /\ Reads(o) /\ o.type # DictType /\ o.type = slot.type
  /\ ReadAs(o, slot.kind)
  /\ UNCHANGED <<types, slot, runs>>

(* hasattr runs user code before it answers. *)
Probe(q) ==
  /\ runs # <<>> /\ Last(runs) = Idle
  /\ q.type # DictType /\ q.type # slot.type
  /\ runs' = Append(Front(runs), <<q>>)
  /\ UNCHANGED <<types, slot, told, reading>>

(* Mutant of Remembered: a probe that raised is remembered too. *)
RememberedAlways(o) == [type |-> o.type, kind |-> HasGetItem(o)]

(* One object's answer is kept for its type; one that raised is not.       *)
Remembered(o) ==
  IF HasGetItem(o) = "raises" THEN slot ELSE [type |-> o.type, kind |-> HasGetItem(o)]

ReadProbed(o) ==
  /\ runs # <<>> /\ Last(runs) = <<[type |-> o.type, own |-> o.own]>>
  /\ ReadAs(o, HasGetItem(o)) /\ slot' = Remembered(o)
  /\ runs' = Append(Front(runs), Idle)
  /\ UNCHANGED types

(* A class gains or loses __getitem__, or is freed and another one is      *)
(* allocated where it was, during a run or between runs.                   *)
Retype(a) ==
  /\ a # DictType
  /\ \E k \in Kinds : types' = [types EXCEPT ![a] = k]
  /\ reading' = NoReading
  /\ UNCHANGED <<slot, runs, told>>

AttrNext ==
  \/ StartRun \/ EndRun
  \/ \E o \in Objects : ReadDict(o) \/ ReadCached(o) \/ ReadProbed(o)
  \/ \E q \in Probed : Probe(q)
  \/ \E a \in Addresses : Retype(a)

AttrSpec == AttrInit /\ [][AttrNext]_attrVars

-----------------------------------------------------------------------------
(* The slot never holds a probe that raised, nor dict, which is not probed. *)
Probes == {Idle} \cup {<<q>> : q \in {p \in Probed : p.type # DictType}}

AttrTypeOK ==
  /\ types \in [Addresses -> Kinds]
  /\ slot \in [type: Addresses \ {DictType}, kind: Kinds] \cup {Empty}
  /\ runs \in Seq(Probes) /\ Len(runs) <= MaxRuns
  /\ told \in [Addresses -> SUBSET Answers]
  /\ reading.type \in Addresses \cup {NoType}

(* The objects of a type that were read since the slot was last cleared    *)
(* said the same of __getitem__.                                           *)
Alike(a) == a \in Addresses => \A x, y \in told[a] : x = y

(* Whatever was read before, by this run, by runs within it and by runs    *)
(* that ended, and whatever became of the classes: as long as the objects  *)
(* of its type read in this run said the same to hasattr, a reading takes  *)
(* the way marshmallow's takes, item, attribute or error, though the       *)
(* object itself is not asked (attr_access.rs 69-85).                      *)
LookupLikeStock == Alike(reading.type) => reading.core = reading.stock

(* What "Replicates marshmallow.utils._get_value_for_key" says: every      *)
(* reading takes the way marshmallow's takes.  It does not, where objects  *)
(* of one type differ: the answer of the first is taken for the others.    *)
EveryLookupLikeStock == reading.core = reading.stock

-----------------------------------------------------------------------------
(* The inductive invariant of its proof: what the slot says of a type, an  *)
(* object of that type said since the slot was last cleared.               *)
SlotTold == slot # Empty => slot.kind \in told[slot.type]

AttrInv ==
  /\ AttrTypeOK /\ types[DictType] = "indexable"
  /\ SlotTold /\ LookupLikeStock
=============================================================================
