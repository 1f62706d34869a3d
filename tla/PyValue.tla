------------------------------ MODULE PyValue ------------------------------
(***************************************************************************)
(* Python values, as far as the elements of the core tell them apart: a    *)
(* type, an atom for what the value is within its type, and the entries of *)
(* a container in order.  A list or tuple has entries without a key.       *)
(* Numbers that are equal in Python have the same atom.  "subint" and      *)
(* "substr" stand for subclasses of int and str, and an "evil" object is   *)
(* interrupted (KeyboardInterrupt) by whatever calls one of its methods.   *)
(*                                                                         *)
(* A parsed JSON value (jiter::JsonValue) is written the same way; only    *)
(* its objects may repeat a key.                                           *)
(***************************************************************************)
EXTENDS Naturals, Sequences, SequencesExt, FiniteSets

Val(type, atom) == [t |-> type, a |-> atom, c |-> <<>>]

Unkeyed == Val("", "")
NoneVal == Val("NoneType", "None")

Container(type, entries) == [t |-> type, a |-> "", c |-> entries]
Entry(k, v) == [k |-> k, v |-> v]

ListOf(type, vals) == Container(type, [j \in DOMAIN vals |-> Entry(Unkeyed, vals[j])])
DictOf(entries) == Container("dict", entries)
Items(v) == [j \in DOMAIN v.c |-> v.c[j].v]

ListLike(v) == v.t \in {"list", "tuple"}
Mapping(v) == v.t \in {"dict", "ordered"}
Hashable(v) == v.t # "list" /\ ~Mapping(v)

PyEq(v, w) ==
  IF {v.t, w.t} \subseteq {"bool", "int", "subint", "float"}
  THEN v.a = w.a /\ v.a # "nan"
  ELSE v = w

HasKey(entries, k) == \E j \in DOMAIN entries : PyEq(entries[j].k, k)

(* The value of the last entry with the key. *)
GetItem(entries, k) ==
  entries[CHOOSE j \in DOMAIN entries :
            /\ PyEq(entries[j].k, k)
            /\ \A l \in DOMAIN entries : PyEq(entries[l].k, k) => l <= j].v

-----------------------------------------------------------------------------
(***************************************************************************)
(* What a call comes to: a value, a ValidationError ("invalid"), another   *)
(* Exception ("raise"), a KeyboardInterrupt ("interrupt"), or, in the core *)
(* only, an AccelFallback ("defer").                                       *)
(***************************************************************************)
Ok(v) == [o |-> "ok", v |-> v]
Invalid == [o |-> "invalid", v |-> NoneVal]
Raise == [o |-> "raise", v |-> NoneVal]
Interrupted == [o |-> "interrupt", v |-> NoneVal]
Defer == [o |-> "defer", v |-> NoneVal]

Vals(outs) == [j \in DOMAIN outs |-> outs[j].v]

(* What stops a sequence of steps first, if anything does. *)
FirstIn(outs, kinds) ==
  outs[CHOOSE j \in DOMAIN outs :
         /\ outs[j].o \in kinds
         /\ \A l \in 1..j - 1 : outs[l].o \notin kinds]

(* What follows a value; any other outcome is passed on. *)
Then(r, F(_)) == IF r.o = "ok" THEN F(r.v) ELSE r

Some(outs, kinds) == \E j \in DOMAIN outs : outs[j].o \in kinds
-----------------------------------------------------------------------------
(* The members of a set of numbers, in order. *)
InOrder(K) ==
  CHOOSE s \in [1..Cardinality(K) -> K] : \A i, j \in DOMAIN s : i < j => s[i] < s[j]

(* d[k] = v for the entries in order: the first of equal keys stays, with the last value. *)
Same(keys, j) == {l \in DOMAIN keys : l = j \/ PyEq(keys[l], keys[j])}
LastOf(K) == CHOOSE l \in K : \A m \in K : m <= l
Assigned(keys, vals) ==
  LET firsts == InOrder({j \in DOMAIN keys : \A l \in Same(keys, j) : j <= l})
  IN  IF \E j \in DOMAIN keys : ~Hashable(keys[j]) THEN Raise
      ELSE Ok(DictOf([i \in DOMAIN firsts |->
                        Entry(keys[firsts[i]], vals[LastOf(Same(keys, firsts[i]))])]))
=============================================================================
