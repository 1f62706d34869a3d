---------------------------- MODULE DumpRequest ----------------------------
(***************************************************************************)
(* A call of Schema.dump or Schema.dumps, and what stock marshmallow       *)
(* answers to it: pre_dump, Schema._serialize over the records, post_dump, *)
(* and for dumps json.dumps of what came out.                              *)
(***************************************************************************)
EXTENDS Naturals, Sequences

(***************************************************************************)
(* A record, by what the core and marshmallow make of it:                  *)
(*   plain        the core writes and serializes it                        *)
(*   unwritable   only the JSON writer defers (a dict with an int key)     *)
(*   unencodable  the writer defers, and json.dumps raises (a Decimal)     *)
(*   misfit       the core defers, marshmallow serializes it (a generator  *)
(*                in a List field)                                         *)
(*   misfit_bad   the core defers, marshmallow raises (a Tuple of another  *)
(*                length)                                                  *)
(*   bad          a field raises, in the core and in marshmallow           *)
(***************************************************************************)
Records == {"plain", "unwritable", "unencodable", "misfit", "misfit_bad", "bad"}

Defers(stage) ==
  IF stage = "json" THEN {"unwritable", "unencodable", "misfit", "misfit_bad"} ELSE {"misfit", "misfit_bad"}

Failing == {"bad", "misfit_bad"}

(***************************************************************************)
(* many:     the effective many; without it there is one record, which     *)
(*           nobody iterates                                               *)
(* source:   what the caller passes, pre: what the pre_dump hooks do, and  *)
(*           returns: what they hand to _serialize.  Each is a list or     *)
(*           tuple, an iterator that can be read once, None, which         *)
(*           _serialize takes for one record ("if many and obj is not      *)
(*           None"), or opaque: an object that cannot be iterated          *)
(* default:  dumps has no extra arguments and its render_module is json    *)
(* compiled: the schema has a plan                                         *)
(* override: its class overrides dump, and answers in its own way          *)
(***************************************************************************)
Listable == {"sequence", "iterator"}
Sources == Listable \cup {"None", "opaque"}
Verdicts == {"absent", "ok", "error"}

CallType ==
  [entry: {"dump", "dumps"}, many: BOOLEAN, source: Sources, default: BOOLEAN, compiled: BOOLEAN,
   override: BOOLEAN, pre: Verdicts, returns: Sources, post: Verdicts, items: Seq(Records)]

WellFormed(c) ==
  /\ c \in CallType
  /\ ~c.many => Len(c.items) = 1 /\ c.source = "sequence" /\ c.returns = "sequence"
  /\ c.pre = "absent" => c.returns = c.source
  /\ c.returns = "None" => Len(c.items) = 1

Outcome(kind, n) == [kind |-> kind, n |-> n]
Pending == Outcome("pending", 0)
Raised(by) == Outcome(by, 0)      \* by a hook, by json.dumps, by iterating the object
RaisedAt(k) == Outcome("record", k)
Returned(n) == Outcome("result", n)   \* n records serialized
Overridden == Outcome("override", 0)

FirstFailing(c, k) ==
  k \in DOMAIN c.items /\ c.items[k] \in Failing /\ \A j \in 1..k - 1 : c.items[j] \notin Failing

Fails(c) == \E k \in DOMAIN c.items : c.items[k] \in Failing

StockOutcome(c) ==
  IF c.override THEN Overridden
  ELSE IF c.pre = "error" THEN Raised("pre")
  ELSE IF c.returns = "opaque" THEN Raised("iterate")
  ELSE IF Fails(c) THEN RaisedAt(CHOOSE k \in DOMAIN c.items : FirstFailing(c, k))
  ELSE IF c.post = "error" THEN Raised("post")
  ELSE IF c.entry = "dumps" /\ \E k \in DOMAIN c.items : c.items[k] = "unencodable" THEN Raised("json")
  ELSE Returned(Len(c.items))
=============================================================================
