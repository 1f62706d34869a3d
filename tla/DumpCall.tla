------------------------------ MODULE DumpCall ------------------------------
(***************************************************************************)
(* Schema.dump and Schema.dumps with the core installed: _patched_dumps    *)
(* and its fused writer, marshmallow's own dump around _patched_serialize, *)
(* and the records again in pure Python after an AccelFallback             *)
(* (python/marshmallow_core/_patch.py).  One call from entry to outcome.   *)
(***************************************************************************)
EXTENDS DumpRequest

CONSTANT Calls   \* the calls of dump and dumps

VARIABLES
  request,   \* the call, its records and its hooks
  phase,     \* where the call is
  held,      \* the object in hand: a sequence, or an iterator
  first,     \* the first record that object still yields
  item,      \* the record the pass is at
  attempts,  \* how often each record's fields, callbacks among them, have run
  ran,       \* how often each kind of hook has run
  outcome

vars == <<request, phase, held, first, item, attempts, ran, outcome>>

Promise == INSTANCE StockDump WITH request <- request, reply <- outcome

ASSUME CallsWellFormed == \A c \in Calls : WellFormed(c)

Hooks == {"pre", "post"}
Phases == {"dumps", "json", "dump", "serialize", "run", "orig", "post", "render", "returned"}

Init ==
  /\ request \in Calls
  /\ phase = request.entry /\ held = request.source /\ first = 1 /\ item = 1
  /\ attempts = [k \in DOMAIN request.items |-> 0]
  /\ ran = [h \in Hooks |-> 0]
  /\ outcome = Pending

HasDumpHooks == request.pre # "absent" \/ request.post # "absent"

(* Mutant of Fusable: the hook test is dropped. *)
FusableHooked == request.default /\ request.compiled

Fusable == request.default /\ ~HasDumpHooks /\ request.compiled

(* Mutant of Materialized: the caller's iterator is used as it is. *)
MaterializedNever == held

(* list(obj), unless obj is a list or tuple or there is one record. *)
Materialized == IF request.many THEN "sequence" ELSE held

(* list(obj) of None, or of what cannot be iterated, is a TypeError. *)
ListFails == request.many /\ held \notin Listable

Goto(p) == phase' = p /\ UNCHANGED outcome

Return(o) == phase' = "returned" /\ outcome' = o

(* The pass over the records begins again: an iterator goes on behind the  *)
(* record that was deferred.                                               *)
Again(p) ==
  /\ Goto(p)
  /\ first' = IF held = "sequence" THEN first ELSE item + 1
  /\ item' = first'

(* The pass goes to the next record. *)
Forth == item' = item + 1 /\ UNCHANGED <<phase, first, outcome>>

Fail == Return(RaisedAt(item)) /\ UNCHANGED <<first, item>>

Attempt(n) == attempts' = [attempts EXCEPT ![item] = @ + n]

Ran(h) == ran' = [ran EXCEPT ![h] = IF request[h] = "absent" THEN @ ELSE @ + 1]

Serialized == Returned(Len(request.items) + 1 - first)

AtRecord(p) == phase = p /\ item <= Len(request.items)

PastRecords(p) == phase = p /\ item > Len(request.items)

-----------------------------------------------------------------------------
(* _patched_dumps: the object is made a list before any pre_dump hook or   *)
(* overriding dump sees it.                                                *)
PatchedDumps ==
  /\ phase = "dumps"
  /\ \/ ListFails /\ Return(Raised("iterate")) /\ UNCHANGED held
     \/ ~ListFails /\ held' = Materialized /\ Goto(IF Fusable THEN "json" ELSE "dump")
  /\ UNCHANGED <<request, first, item, attempts, ran>>

(* Mutant of WriteRecord: what the writer cannot write is an error.        *)
WriteRecordStrict ==
  /\ AtRecord("json")
  /\ Attempt(1)
  /\ IF request.items[item] = "plain" THEN Forth ELSE Fail
  /\ UNCHANGED <<request, held, ran>>

(* js.run_json at one record: the buffer so far is dropped with an error.  *)
WriteRecord ==
  /\ AtRecord("json")
  /\ Attempt(1)
  /\ LET r == request.items[item] IN
     \/ r = "bad" /\ Fail
     \/ r \in Defers("json") /\ Again("dump")
     \/ r = "plain" /\ Forth
  /\ UNCHANGED <<request, held, ran>>

(* Mutant of WriteDone: the last record is not taken for the last. *)
WriteDoneLate ==
  /\ phase = "json" /\ item > Len(request.items) + 1
  /\ Return(Serialized)
  /\ UNCHANGED <<request, held, first, item, attempts, ran>>

WriteDone ==
  /\ PastRecords("json")
  /\ Return(Serialized)
  /\ UNCHANGED <<request, held, first, item, attempts, ran>>

(* marshmallow's dump: the pre_dump hooks. *)
Dump ==
  /\ phase = "dump"
  /\ \/ request.override /\ Return(Overridden) /\ UNCHANGED <<held, ran>>
     \/ /\ ~request.override
        /\ Ran("pre")
        /\ held' = IF request.pre = "absent" THEN held ELSE request.returns
        /\ IF request.pre = "error" THEN Return(Raised("pre")) ELSE Goto("serialize")
  /\ UNCHANGED <<request, first, item, attempts>>

PatchedSerialize ==
  /\ phase = "serialize"
  /\ \/ ListFails /\ Return(Raised("iterate")) /\ UNCHANGED held
     \/ ~ListFails /\ held' = Materialized /\ Goto(IF request.compiled THEN "run" ELSE "orig")
  /\ UNCHANGED <<request, first, item, attempts, ran>>

(* Mutant of RunRecord: the fallback calls the patched method again. *)
RunRecordRetried ==
  /\ AtRecord("run")
  /\ Attempt(1)
  /\ LET r == request.items[item] IN
     \/ r = "bad" /\ Fail
     \/ r \in Defers("run") /\ Again("serialize")
     \/ r \notin Defers("run") \cup {"bad"} /\ Forth
  /\ UNCHANGED <<request, held, ran>>

(* ds.run at one record: the records before it are given up with it.       *)
RunRecord ==
  /\ AtRecord("run")
  /\ Attempt(1)
  /\ LET r == request.items[item] IN
     \/ r = "bad" /\ Fail
     \/ r \in Defers("run") /\ Again("orig")
     \/ r \notin Defers("run") \cup {"bad"} /\ Forth
  /\ UNCHANGED <<request, held, ran>>

RunDone ==
  /\ PastRecords("run")
  /\ Goto("post")
  /\ UNCHANGED <<request, held, first, item, attempts, ran>>

(* _orig_serialize at one record.  For a list it calls self._serialize,    *)
(* the patched one, on each: the core tries once more.                     *)
OrigRecord ==
  /\ AtRecord("orig")
  /\ LET r == request.items[item]
         tries == request.many /\ request.compiled /\ r \in Defers("run")
     IN  /\ Attempt(IF tries THEN 2 ELSE 1)
         /\ IF r \in Failing THEN Fail ELSE Forth
  /\ UNCHANGED <<request, held, ran>>

OrigDone ==
  /\ PastRecords("orig")
  /\ Goto("post")
  /\ UNCHANGED <<request, held, first, item, attempts, ran>>

(* marshmallow's dump: the post_dump hooks. *)
PostDump ==
  /\ phase = "post"
  /\ Ran("post")
  /\ IF request.post = "error" THEN Return(Raised("post"))
     ELSE IF request.entry = "dumps" THEN Goto("render")
     ELSE Return(Serialized)
  /\ UNCHANGED <<request, held, first, item, attempts>>

(* render_module.dumps of what dump returned. *)
Render ==
  /\ phase = "render"
  /\ Return(IF \E k \in DOMAIN request.items : request.items[k] = "unencodable"
            THEN Raised("json") ELSE Serialized)
  /\ UNCHANGED <<request, held, first, item, attempts, ran>>

Next ==
  \/ PatchedDumps \/ WriteRecord \/ WriteDone \/ Dump \/ PatchedSerialize
  \/ RunRecord \/ RunDone \/ OrigRecord \/ OrigDone \/ PostDump \/ Render

Spec == Init /\ [][Next]_vars /\ WF_vars(Next)

-----------------------------------------------------------------------------
Kinds == {"pending", "pre", "iterate", "record", "post", "json", "result", "override"}

(* Each pass starts with every record still to come (first = 1).           *)
TypeOK ==
  /\ request \in Calls /\ phase \in Phases /\ held \in Sources
  /\ first = 1 /\ item \in 1..(Len(request.items) + 1)
  /\ attempts \in [DOMAIN request.items -> Nat] /\ ran \in [Hooks -> Nat]
  /\ outcome \in [kind: Kinds, n: Nat]

(* Where the core makes a list of an object, marshmallow iterates that     *)
(* very object: no None is taken for records, and dumps is not handed what *)
(* a pre_dump hook or an overriding dump has yet to make records of.       *)
ListsLikeStock(c) ==
  /\ c.returns # "None"
  /\ c.entry = "dumps" /\ (c.pre # "absent" \/ c.override) => c.source \in Listable

(* The call keeps the promise of the stock one: it never does anything but *)
(* return stock's answer: as many records, the error of the same record or *)
(* hook, whatever was consumed, discarded and run again on the way         *)
(* (_patch.py R1: "both paths must replay the same sequence").             *)
RefinesPromise == Promise!Safety

(* And it does return, whatever deferred and was run again on the way.     *)
CallReturns == Promise!Returns

(* A record's callback fields run once, and once more for each attempt     *)
(* given up: the fused one, the one over all records, and in a list the    *)
(* one over the record itself.  Four times at most, and never again        *)
(* without a record that made the core defer.                              *)
Deferred(stage) == \E k \in DOMAIN request.items : request.items[k] \in Defers(stage)

One(condition) == IF condition THEN 1 ELSE 0

FusedAttempts == One(request.entry = "dumps" /\ Deferred("json"))

CoreAttempts == FusedAttempts + One(Deferred("run"))

OwnAttempts(k) == 1 + One(request.many /\ request.items[k] \in Defers("run"))

AttemptsBounded ==
  \A k \in DOMAIN request.items : attempts[k] <= CoreAttempts + OwnAttempts(k)

(* No deferral runs a hook a second time, and no call succeeds without     *)
(* the hooks its class has: not through the fused writer either.           *)
HooksRunOnce ==
  \A h \in Hooks :
    /\ ran[h] <= 1
    /\ outcome.kind = "result" => (ran[h] = 1 <=> request[h] # "absent")

(* _patch.py R1: "materialize one-shot iterables".  No call fails for that *)
(* which stock answers in another way.                                     *)
OnlyIteratorsListed ==
  outcome = Raised("iterate") => StockOutcome(request) = Raised("iterate")

(* README.md: dumps writes its JSON "byte-for-byte identical to            *)
(* json.dumps(schema.dump(obj))".                                          *)
DumpsLikeDump == outcome # Pending => outcome = StockOutcome(request)

-----------------------------------------------------------------------------
(* The inductive invariant of DumpCallProofs: what each pass has seen is   *)
(* clean, the hooks that ran are those before the phase, and the attempts  *)
(* are those of the passes given up and of the present one.                *)
Like(o) == held = o \/ (held \in Listable /\ o \in Listable)

Clean(n, kinds) == \A k \in 1..n : request.items[k] \notin kinds

PassInv ==
  /\ phase # "returned" => outcome = Pending
  /\ phase = "returned" /\ ~request.override /\ ListsLikeStock(request) =>
       outcome = StockOutcome(request)
  /\ phase \in {"dumps", "dump"} => Like(request.source)
  /\ phase = "serialize" => Like(request.returns)
  /\ phase \in {"json", "run", "orig", "post", "render"} => request.returns \in Listable
  /\ ~request.many => held = "sequence"
  /\ phase \in {"dumps", "dump", "serialize"} => item = 1
  /\ phase \notin {"dumps", "dump", "serialize", "returned"} => held = "sequence"
  /\ phase \in {"dumps", "json", "render"} => request.entry = "dumps"
  /\ phase = "json" => ~HasDumpHooks /\ Clean(item - 1, Defers("json") \cup {"bad"})
  /\ phase \in {"serialize", "run", "orig", "post", "render"} =>
       ~request.override /\ request.pre # "error"
  /\ phase \in {"run", "orig"} => Clean(item - 1, Failing)
  /\ phase \in {"post", "render"} => ~Fails(request)
  /\ phase = "render" => request.post # "error"

RanInv ==
  /\ HooksRunOnce
  /\ phase \in {"dumps", "json", "dump"} => ran["pre"] = 0
  /\ phase \in {"serialize", "run", "orig", "post", "render"} =>
       ran["pre"] = One(request.pre # "absent")
  /\ phase \notin {"render", "returned"} => ran["post"] = 0
  /\ phase = "render" => ran["post"] = One(request.post # "absent")

GivenUp ==
  CASE phase \in {"dumps", "json"}             -> 0
    [] phase \in {"dump", "serialize", "run"}  -> FusedAttempts
    [] OTHER                                   -> CoreAttempts

Passed(k) ==
  IF k >= item THEN 0 ELSE IF phase = "orig" THEN OwnAttempts(k) ELSE 1

AttemptsInv ==
  IF phase \in {"post", "render", "returned"} THEN AttemptsBounded
  ELSE \A k \in DOMAIN request.items : attempts[k] <= GivenUp + Passed(k)

DumpInv == TypeOK /\ PassInv /\ RanInv /\ AttemptsInv
=============================================================================
