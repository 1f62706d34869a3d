--------------------------- MODULE DumpCallProofs ---------------------------
(***************************************************************************)
(* Proofs about DumpCall: type correctness, how often records and hooks    *)
(* run, and that the call implements the stock one of StockDump.           *)
(***************************************************************************)
EXTENDS DumpCall, SequenceTheorems, TLAPS

(* What a well-formed call looks like. *)
LEMMA RequestTyped ==
  ASSUME NEW c, WellFormed(c)
  PROVE  /\ c.items \in Seq(Records) /\ Len(c.items) \in Nat
         /\ DOMAIN c.items = 1..Len(c.items)
         /\ \A k \in DOMAIN c.items : c.items[k] \in Records
         /\ c.many \in BOOLEAN /\ c.source \in Sources /\ c.returns \in Sources
         /\ c.override \in BOOLEAN /\ c.entry \in {"dump", "dumps"}
         /\ c.pre \in Verdicts /\ c.post \in Verdicts
         /\ c.compiled \in BOOLEAN
         /\ ~c.many => c.source = "sequence" /\ c.returns = "sequence"
         /\ c.pre = "absent" => c.returns = c.source
<1>1. c.items \in Seq(Records)
  BY DEF WellFormed, CallType
<1>2. DOMAIN c.items = 1..Len(c.items) /\ Len(c.items) \in Nat
  BY <1>1, LenProperties
<1>3. \A k \in DOMAIN c.items : c.items[k] \in Records
  BY <1>1, <1>2, ElementOfSeq
<1> QED
  BY <1>1, <1>2, <1>3 DEF WellFormed, CallType

(* The promise speaks of the same calls and answers. *)
LEMMA SameAnswer ==
  /\ \A c : Promise!StockOutcome(c) = StockOutcome(c)
  /\ \A c : Promise!WellFormed(c) <=> WellFormed(c)
  /\ Promise!Pending = Pending
<1>1. \A c, k : Promise!FirstFailing(c, k) <=> FirstFailing(c, k)
  BY DEF Promise!FirstFailing, FirstFailing, Promise!Failing, Failing
<1>2. \A c : Promise!Fails(c) <=> Fails(c)
  BY DEF Promise!Fails, Fails, Promise!Failing, Failing
<1>3. \A c : (CHOOSE k \in DOMAIN c.items : Promise!FirstFailing(c, k))
             = (CHOOSE k \in DOMAIN c.items : FirstFailing(c, k))
  BY <1>1, Zenon
<1>4. \A c : Promise!StockOutcome(c) = StockOutcome(c)
  BY <1>2, <1>3 DEF Promise!StockOutcome, StockOutcome, Promise!Overridden, Overridden,
     Promise!Raised, Raised, Promise!RaisedAt, RaisedAt, Promise!Returned, Returned,
     Promise!Outcome, Outcome
<1>5. \A c : Promise!WellFormed(c) <=> WellFormed(c)
  BY DEF Promise!WellFormed, WellFormed, Promise!CallType, CallType, Promise!Sources, Sources,
     Promise!Listable, Listable, Promise!Verdicts, Verdicts, Promise!Records, Records
<1> QED
  BY <1>4, <1>5 DEF Promise!Pending, Pending, Promise!Outcome, Outcome

(* Stock stops at the first record that fails. *)
LEMMA FirstFailure ==
  ASSUME NEW c, WellFormed(c), NEW k \in DOMAIN c.items, c.items[k] \in Failing,
         \A j \in 1..k - 1 : c.items[j] \notin Failing
  PROVE  Fails(c) /\ RaisedAt(CHOOSE j \in DOMAIN c.items : FirstFailing(c, j)) = RaisedAt(k)
<1> DEFINE j == CHOOSE n \in DOMAIN c.items : FirstFailing(c, n)
<1>1. FirstFailing(c, k)
  BY DEF FirstFailing
<1>2. j \in DOMAIN c.items /\ FirstFailing(c, j)
  BY <1>1
<1>3. j \in Nat /\ k \in Nat /\ k \in 1..Len(c.items) /\ j \in 1..Len(c.items)
  BY <1>2, RequestTyped
<1>4. ~(j < k) /\ ~(k < j)
  BY <1>2, <1>3 DEF FirstFailing
<1>5. j = k
  BY <1>3, <1>4
<1> QED
  BY <1>5 DEF Fails

(* The attempts a record can have are few. *)
LEMMA FewAttempts ==
  /\ FusedAttempts \in 0..1 /\ CoreAttempts \in Nat
  /\ FusedAttempts <= CoreAttempts
  /\ \A k : OwnAttempts(k) \in 1..2
BY DEF FusedAttempts, CoreAttempts, OwnAttempts, One

(* What every step may use of the state it starts from. *)
LEMMA StateTyped ==
  ASSUME TypeOK
  PROVE  /\ WellFormed(request) /\ first = 1 /\ item \in Nat /\ item >= 1
         /\ item <= Len(request.items) + 1 /\ Len(request.items) \in Nat
         /\ DOMAIN request.items = 1..Len(request.items)
         /\ DOMAIN attempts = DOMAIN request.items
         /\ \A k \in DOMAIN request.items : attempts[k] \in Nat /\ request.items[k] \in Records
         /\ \A h \in Hooks : ran[h] \in Nat
         /\ Returned(Len(request.items)) = Serialized
BY CallsWellFormed, RequestTyped DEF TypeOK, Serialized, Returned, Outcome

(* Counting an attempt keeps the counters typed. *)
LEMMA AttemptTyped ==
  ASSUME TypeOK, item <= Len(request.items), NEW n \in 1..2, Attempt(n)
  PROVE  /\ attempts' \in [DOMAIN request.items -> Nat]
         /\ attempts'[item] = attempts[item] + n
         /\ \A k \in DOMAIN request.items : k # item => attempts'[k] = attempts[k]
BY StateTyped DEF TypeOK, Attempt

(* Counting a hook keeps the counters typed. *)
LEMMA RanTyped ==
  ASSUME TypeOK, NEW h \in Hooks, Ran(h)
  PROVE  /\ ran' \in [Hooks -> Nat]
         /\ ran'[h] = ran[h] + One(request[h] # "absent")
         /\ \A g \in Hooks : g # h => ran'[g] = ran[g]
<1>1. ran[h] \in Nat /\ DOMAIN ran = Hooks
  BY DEF TypeOK
<1>2. CASE request[h] = "absent"
  BY <1>1, <1>2 DEF TypeOK, Ran, One
<1>3. CASE request[h] # "absent"
  BY <1>1, <1>3 DEF TypeOK, Ran, One
<1> QED
  BY <1>2, <1>3

(* A sequence in hand yields every record again. *)
LEMMA AgainFromTheStart ==
  ASSUME TypeOK, held = "sequence", NEW p, Again(p)
  PROVE  phase' = p /\ first' = 1 /\ item' = 1 /\ UNCHANGED outcome
BY DEF TypeOK, Again, Goto

(* The serializer is given a sequence, or the call fails before it.        *)
LEMMA Materializes ==
  ASSUME PassInv, ~ListFails
  PROVE  Materialized = "sequence" /\ (~request.many \/ held \in Listable)
BY DEF PassInv, Materialized, ListFails

(* What the list is made of is listable, and so is what it stands for.     *)
LEMMA Listed ==
  ASSUME TypeOK, PassInv, ~ListFails, NEW o, Like(o), ~request.many => o = "sequence"
  PROVE  o \in Listable
BY DEF TypeOK, Like, ListFails, Listable

(* What cannot be made a list is what was handed over.                     *)
LEMMA Unlisted ==
  ASSUME TypeOK, PassInv, ListFails, NEW o, Like(o)
  PROVE  held = o /\ o \in {"None", "opaque"}
BY DEF TypeOK, Like, ListFails, Listable, Sources

(* The three outcomes of one record in a pass. *)
LEMMA RecordStep ==
  ASSUME TypeOK, PassInv, WriteRecord \/ RunRecord \/ OrigRecord
  PROVE  /\ phase \in {"json", "run", "orig"} /\ UNCHANGED <<request, held, ran, first>>
         /\ item \in DOMAIN request.items
         /\ \E n \in 1..2 : Attempt(n) /\ n <= (IF phase = "orig" THEN OwnAttempts(item) ELSE 1)
         /\ \/ /\ phase' = phase /\ item' = item + 1 /\ UNCHANGED outcome
               /\ request.items[item] \notin Failing
               /\ phase = "json" => request.items[item] \notin Defers("json") \cup {"bad"}
            \/ /\ phase = "json" /\ phase' = "dump" /\ item' = 1 /\ UNCHANGED outcome
               /\ Deferred("json")
            \/ /\ phase = "run" /\ phase' = "orig" /\ item' = 1 /\ UNCHANGED outcome
               /\ Deferred("run")
            \/ /\ phase' = "returned" /\ outcome' = RaisedAt(item) /\ item' = item
               /\ request.items[item] \in Failing
<1> USE DEF Failing
<1>0. item \in DOMAIN request.items /\ request.items[item] \in Records
  BY StateTyped DEF WriteRecord, RunRecord, OrigRecord, AtRecord
<1>1. CASE WriteRecord
  <2>1. phase = "json" /\ held = "sequence" /\ UNCHANGED <<request, held, ran>> /\ Attempt(1)
    BY <1>1 DEF WriteRecord, AtRecord, PassInv
  <2>2. CASE request.items[item] = "bad" /\ Fail
    BY <1>0, <2>1, <2>2 DEF Fail, Return
  <2>3. CASE request.items[item] \in Defers("json") /\ Again("dump")
    BY <1>0, <2>1, <2>3, AgainFromTheStart, StateTyped DEF Deferred
  <2>4. CASE request.items[item] = "plain" /\ Forth
    BY <1>0, <2>1, <2>4 DEF Forth, Defers
  <2> QED
    BY <1>1, <2>2, <2>3, <2>4 DEF WriteRecord
<1>2. CASE RunRecord
  <2>1. phase = "run" /\ held = "sequence" /\ UNCHANGED <<request, held, ran>> /\ Attempt(1)
    BY <1>2 DEF RunRecord, AtRecord, PassInv
  <2>2. CASE request.items[item] = "bad" /\ Fail
    BY <1>0, <2>1, <2>2 DEF Fail, Return
  <2>3. CASE request.items[item] \in Defers("run") /\ Again("orig")
    BY <1>0, <2>1, <2>3, AgainFromTheStart, StateTyped DEF Deferred
  <2>4. CASE request.items[item] \notin Defers("run") \cup {"bad"} /\ Forth
    BY <1>0, <2>1, <2>4 DEF Forth, Defers
  <2> QED
    BY <1>2, <2>2, <2>3, <2>4 DEF RunRecord
<1>3. CASE OrigRecord
  <2> DEFINE tries == request.many /\ request.compiled /\ request.items[item] \in Defers("run")
  <2>1. phase = "orig" /\ held = "sequence" /\ UNCHANGED <<request, held, ran>>
        /\ Attempt(IF tries THEN 2 ELSE 1)
        /\ IF request.items[item] \in Failing THEN Fail ELSE Forth
    BY <1>3 DEF OrigRecord, AtRecord, PassInv
  <2>2. (IF tries THEN 2 ELSE 1) <= OwnAttempts(item) /\ (IF tries THEN 2 ELSE 1) \in 1..2
    BY DEF OwnAttempts, One
  <2> QED
    BY <1>0, <2>1, <2>2 DEF Fail, Return, Forth
<1> QED
  BY <1>1, <1>2, <1>3

(* Every step keeps the types: one case per action of Next. *)
LEMMA TypeStep ==
  ASSUME TypeOK, PassInv, Next
  PROVE  TypeOK'
<1>1. CASE WriteRecord \/ RunRecord \/ OrigRecord
  <2>1. PICK n \in 1..2 : Attempt(n)
    BY <1>1, RecordStep
  <2>2. attempts' \in [DOMAIN request.items -> Nat]
    BY <1>1, <2>1, RecordStep, StateTyped, AttemptTyped
  <2>3. item' \in 1..Len(request.items) + 1 /\ phase' \in Phases
    BY <1>1, RecordStep, StateTyped DEF Phases
  <2>4. outcome' \in [kind: Kinds, n: Nat]
    BY <1>1, RecordStep, StateTyped DEF TypeOK, RaisedAt, Outcome, Kinds
  <2> QED
    BY <1>1, <2>2, <2>3, <2>4, RecordStep DEF TypeOK
<1>2. CASE PatchedDumps \/ PatchedSerialize
  <2>1. held' \in Sources
    BY <1>2, Materializes DEF TypeOK, PatchedDumps, PatchedSerialize, Sources, Listable
  <2>2. phase' \in Phases /\ outcome' \in [kind: Kinds, n: Nat]
    BY <1>2 DEF TypeOK, PatchedDumps, PatchedSerialize, Goto, Return, Raised, Outcome, Kinds, Phases
  <2> QED
    BY <1>2, <2>1, <2>2 DEF TypeOK, PatchedDumps, PatchedSerialize
<1>3. CASE WriteDone \/ RunDone \/ OrigDone \/ Render
  BY <1>3, StateTyped DEF TypeOK, WriteDone, RunDone, OrigDone, Render, Goto, Return, Phases,
     Serialized, Returned, Raised, Outcome, Kinds
<1>4. CASE Dump
  <2>1. request.returns \in Sources
    BY StateTyped, RequestTyped
  <2>2. ran' \in [Hooks -> Nat]
    BY <1>4, RanTyped DEF Dump, TypeOK, Hooks
  <2> QED
    BY <1>4, <2>1, <2>2 DEF TypeOK, Dump, Goto, Return, Phases, Overridden, Raised, Outcome, Kinds
<1>5. CASE PostDump
  <2>1. ran' \in [Hooks -> Nat]
    BY <1>5, RanTyped DEF PostDump, Hooks
  <2> QED
    BY <1>5, <2>1, StateTyped DEF TypeOK, PostDump, Goto, Return, Phases, Serialized, Returned,
       Raised, Outcome, Kinds
<1> QED
  BY <1>1, <1>2, <1>3, <1>4, <1>5 DEF Next

-----------------------------------------------------------------------------
(* What stock answers, once the pass knows enough of the records. *)
LEMMA AnswerAtRecord ==
  ASSUME TypeOK, item \in DOMAIN request.items, request.items[item] \in Failing,
         Clean(item - 1, Failing), ~request.override, request.pre # "error",
         request.returns \in Listable
  PROVE  RaisedAt(item) = StockOutcome(request)
<1>1. \A j \in 1..item - 1 : request.items[j] \notin Failing
  BY DEF Clean
<1> QED
  BY <1>1, StateTyped, FirstFailure DEF StockOutcome, Listable

(* A pass that is through left no record of these kinds behind. *)
LEMMA NothingFails ==
  ASSUME TypeOK, item > Len(request.items), NEW kinds, Clean(item - 1, kinds)
  PROVE  \A k \in DOMAIN request.items : request.items[k] \notin kinds
BY StateTyped DEF Clean

(* Passing a record of another kind keeps the pass clean. *)
LEMMA CleanForth ==
  ASSUME TypeOK, NEW kinds, Clean(item - 1, kinds), item \in DOMAIN request.items,
         request.items[item] \notin kinds, request' = request, item' = item + 1
  PROVE  Clean(item - 1, kinds)'
<1>1. \A k \in 1..item' - 1 : k = item \/ k \in 1..item - 1
  BY StateTyped
<1> QED
  BY <1>1 DEF Clean

(* Every step keeps PassInv: one case per action of Next. *)
LEMMA PassStep ==
  ASSUME TypeOK, PassInv, Next
  PROVE  PassInv'
<1>0. /\ request.returns \in Sources /\ request.source \in Sources
      /\ ~request.many => request.source = "sequence" /\ request.returns = "sequence"
      /\ request.pre = "absent" => request.returns = request.source
  BY StateTyped, RequestTyped
<1>1. CASE WriteRecord \/ RunRecord \/ OrigRecord
  <2> DEFINE r == request.items[item]
  <2>1. phase \in {"json", "run", "orig"} /\ UNCHANGED <<request, held>> /\ held = "sequence"
        /\ item \in DOMAIN request.items /\ outcome = Pending /\ request.returns \in Listable
    BY <1>1, RecordStep DEF PassInv
  <2>2. CASE /\ phase' = phase /\ item' = item + 1 /\ UNCHANGED outcome /\ r \notin Failing
             /\ phase = "json" => r \notin Defers("json") \cup {"bad"}
    <3>1. phase = "json" => Clean(item - 1, Defers("json") \cup {"bad"})'
      BY <2>1, <2>2, CleanForth DEF PassInv
    <3>2. phase \in {"run", "orig"} => Clean(item - 1, Failing)'
      BY <2>1, <2>2, CleanForth DEF PassInv
    <3> QED
      BY <2>1, <2>2, <3>1, <3>2 DEF PassInv, HasDumpHooks, Defers
  <2>3. CASE /\ \/ phase = "json" /\ phase' = "dump"
                \/ phase = "run" /\ phase' = "orig"
             /\ item' = 1 /\ UNCHANGED outcome
    <3>1. Clean(item - 1, Failing)'
      BY <2>3 DEF Clean
    <3>2. phase = "json" => Like(request.source)'
      BY <1>0, <2>1 DEF PassInv, HasDumpHooks, Like, Listable
    <3> QED
      BY <2>1, <2>3, <3>1, <3>2 DEF PassInv
  <2>4. CASE /\ phase' = "returned" /\ outcome' = RaisedAt(item) /\ item' = item /\ r \in Failing
    <3>1. request.override \/ request.pre # "error"
      BY <2>1 DEF PassInv, HasDumpHooks
    <3>2. Clean(item - 1, Failing)
      BY <2>1 DEF PassInv, Clean, Failing, Defers
    <3>3. request.override \/ outcome' = StockOutcome(request)
      BY <2>1, <2>4, <3>1, <3>2, AnswerAtRecord
    <3> QED
      BY <2>1, <2>4, <3>3 DEF PassInv
  <2> QED
    BY <1>1, <2>2, <2>3, <2>4, RecordStep
<1>2. CASE PatchedDumps
  <2>1. phase = "dumps" /\ UNCHANGED <<request, item>> /\ item = 1 /\ Like(request.source)
        /\ request.entry = "dumps" /\ outcome = Pending
    BY <1>2 DEF PatchedDumps, PassInv
  <2>2. CASE ListFails /\ Return(Raised("iterate")) /\ UNCHANGED held
    <3>1. held = request.source /\ request.source \notin Listable
      BY <2>1, <2>2, Unlisted DEF Listable
    <3>2. ~request.override /\ ListsLikeStock(request) => Raised("iterate") = StockOutcome(request)
      BY <1>0, <2>1, <3>1 DEF ListsLikeStock, StockOutcome, Sources
    <3> QED
      BY <2>1, <2>2, <3>2 DEF PassInv, Return
  <2>3. CASE ~ListFails /\ held' = Materialized /\ Goto(IF Fusable THEN "json" ELSE "dump")
    <3>1. Clean(item - 1, Defers("json") \cup {"bad"})'
      BY <2>1 DEF Clean
    <3>2. request.source \in Listable /\ held' = "sequence"
      BY <1>0, <2>1, <2>3, Listed, Materializes
    <3>3. phase' = "json" => ~HasDumpHooks /\ request.returns \in Listable
      BY <1>0, <2>3, <3>2 DEF Goto, Fusable, HasDumpHooks
    <3>4. Like(request.source)'
      BY <2>1, <3>2 DEF Like, Listable
    <3> QED
      BY <2>1, <2>3, <3>1, <3>2, <3>3, <3>4 DEF PassInv, Goto, HasDumpHooks
  <2> QED
    BY <1>2, <2>2, <2>3 DEF PatchedDumps
<1>3. CASE PatchedSerialize
  <2>1. phase = "serialize" /\ UNCHANGED <<request, item>> /\ item = 1 /\ Like(request.returns)
        /\ ~request.override /\ request.pre # "error" /\ outcome = Pending
    BY <1>3 DEF PatchedSerialize, PassInv
  <2>2. CASE ListFails /\ Return(Raised("iterate")) /\ UNCHANGED held
    <3>1. request.returns \in {"None", "opaque"}
      BY <2>1, <2>2, Unlisted
    <3>2. ListsLikeStock(request) => Raised("iterate") = StockOutcome(request)
      BY <2>1, <3>1 DEF ListsLikeStock, StockOutcome
    <3> QED
      BY <2>1, <2>2, <3>2 DEF PassInv, Return
  <2>3. CASE ~ListFails /\ held' = Materialized
             /\ Goto(IF request.compiled THEN "run" ELSE "orig")
    <3>1. Clean(item - 1, Failing)'
      BY <2>1 DEF Clean
    <3>2. request.returns \in Listable /\ held' = "sequence"
      BY <1>0, <2>1, <2>3, Listed, Materializes
    <3> QED
      BY <2>1, <2>3, <3>1, <3>2 DEF PassInv, Goto
  <2> QED
    BY <1>3, <2>2, <2>3 DEF PatchedSerialize
<1>4. CASE WriteDone
  <2>1. phase = "json" /\ ~HasDumpHooks /\ item > Len(request.items)
        /\ phase' = "returned" /\ outcome' = Serialized /\ UNCHANGED <<request, held, item>>
        /\ request.returns \in Listable
    BY <1>4 DEF WriteDone, PastRecords, PassInv, Return
  <2>2. \A k \in DOMAIN request.items : request.items[k] \notin Defers("json") \cup {"bad"}
    BY <2>1, NothingFails DEF PassInv
  <2>3. request.override \/ Serialized = StockOutcome(request)
    BY <2>1, <2>2, StateTyped DEF StockOutcome, HasDumpHooks, Fails, Failing, Defers, Listable
  <2> QED
    BY <2>1, <2>3 DEF PassInv
<1>5. CASE Dump
  <2>1. phase = "dump" /\ UNCHANGED <<request, item>> /\ item = 1 /\ outcome = Pending
    BY <1>5 DEF Dump, PassInv
  <2>2. ~request.many => held' = "sequence"
    BY <1>5, <2>1, StateTyped, RequestTyped DEF Dump, PassInv
  <2>3. CASE request.override /\ phase' = "returned"
    BY <2>1, <2>2, <2>3 DEF PassInv
  <2>4. CASE ~request.override /\ request.pre = "error" /\ phase' = "returned"
             /\ outcome' = Raised("pre")
    <3>1. Raised("pre") = StockOutcome(request)
      BY <2>4 DEF StockOutcome
    <3> QED
      BY <2>1, <2>2, <2>4, <3>1 DEF PassInv
  <2>5. CASE ~request.override /\ request.pre # "error" /\ phase' = "serialize" /\ UNCHANGED outcome
    <3>1. held' = request.returns \/ (request.pre = "absent" /\ held' = held /\ Like(request.source))
      BY <1>5, <2>1, <2>5 DEF Dump, PassInv
    <3>2. Like(request.returns)'
      BY <1>0, <2>1, <3>1 DEF Like
    <3> QED
      BY <2>1, <2>2, <2>5, <3>2 DEF PassInv
  <2> QED
    BY <1>5, <2>3, <2>4, <2>5 DEF Dump, Goto, Return
<1>6. CASE RunDone \/ OrigDone
  <2>1. phase \in {"run", "orig"} /\ item > Len(request.items)
        /\ phase' = "post" /\ UNCHANGED <<request, held, item, outcome>>
    BY <1>6 DEF RunDone, OrigDone, PastRecords, Goto
  <2>2. ~Fails(request)
    BY <2>1, NothingFails DEF PassInv, Fails
  <2> QED
    BY <2>1, <2>2 DEF PassInv
<1>7. CASE PostDump
  <2>1. phase = "post" /\ UNCHANGED <<request, held, item>>
    BY <1>7 DEF PostDump
  <2>2. CASE request.post = "error" /\ phase' = "returned" /\ outcome' = Raised("post")
    <3>1. Raised("post") = StockOutcome(request)
      BY <2>1, <2>2 DEF PassInv, StockOutcome, Listable
    <3> QED
      BY <2>1, <2>2, <3>1 DEF PassInv
  <2>3. CASE request.post # "error" /\ request.entry = "dumps" /\ phase' = "render"
             /\ UNCHANGED outcome
    BY <2>1, <2>3 DEF PassInv
  <2>4. CASE request.post # "error" /\ request.entry # "dumps" /\ phase' = "returned"
             /\ outcome' = Serialized
    <3>1. Serialized = StockOutcome(request)
      BY <2>1, <2>4, StateTyped DEF PassInv, StockOutcome, Listable
    <3> QED
      BY <2>1, <2>4, <3>1 DEF PassInv
  <2> QED
    BY <1>7, <2>2, <2>3, <2>4 DEF PostDump, Goto, Return
<1>8. CASE Render
  <2>1. phase = "render" /\ phase' = "returned" /\ UNCHANGED <<request, held, item>>
    BY <1>8 DEF Render, Return
  <2>2. outcome' = StockOutcome(request)
    BY <1>8, <2>1, StateTyped DEF Render, Return, PassInv, StockOutcome, Listable
  <2> QED
    BY <2>1, <2>2 DEF PassInv
<1> QED
  BY <1>1, <1>2, <1>3, <1>4, <1>5, <1>6, <1>7, <1>8 DEF Next

(* Every step keeps RanInv: one case per action of Next. *)
LEMMA RanStep ==
  ASSUME TypeOK, PassInv, RanInv, Next
  PROVE  RanInv'
<1>1. CASE WriteRecord \/ RunRecord \/ OrigRecord
  BY <1>1, RecordStep DEF RanInv, HooksRunOnce, RaisedAt, Outcome, PassInv, Pending
<1>2. CASE PatchedDumps \/ PatchedSerialize \/ RunDone \/ OrigDone
  BY <1>2 DEF PatchedDumps, PatchedSerialize, RunDone, OrigDone, Goto, Return, Raised, RanInv,
     HooksRunOnce, PassInv, Pending, Outcome, PastRecords
<1>3. CASE WriteDone
  BY <1>3 DEF WriteDone, PastRecords, Return, PassInv, HasDumpHooks, RanInv, HooksRunOnce, Hooks
<1>4. CASE Dump
  <2>1. phase = "dump" /\ request' = request /\ ran["pre"] = 0 /\ ran["post"] = 0
    BY <1>4 DEF Dump, RanInv
  <2>2. ran'["post"] = 0 /\ (request.override => ran'["pre"] = 0)
        /\ (~request.override => ran'["pre"] = One(request.pre # "absent"))
    BY <1>4, <2>1, RanTyped DEF Dump, Hooks, One
  <2>3. outcome'.kind # "result" /\ phase' \in {"serialize", "returned"}
        /\ (phase' = "serialize" => ~request.override)
    BY <1>4, <2>1 DEF Dump, Goto, Return, PassInv, Pending, Overridden, Raised, Outcome
  <2>4. ran'["pre"] <= 1
    BY <2>2 DEF One
  <2> QED
    BY <2>1, <2>2, <2>3, <2>4 DEF RanInv, HooksRunOnce, Hooks
<1>5. CASE PostDump
  <2>1. phase = "post" /\ request' = request /\ ran["post"] = 0
        /\ ran["pre"] = One(request.pre # "absent")
    BY <1>5 DEF PostDump, RanInv
  <2>2. ran'["pre"] = One(request.pre # "absent") /\ ran'["post"] = One(request.post # "absent")
    BY <1>5, <2>1, RanTyped DEF PostDump, Hooks, One
  <2>3. phase' \in {"render", "returned"}
    BY <1>5 DEF PostDump, Goto, Return
  <2> QED
    BY <2>1, <2>2, <2>3 DEF RanInv, HooksRunOnce, Hooks, One
<1>6. CASE Render
  <2>1. phase = "render" /\ phase' = "returned" /\ UNCHANGED <<request, ran>>
    BY <1>6 DEF Render, Return
  <2> QED
    BY <2>1 DEF RanInv, HooksRunOnce, Hooks, One
<1> QED
  BY <1>1, <1>2, <1>3, <1>4, <1>5, <1>6 DEF Next

(* Every step keeps AttemptsInv: one case per action of Next. *)
LEMMA AttemptsStep ==
  ASSUME TypeOK, PassInv, AttemptsInv, Next
  PROVE  AttemptsInv'
<1>1. CASE WriteRecord \/ RunRecord \/ OrigRecord
  <2> DEFINE own(k) == IF phase = "orig" THEN OwnAttempts(k) ELSE 1
             base == IF phase = "json" THEN 0 ELSE IF phase = "run" THEN FusedAttempts ELSE CoreAttempts
  <2>1. phase \in {"json", "run", "orig"} /\ request' = request /\ item \in DOMAIN request.items
        /\ item \in Nat
    BY <1>1, RecordStep, StateTyped
  <2>2. \A k \in DOMAIN request.items : attempts[k] <= base + IF k < item THEN own(k) ELSE 0
    BY <2>1, StateTyped DEF AttemptsInv, GivenUp, Passed
  <2>3. PICK n \in 1..2 : Attempt(n) /\ n <= own(item)
    BY <1>1, RecordStep
  <2>4. /\ attempts'[item] = attempts[item] + n
        /\ \A k \in DOMAIN request.items : k # item => attempts'[k] = attempts[k]
    BY <2>1, <2>3, AttemptTyped, StateTyped
  <2>5. base \in Nat /\ \A k : own(k) \in 1..2
    BY FewAttempts
  <2>6. \A k \in DOMAIN request.items :
          /\ attempts'[k] \in Nat /\ attempts'[k] <= base + own(k)
          /\ k > item => attempts'[k] <= base
    <3> SUFFICES ASSUME NEW k \in DOMAIN request.items
                 PROVE  /\ attempts'[k] \in Nat /\ attempts'[k] <= base + own(k)
                        /\ k > item => attempts'[k] <= base
      OBVIOUS
    <3>1. k \in Nat /\ attempts[k] \in Nat /\ own(k) \in 1..2
      BY <2>5, StateTyped
    <3>2. attempts[k] <= base + IF k < item THEN own(k) ELSE 0
      BY <2>2
    <3> HIDE DEF own, base
    <3>3. CASE k = item
      BY <2>1, <2>3, <2>4, <2>5, <3>1, <3>2, <3>3
    <3>4. CASE k # item
      BY <2>1, <2>4, <2>5, <3>1, <3>2, <3>4
    <3> QED
      BY <3>3, <3>4
  <2>7. UNCHANGED <<FusedAttempts, CoreAttempts>> /\ \A k : OwnAttempts(k)' = OwnAttempts(k)
    BY <2>1 DEF FusedAttempts, CoreAttempts, OwnAttempts, Deferred
  <2>8. CASE phase' = phase /\ item' = item + 1
    <3>1. \A k \in DOMAIN request.items : Passed(k)' = IF k >= item + 1 THEN 0 ELSE own(k)
      BY <2>7, <2>8 DEF Passed
    <3>2. GivenUp' = base
      BY <2>1, <2>7, <2>8 DEF GivenUp
    <3>3. \A k \in DOMAIN request.items : attempts'[k] <= base + IF k >= item + 1 THEN 0 ELSE own(k)
      <4> HIDE DEF own, base
      <4> QED
        BY <2>1, <2>5, <2>6, StateTyped
    <3> QED
      BY <2>1, <2>8, <3>1, <3>2, <3>3 DEF AttemptsInv
  <2>9. CASE /\ item' = 1
             /\ \/ phase = "json" /\ phase' = "dump" /\ Deferred("json")
                \/ phase = "run" /\ phase' = "orig" /\ Deferred("run")
    <3>1. GivenUp' = base + 1
      BY <2>7, <2>9 DEF GivenUp, CoreAttempts, FusedAttempts, One, PassInv
    <3>2. \A k \in DOMAIN request.items : attempts'[k] <= base + 1
      BY <2>6, <2>9
    <3>3. \A k \in DOMAIN request.items : Passed(k)' = 0
      BY <2>9, StateTyped DEF Passed
    <3>4. base \in Nat
      BY <2>5
    <3> QED
      BY <2>1, <2>6, <2>9, <3>1, <3>2, <3>3, <3>4 DEF AttemptsInv
  <2>10. CASE phase' = "returned"
    <3>1. base <= CoreAttempts /\ \A k : own(k) <= OwnAttempts(k)
      BY FewAttempts
    <3>2. \A k \in DOMAIN request.items : attempts'[k] <= CoreAttempts + OwnAttempts(k)
      <4> HIDE DEF own, base
      <4> QED
        BY <2>5, <2>6, <3>1, FewAttempts
    <3> QED
      BY <2>1, <2>7, <2>10, <3>2 DEF AttemptsInv, AttemptsBounded
  <2> QED
    BY <1>1, <2>8, <2>9, <2>10, RecordStep
<1> DEFINE done == phase' \in {"post", "render", "returned"}
<1>2. CASE ~(WriteRecord \/ RunRecord \/ OrigRecord)
  <2>1. UNCHANGED <<request, attempts, item>> /\ phase # "returned"
    BY <1>2 DEF Next, PatchedDumps, WriteDone, Dump, PatchedSerialize, RunDone, OrigDone,
       PostDump, Render, PastRecords
  <2>2. UNCHANGED <<FusedAttempts, CoreAttempts>> /\ \A k : OwnAttempts(k)' = OwnAttempts(k)
    BY <2>1 DEF FusedAttempts, CoreAttempts, OwnAttempts, Deferred
  <2>3. GivenUp \in Nat /\ GivenUp <= CoreAttempts /\ \A k : Passed(k) \in 0..OwnAttempts(k)
    BY FewAttempts DEF GivenUp, Passed
  <2>4. \A k \in DOMAIN request.items : attempts[k] <= CoreAttempts + OwnAttempts(k)
    BY <2>3, FewAttempts, StateTyped DEF AttemptsInv, AttemptsBounded
  <2>5. CASE done
    BY <2>1, <2>2, <2>4, <2>5 DEF AttemptsInv, AttemptsBounded
  <2>6. CASE ~done
    <3>1. /\ phase \in {"dumps", "dump", "serialize"} /\ item = 1
          /\ phase' \in {"json", "dump", "serialize", "run", "orig"}
          /\ phase \in {"dump", "serialize"} => phase' \in {"serialize", "run", "orig"}
      BY <1>2, <2>6 DEF Next, PatchedDumps, WriteDone, Dump, PatchedSerialize, RunDone, OrigDone,
         PostDump, Render, PastRecords, Goto, Return, PassInv
    <3>2. \A k \in DOMAIN request.items : Passed(k) = 0 /\ Passed(k)' = 0
      BY <2>1, <3>1, StateTyped DEF Passed
    <3>3. GivenUp <= GivenUp' /\ GivenUp' \in Nat
      BY <2>2, <3>1, FewAttempts DEF GivenUp
    <3>4. \A k \in DOMAIN request.items : attempts[k] <= GivenUp + 0
      BY <3>1, <3>2 DEF AttemptsInv
    <3>5. \A k \in DOMAIN request.items : attempts'[k] <= GivenUp' + Passed(k)'
      BY <2>1, <2>3, <3>2, <3>3, <3>4, StateTyped
    <3> QED
      BY <2>1, <2>6, <3>5 DEF AttemptsInv
  <2> QED
    BY <2>5, <2>6
<1> QED
  BY <1>1, <1>2

-----------------------------------------------------------------------------
(* The invariant holds when the call begins. *)
LEMMA InitInv == Init => DumpInv
<1> SUFFICES ASSUME Init PROVE DumpInv
  OBVIOUS
<1>1. WellFormed(request) /\ phase = request.entry /\ phase \in {"dump", "dumps"} /\ item = 1
  BY CallsWellFormed, RequestTyped DEF Init
<1>2. TypeOK
  BY <1>1, RequestTyped DEF Init, TypeOK, Phases, Pending, Outcome, Kinds, Hooks
<1>3. PassInv
  BY <1>1, RequestTyped DEF Init, PassInv, Like
<1>4. RanInv
  BY <1>1 DEF Init, RanInv, HooksRunOnce, Hooks, Pending, Outcome
<1>5. AttemptsInv
  BY <1>1, FewAttempts, RequestTyped DEF Init, AttemptsInv, GivenUp, Passed
<1> QED
  BY <1>2, <1>3, <1>4, <1>5 DEF DumpInv

(* The invariant is about the variables of the call only. *)
LEMMA Stutter == DumpInv /\ UNCHANGED vars => DumpInv'
<1> SUFFICES ASSUME DumpInv, UNCHANGED vars PROVE DumpInv'
  OBVIOUS
<1> USE DEF vars
<1>1. TypeOK'
  BY DEF DumpInv, TypeOK
<1>2. PassInv'
  BY DEF DumpInv, PassInv, HasDumpHooks, Clean, Like
<1>3. RanInv'
  BY DEF DumpInv, RanInv, HooksRunOnce
<1>4. AttemptsInv'
  <2>1. UNCHANGED <<GivenUp, CoreAttempts>>
    BY DEF GivenUp, CoreAttempts, FusedAttempts, Deferred
  <2>2. \A k : OwnAttempts(k)' = OwnAttempts(k) /\ Passed(k)' = Passed(k)
    BY DEF OwnAttempts, Passed
  <2> QED
    BY <2>1, <2>2 DEF DumpInv, AttemptsInv, AttemptsBounded
<1> QED
  BY <1>1, <1>2, <1>3, <1>4 DEF DumpInv

(* DumpInv is an invariant: Init implies it and every step keeps it. *)
LEMMA Invariance == Spec => []DumpInv
<1>1. DumpInv /\ [Next]_vars => DumpInv'
  BY TypeStep, PassStep, RanStep, AttemptsStep, Stutter DEF DumpInv
<1> QED
  BY InitInv, <1>1, PTL DEF Spec

(* For every set of well-formed calls the state keeps its type, and no     *)
(* object is handed on with records already consumed.                      *)
THEOREM TypeCorrect == Spec => []TypeOK
<1>1. DumpInv => TypeOK
  BY DEF DumpInv
<1> QED
  BY <1>1, Invariance, PTL

(* For every number of records, a record's fields run once per attempt     *)
(* given up and once more, and never four times without deferring itself.  *)
THEOREM AttemptsAreBounded == Spec => []AttemptsBounded
<1>1. DumpInv => AttemptsBounded
  <2> SUFFICES ASSUME DumpInv, NEW k \in DOMAIN request.items
               PROVE  attempts[k] <= CoreAttempts + OwnAttempts(k)
    BY DEF AttemptsBounded
  <2>1. CASE phase \in {"post", "render", "returned"}
    BY <2>1 DEF DumpInv, AttemptsInv, AttemptsBounded
  <2>2. CASE phase \notin {"post", "render", "returned"}
    <3>1. attempts[k] <= GivenUp + Passed(k) /\ attempts[k] \in Nat
      BY <2>2, StateTyped DEF DumpInv, AttemptsInv
    <3>2. GivenUp \in Nat /\ GivenUp <= CoreAttempts /\ Passed(k) \in 0..OwnAttempts(k)
      BY FewAttempts DEF GivenUp, Passed
    <3> QED
      BY <3>1, <3>2, FewAttempts
  <2> QED
    BY <2>1, <2>2
<1> QED
  BY <1>1, Invariance, PTL

(* No deferral runs a hook again, and the fused writer skips none.         *)
THEOREM HookDiscipline == Spec => []HooksRunOnce
<1>1. DumpInv => HooksRunOnce
  BY DEF DumpInv, RanInv
<1> QED
  BY <1>1, Invariance, PTL

(* Every step is the stock reply or a stutter of the promise. *)
LEMMA PromiseStep ==
  ASSUME DumpInv, ~request.override, ListsLikeStock(request), Next
  PROVE  Promise!Reply \/ UNCHANGED <<request, outcome>>
<1>1. request' = request /\ phase # "returned" /\ outcome = Pending
  BY DEF Next, PatchedDumps, WriteRecord, WriteDone, Dump, PatchedSerialize, RunRecord, RunDone,
     OrigRecord, OrigDone, PostDump, Render, AtRecord, PastRecords, DumpInv, PassInv
<1>2. PassInv'
  BY PassStep DEF DumpInv
<1>3. CASE phase' = "returned"
  BY <1>1, <1>2, <1>3, SameAnswer DEF PassInv, Promise!Reply
<1>4. CASE phase' # "returned"
  BY <1>1, <1>2, <1>4 DEF PassInv
<1> QED
  BY <1>3, <1>4

(* The call implements the one stock call, for every schema that does not  *)
(* override dump, whatever its records and hooks, and whatever it is       *)
(* handed: where the core makes a list of what marshmallow would not       *)
(* iterate is named by ListsLikeStock.                                     *)
THEOREM ImplementsStock ==
  ASSUME \A c \in Calls : ~c.override /\ ListsLikeStock(c)
  PROVE  Spec => RefinesPromise
<1>1. Init => Promise!Init
  BY CallsWellFormed, SameAnswer DEF Init, Promise!Init
<1>2. DumpInv /\ [Next]_vars => [Promise!Reply]_<<request, outcome>>
  <2>1. DumpInv => ~request.override /\ ListsLikeStock(request)
    BY DEF DumpInv, TypeOK
  <2> QED
    BY <2>1, PromiseStep DEF vars
<1> QED
  BY <1>1, <1>2, Invariance, PTL DEF Spec, RefinesPromise, Promise!Safety
=============================================================================
