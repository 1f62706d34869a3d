# A TLA+ development of marshmallow_core

marshmallow_core replaces four methods of `marshmallow.Schema` with wrappers that
try a Rust core and, when the core raises `AccelFallback`, run marshmallow's own
pure-Python method. The repository promises *identical* results (README.md:7-9) and
rests that promise on one argument (README.md:44-49): the core handles the happy
path only, gives up on anything else, and the pure path is then run from the start.

This directory states that argument as properties and checks it: that what the core
**completes** is what marshmallow would have computed, that what it **gives up** may
be given up (nothing of the attempt shows, an interrupt is not swallowed, the next
attempt sees the same data), that the **plans** it keeps are those of the schema as it
is, and that `install()` and `uninstall()` keep the way back to the originals open.

Paths below are those of the repository (`src/` is the Rust crate, `python/` the
Python package). *Stock* is marshmallow without the core. marshmallow itself is not
in the repository; its behaviour is taken from the code that reproduces it and is
marked external in `PROJECT.json`.

## 1. The system's components

| Component | Code | State it keeps | Operations | Model |
|---|---|---|---|---|
| install / uninstall | `_patch.py` 150-158, 482-530 | four attributes of `Schema`, four globals `_orig_*` | `install`, `uninstall`, `is_installed` | `Patch` |
| Load orchestration | `_patch.py` 239-386 | the caller's data, the error store, of one call | `_patched_do_load`, `_accelerated_load` | `DoLoad` |
| Load record loop | `src/load/serializer.rs` 30-260 | output dict, position in the specs | `run`, `run_one`, `set_load_value` | `LoadRecord` |
| Fused JSON record loop | `src/load/serializer.rs` 263-420 | buckets by data key, unknown members, output | `run_json_tree`, `run_many_json`, `run_one_json` | `JsonRecord` |
| Partial | `src/load/validators.rs` 148-216 | none, all, or dotted names; every falsy `partial=` counts as none | `_core_partial`, `allows_missing`, `derive`, `as_kwarg` | `StockRecord`, `LoadStep` |
| Load payload parsing | `src/load/parsing.rs` | data-key index, `distinct_data_keys` | `parse_load_serializer`, `parse_load_element`, `parse_validator` | `JsonRecord`, `LoadElement` |
| Load elements | `src/load/element.rs` | none (immutable after compilation) | `apply`, `apply_json` | `LoadElement` |
| Load validators | `src/load/validators.rs` | none | `check`, `check_validators` | `LoadElement` |
| JSON tree helpers | `src/load/json_tree.rs` | none | `json_to_py`, `element_is_fusable`, `element_consumes_partial` | `StockField`, `LoadElement` |
| Fallback signalling | `src/context.rs` | none | `fallback`, `to_fallback`, `is_one_shot_iterator` | statuses of the loops, `DumpElement` |
| Schema compiler | `_compiler.py` | none | `_build_load_element`, `_build_element`, `_build_payload`, ... | `LoadElement`, `DumpElement`, `PlanCache` |
| Plan caches, `invalidate()` | `_patch.py` 190-287, 401-480 | three plans per schema instance | `_load_plan`, `invalidate`, every call | `PlanCache` |
| Dump orchestration | `_patch.py` 190-213, 388-417 | the object in hand, one-shot or not | `_patched_serialize`, `_patched_dumps` | `DumpCall` |
| Dump payload parsing | `src/dump/parsing.rs` | none | `parse_element`, `parse_field_spec` | `DumpElement` |
| Dump core | `src/dump/serializer.rs` | output being built | `run`, `write_json`, elements | `DumpElement` |
| Fused `loads` entry | `_patch.py` 419-460 | none | the gate in front of `run_json` | `PlanCache` |
| JSON writer | `src/json_writer.rs` | output buffer, depth | `json_escape_into`, `write_json_value` | `JsonWriter`, `DumpElement` |
| Temporal formatting | `src/temporal.rs` | none | ISO formatting, UTC offsets | `Temporal` |
| Attribute access | `src/attr_access.rs` | `INDEXABLE_LAST`, one slot per thread | `get_value` | `AttrAccess` |
| Extension surface | `src/lib.rs`, `__init__.py` | none | PyO3 classes that forward, and clear the slot | `AttrAccess`, `DumpElement`; the rest has no behaviour of its own |
| GC traversal | `src/load/gc.rs`, `src/dump/gc.rs` | none | `__traverse__` | not modelled: completeness of a structural visit |
| Tests, benchmarks, build | `tests/`, `performance/`, `scripts/`, CI | – | – | not part of the running system |

**How they interact.** `Schema.load` reaches `_patched_do_load`, which looks up the
schema's plan (compiled once by `_compiler.py`), runs the pre_load hooks, hands the data
to the record loop, and the loop hands each value to an element and its validators. An
element may hold Python: a callback field, a validator, a field's own `_deserialize`.
Whatever that code raises becomes `AccelFallback`, except `KeyboardInterrupt` and
`SystemExit`. `AccelFallback` travels up to the wrapper, which calls the saved original
with the caller's arguments. `loads` puts the fused loop in front: parse, convert and
load in one pass, without ever building the intermediate dict.

`Schema.dump` and `dumps` are marshmallow's own functions; only `_serialize` and `dumps`
are patched. `_patched_dumps` first lets the core write JSON text (`run_json`). When that
defers, marshmallow's `dumps` calls `dump`, which runs the hooks and calls
`_patched_serialize`, which lets the core build dicts (`run`). When that defers too,
marshmallow's `_serialize` runs, and for a list it calls the patched `_serialize` once more
on each record. A core attempt reads attributes through `get_value`, builds values through
the elements, and may have consumed part of what it was given when it stops.

**What is hard here.**

* *Two implementations of one semantics.* Record loop, fused loop and stock must agree on
  the order of tests for a missing key, on overlapping output paths, on repeated JSON
  keys, on unknown keys. No single unit test sees a combination of these.
* *Retry after partial work.* The re-run starts over on data that user hooks already
  touched, and a deferral at record *n* throws away the work on the records before it.
* *Errors that must not be retried.* An interrupt, or an exception of post_load or of a
  validator, must come out once and never be mistaken for a deferral.
* *Shared mutable globals.* Foreign wrappers, calls in flight and repeated
  install/uninstall all meet in eight variables.
* *Four attempts on one record.* A dump may read the same record up to four times. What
  an attempt consumed (a generator, an iterator of pairs) the next does not see.
* *Text, byte by byte.* The writer promises `json.dumps`'s bytes with its own escaping,
  its own offsets and its own depth limit.
* *Plans outlive what they were made of.* A plan is built at the first call, holds the
  plans of nested instances, and is used while user code runs; the one-slot type cache is
  read across re-entrant runs.
* *Partial.* `partial=` is threaded through nested schemas by name: the core cuts the names
  off behind a field's attribute name, marshmallow behind its data key; `False` counts as
  no `partial=` at all; one shortcut (`consumes_partial`) skips the threading where it
  "cannot matter".

`PROJECT.json` lists each hazard at its line with the properties that watch it.

**What makes each part correct.**

* Patch: no call is ever left without its original, none goes through the core twice, no
  foreign wrapper is lost, every call ends.
* Load orchestration: one call, one outcome, the one stock has; no hook runs once too
  often.
* The two record loops: completed means accepted by stock, with an equal output, as long as
  nested schemas are told of `partial=` what stock tells them; interrupted means stock would
  be interrupted; deferred means there was a reason.
* Dump orchestration: one call, one outcome, the one stock has; every hook once; no record
  more often than there are attempts to give up.
* Dump elements, writer, temporal formatting: the value, the text or the error is stock's;
  an attempt that defers leaves the record as it was.
* Plan caches: a call is answered from what the schema and its parts are now, and under
  the partial stock would use for each of them, if changes were followed by `invalidate()`.
* Attribute access: each reading takes the way marshmallow's takes, as long as the objects
  of one type say the same to `hasattr`.
* Elements and validators: a converted value is the field's own; the two input paths
  agree; what is skipped because it "cannot matter" does not matter.

## 2. The modules

```
StockRecord      what stock computes for one record (external, declarative)
  LoadStep       what the two record loops share: their state, set_load_value,
                 and the duty of an element
    LoadRecord   run_one, over a dict            } RecordProofs   MCLoadRecord
    JsonRecord   run_one_json, over a JSON tree  }                MCJsonRecord
                                                 MCFields: fields both are checked on

LoadCall         a call of load and stock's answer to it (external)
  StockLoad      the abstract specification: one call, one reply
  DoLoad         _patched_do_load; refines StockLoad    DoLoadProofs   MCDoLoad

Patch            install, uninstall, wrappers, calls    PatchProofs    MCPatch

PyValue          Python values and outcomes
  StockField     Field.deserialize of marshmallow (external), json_to_py
    LoadElement  the compiler, the parser, apply, apply_json, validators
                                                 LoadElementProofs   MCLoadElement

  StockSerialize Field.serialize, Schema._serialize, json.dumps (external)
    DumpElement  the compiler, the parser, apply, write_json
                                                 DumpElementProofs   MCDumpElement
Temporal         UTC offsets and ISO text        } used by StockSerialize and
JsonWriter       json_escape_into over UTF-8     } DumpElement, proved about with it

DumpRequest      a call of dump or dumps and stock's answer to it (external)
  StockDump      the abstract specification: one call, one reply
  DumpCall       _patched_dumps, _patched_serialize; refines StockDump
                                                 DumpCallProofs      MCDumpCall

PlanCache        plans, invalidate(), who answers from what  }              MCPlanCache
AttrAccess       get_value and its one-slot cache            } CacheProofs
Iteration        recursion and induction on Nat, for the proofs
```

### StockRecord, LoadStep

`StockRecord` says, without a loop, what marshmallow's `_deserialize` leaves for one
record: an output dict is a function from the paths of its leaves to their values, and a
field's store is *live* as long as no later store replaced it. `StockRaises` says when
stock raises. A `partial=` is None, False, True or a collection; `StockPartial` is what
marshmallow hands a field of it: the names below its *data key*, everything else as it is.

`LoadStep` adds what the accelerated loops share: the variables of a loop (the
specs, the position `i`, the output), `Put` and `Blocked`, which are
`set_load_value`, and the core's own way with partial: `CorePartial` is `_core_partial` with
`Partial::from_arg` (every falsy one is none), `CoreSub` what a callback field is handed (the
names below the *attribute name*, nothing for none), `FieldPartial` the `consumes_partial`
shortcut. `partialsKept` says that no field of the record can tell the two ways apart;
the loops are compared with stock where it holds, and two runs show what happens where it
does not. `ElementContract` is the duty of an element: where it does not defer, it agrees
with the field that is handed the same partial. The contract is an assumption of the loops;
`LoadElement` checks it on actual elements.

### LoadRecord, JsonRecord

`LoadRecord` is `run_one`: one action per arm of the two `LoadFieldSpec` variants
(`PartialSkip`, `NativeRequired`, `NativeDefault`, `NativeNull`, `NativeConvert`,
`CallbackField`), then the unknown-key pass. `status` ends in `done`, `fallback` or
`interrupted`. `JsonRecord` is `run_one_json`: its three passes over an object (bucket
the members, apply the fields, copy the unknown members), with repeated keys and with
`distinct_data_keys`. Both compare their end with `StockRecord`; in `JsonRecord` the
dict that stock sees (`loaded`) is what `json.loads` makes of the object. Actions and
properties that both loops have are called `Json...` in `JsonRecord`.

### LoadCall, StockLoad, DoLoad

A call carries the user's code: what its hooks do to this data, what kind of record each
record is, and what each validator says. `DoLoad` has an action for each stage of
`_accelerated_load`, one for the re-run (`OrigDoLoad`) and `Interrupt`, which may come at
any time before the call returns. `StockLoad` is the promise: one atomic reply, the one
of `StockOutcome` on the data as given, or the interrupt that came. `Promise` instantiates
`StockLoad` with the call and its outcome: `RefinesPromise` is `Promise!Safety` (every step
of the accelerated call is the reply, the interrupt or a stutter), `CallReturns` is
`Promise!Returns` (the reply comes).

### Patch

A callable is the sequence of layers a call goes through; `core` ends the sequence
because where the call goes from there is read from the global `_orig_*` *when the call
gets there*. `install` and `uninstall` take one attribute per step, in the order of the
code, so a call may see half of either, and `Restore` leaves an attribute alone that is no
longer the core. Nobody is kept from calling while `uninstall()` runs, or from wrapping the
core before it: the history variable `strayed` notes that it happened, and the properties
that need the discipline are about the behaviours in which it has not.

### PyValue, StockField, LoadElement

A Python value is a type, an atom and the entries of a container. What `int`, `float`,
`UUID`, `fromisoformat` or an enum class do with which value is a table (`Results`) that
both sides read, so that what is compared is what the core does *around* those calls.
`HasElement` is whether the compiler makes an element for a field (or leaves it to the
callback path), `Built` and `Variant` which, by the tags of the two languages;
`BuildValidator` and `ParseValidator` are the same for validators. `Apply` and `ApplyJson`
are the two conversions, `Run` and `RunJson` the loop over the inner schema in them, `Check`
the validators. `Fusable` and `ConsumesPartial` are what `json_tree.rs` finds out about an
element. A behaviour compiles one field and loads one value, off a dict or off JSON.
`DeserializeTo` of `StockField` is the reference.

Fields nest within fields, and values within values; each recursion is a function of the
levels it may still descend, in the way described for the dump side below: `FieldsTo[n]`,
`Elements[n]`, `JsonElements[n]`, `Fusable[n]`, `ConsumesPartial[n]` and `DeserializeTo[n]`
of the fields of `n` levels, `ValuesTo[n]`, `JsonTo[n]` and `JsonToPyTo[n]` of values. A
JSON value is a tree whose objects may repeat a key; `JsonToPy` is what a dict makes of them.

### StockSerialize, DumpElement, Temporal, JsonWriter

The dump side. `HasElement` and `Built` are the compiler, `Variant` the parser; `Apply`
makes the serialized value, `WriteJson` the text. A behaviour is one record through `dump`
or `dumps`: `RunJson`, then `RunDict`, then `RunStock`, each on the record the last attempt
*left* (`LeftBy`: an iterator that was read is at its end). The reference is
`SerializeRecord`, and `JsonDumps` for the text. JSON text is kept as a tree whose strings
and keys are their escaped bytes: strings of the pool have code points (`CodePoints`), the
writer escapes their UTF-8 byte by byte (`JsonWriter`), `json.dumps` per character
(`EncodeAscii`). Times carry offsets (`Moments`); `Temporal` writes them with the writer's
arithmetic, the reference with CPython's `_format_offset`.

Fields nest within fields and values within values, and the code recurses through both.
Here each such recursion is a *function of the number of levels* it may still descend,
made with that of one level less: `SerializeTo[n]`, `Elements[n]` and `Writers[n]` serve the
fields of `n` levels (`FieldsTo[n]`), `WriteTo[n]` and `DumpsTo[n]` give up below `n` levels
of a value. `Elements[n]` has the fields the compiler can build in its domain, so that a
field without an element is one outside it. The sets of fields and values of `n` levels
are infinite; TLC only tests membership in them. `WriteTo` is also what the code's depth
counter is: `TopLevel` is where `write_json_value` starts to count down. `Levels`,
`ValueDepth` and `PyDepth` (where `json.dumps` raises RecursionError) are parameters, and
the theorems hold for each of their values.

### DumpRequest, StockDump, DumpCall

A call has an entry, records by what core and stock make of them, a source (a sequence, an
iterator, None, or an object that cannot be iterated, each of which a pre_dump hook may turn
into another) and hooks. `DumpCall` follows the object in hand through the chain: a pass over
an iterator that stops in the middle leaves the next one only what is behind (`Again`),
which is why the code materializes it first (`Materialized`), with the TypeError of `list()`
as its error path (`ListFails`). `ListsLikeStock` are the calls in which marshmallow iterates
the very object that the core makes a list of. `Promise` instantiates `StockDump`, as for
load.

### PlanCache

A plan is a function from a schema and the instances nested in it to the configuration that
was compiled, or `Called` for an instance that is called back and has plans of its own.
`Reconfigure`, `SetPartial` and `Invalidate` are the application's; it owes an `invalidate()`
of every schema a changed instance is nested in before it calls them again (`dirty`). `Dump`,
`Dumps`, `FusedLoads`, `BeginLoad` and `EndLoad` answer; every answer says what it was made
from (`made`) and what stock would have made it from (`stock`): for each instance its
configuration, unknown and partial. An instance that is called back is handed a partial:
the load's own by marshmallow, by the core the one that `_core_partial` left (`Handed`);
handed nothing, it goes by its own (`Received`), and asks for its plan if that is one the
core supports (`Asks`). Where a False is dropped on the way to an instance with a
partial of its own (`FalseDropped`), the two partials differ, and `AnswersLive` compares the
rest. A load takes its plan before user code runs under it, so it has two steps.

### AttrAccess

Objects are a type, their own answer to `hasattr(obj, "__getitem__")` (what the class has,
or what an attribute, a `__getattr__` or a `__getattribute__` of theirs makes of it, which
may raise), and what their item and attribute give. marshmallow asks every object
(`HasGetItem`); the core takes the slot's answer for the type, if there is one
(`ReadCached`). Runs nest, because reading runs user code; classes change, or are freed and
replaced at their address, at any time (`Retype`). A probe
(`hasattr`) is two steps with user code between. `told` is a history variable: what the
objects of each type answered since the slot was last cleared. `Probes` are what may be
under way: a dict is recognised before the slot is looked at and is never probed.

## 3. The runs

`CHECK_DEADLOCK FALSE` stands in the configurations of a single record, value or call,
which stop when they are through. The `Patch` runs have deadlock checking on.

| Run | Asks | Bounds, and why they are enough |
|---|---|---|
| `load_record` | does the dict loop do what stock does? | all pairs of ten fields (native and callback, required, with defaults, nullable, validated, nested, dotted paths above, below and beside each other, shared data keys, data keys that are the field's name and others) and four longer schemas; records of up to three keys over seven values; nine `partial=` (None, False, True, an empty collection, and names below a field's name, its data key and both); three `unknown=`; dicts and non-dicts. Every interaction of the loop is between two fields, or a field and an unknown key; the longer schemas give a replaced leaf a third store. |
| `json_record` | does the fused loop do what json.loads and load do? | all pairs of some of the same fields, the same nine `partial=`; objects of up to three members, repeated keys in every order, known and unknown |
| `do_load` | does the accelerated call implement the stock call? | every reason to refuse, six replayable pre_load hooks, every verdict of the validators, post_load and handle_error, batches of up to two records of every kind. The stages are sequential, so two records show what a deferral does to the ones before it and hides from the ones after it. |
| `patch` | is the way to the originals kept open, and everybody's wrapper kept, whoever has wrapped the core and whoever calls meanwhile? | two of the four attributes (the first, which `is_installed` reads, and one it does not); two wrappers, so that one may be beneath the core and one around it; one caller at any point of `install()` and `uninstall()`, any number of times: a call writes nothing that another one reads |
| `load_element` | does each element do what its field does? | 178 fields (every kind alone, every container over seven inner fields, nested and plucked schemas with and without many and hooks, two-level containers, every validator) on 173 Python and 157 JSON values each; partial none and all. Fields nest in up to 3 levels (`Levels`), values in up to 5 (`ValueDepth`): a field in a container in a schema is every pair of a container with what may be in it. |
| `dump_element` | does each record come out as stock's value, text or error? | one- and two-field schemas of every element and container, nested and plucked schemas with each reason to call them back; numbers, strings with every class of byte and every length of UTF-8, times with negative, odd and tiny offsets, lists and dicts nested to 11 with the limit at 2 (`DepthLimit`) and `json.dumps`'s at 8 (`PyDepth`): the code's 512 only has to be below what `json.dumps` recurses through; fields nest in up to 3 levels (`Levels`), values in up to 12 (`ValueDepth`), which is what the pool has, generators wherever the core guards them. A second field can make each attempt defer after the first was read. A second has 4 microseconds, so that all carries happen with small numbers. |
| `dump_call` | does the accelerated dump implement the stock call? | up to three records of every kind in the orders that matter; lists, generators, and where marshmallow iterates them too, what is neither; every mix of hooks; an overridden dump where the writer is not asked |
| `plan_cache` | is an answer ever made from something that is gone? | a schema and one nested in it; three configurations (compiled and fusable, compiled with a callback, not compilable), hooks or none; four partials: None, False, True and one the core does not support; `self.partial` None, True and the last; an unknown that is absent, the schema's or another one; any number of steps. Two schemas show a stale part in a fresh whole and the reverse. |
| `attr_access` | does a reading ever go another way than stock's? | dict and two types whose classes may change at any step, objects of each type with every answer of their own, two runs within each other, any number of steps |

The other three runs, `record_collection`, `do_load_unwrap` and `dump_consumed`, are expected
to be violated, see below.

The properties, each also the target of a mutant of the code:

* `DoneMatchesStock`, `InterruptMatchesStock`, `FallbackJustified` (both loops, with the
  prefix `Json` in the fused one): what the
  loop completes is stock's result; what interrupts it interrupts stock, at the same
  field; it defers only with a reason, and an interrupt of user code is none: stock has an
  error at the very field where the loop gave up, or that field's element or validators do
  not model the value.
* `RefinesPromise`, `HooksRunAgainOnlyAfterDeferral`, `RecordsLoadAgainOnlyAfterDeferral`:
  one call, one outcome; only pre_load ever runs twice, and only when the core deferred a
  record; a record's callbacks and validators run a second time only when the core gave up
  at that record or a later one, and never a third time.
* `OriginalsAreFound`, `CoreEnteredOnce`, `UninstalledIsStock`, `CallsEnd`: as long as
  `uninstall()` met neither a call nor a wrapped core. `NoForeignPatchClobbered`: always.
* `DumpsLikeStock`, `RerunsSeeTheSame`, `BoundedNesting`: stock's value, text or error,
  whichever attempt ends the call; an attempt that defers has consumed nothing; the writer
  nests no deeper than the schema and its limit.
* `CallReturns` (load and dump): however many attempts are given up, the call ends.
* `RefinesPromise`, `AttemptsBounded`, `HooksRunOnce` of `DumpCall`: one call, one outcome;
  a record's callbacks run once and once per attempt given up; hooks run once, the fused
  writer notwithstanding.
* `AnswersLive`: made from what the schema and its parts are now, under the partial and
  unknown stock has for each. `LookupLikeStock`: item, attribute or error, as in marshmallow,
  whatever was read before and whatever became of the classes, if the objects of that type
  read since the slot was cleared said the same to `hasattr` (`Alike`).
* `ConvertsLikeStock` (a converted value is the field's), `RaisesLikeStock` (an exception
  comes out only where the field raises one), `JsonLikeDict` ("scalar parity holds by
  construction", `src/load/element.rs` 440), `PartialUnread` (the soundness of
  `consumes_partial`).
* one `TypeOK` per module.

**Fairness.** `Patch` assumes weak fairness of the steps of `install()`/`uninstall()`
and of each task's next step: a thread that runs Python code goes on, and nothing in
these steps waits. No fairness is assumed for starting a call, an install or a wrapper.
`DoLoad` and `StockLoad`, `DumpCall` and `StockDump` assume weak fairness of `Next`: the
call is synchronous, and hooks, callbacks and validators are taken to return. `Interrupt` is one of the steps, so a call ends
in its outcome or in the interrupt. The record and element models have no liveness
property: every action moves the position or the status forward. `PlanCache` and
`AttrAccess` have none: nothing there has to happen.

### Disagreements found

Each of these configurations checks a statement of the repository's own documentation, or the
promise of identical results, and TLC finds a behaviour of the code against it. The first
three are runs of `PROJECT.json`, whose findings quote the statements; the others are here to
be run by hand (`tlc -config X.cfg MC...`, `AttrPerObject` with `AttrAccess` itself).

| Configuration | Property | What happens |
|---|---|---|
| `RecordCollection` (run `record_collection`) | `CollectionLikeStock` | a collection of `partial=` names is cut off behind the attribute name (`serializer.rs` 167, 213), in marshmallow behind the data key: with a field `l` of data key `b`, `partial=("l.k",)` exempts `k` of the nested schema only with the core, `("b.k",)` only without |
| `DoLoadUnwrap` (run `do_load_unwrap`) | `IdenticalOutcome` | a pre_load that pops an envelope out of the caller's dict runs again in the re-run, on the unwrapped data: stock loads the record, the accelerated load raises (`_patch.py` 325) |
| `DumpConsumed` (run `dump_consumed`) | `DumpsLikeStock` | a plain `Dict` field reads an iterator of pairs (`serializer.rs` 364), the writer defers at an int key, the re-run dumps `{}` |
| `RecordNotPartial` | `NotPartialLikeStock` | `partial=False` (and `[]`) is not handed on (`validators.rs` 207-214), so that a nested schema that is partial by itself loads partially; marshmallow hands it `False` |
| `PatchStrayed` | `OriginalsAlwaysFound` | `uninstall()` clears what a core falls back to that a call has just entered, or that it leaves in place because somebody wrapped it (`_patch.py` 512-530): the fallback then calls `None`. Where the core was wrapped, the next `install()` saves the wrapped core as its own original, and a fallback goes round for ever. |
| `LoadUnlike` | `ConvertsLikeStock` | five fields, each of which TLC finds (`tlc -continue -config LoadUnlike.cfg MCLoadElement`): |
| | | fused: `true` into `Boolean(truthy={"A"}, falsy={"x"})` gives `True`, where load reports an invalid value (`element.rs` 509-515) |
| | | fused: `{"1":0,"01":1,"1":2}` with Integer keys gives `{1: 2}`, stock `{1: 1}` (`element.rs` 589) |
| | | fused: `{"nan":0,"nan":1}` with `Float(allow_nan=True)` keys gives two entries, since no NaN equals another, stock one |
| | | an `Enum` whose value field has a validator takes what the validator rejects (`_compiler.py` 694-701) |
| | | a nested post_load with pass_original gets the converted record as the original, and `partial=False` in a partial load (`_compiler.py` 244-245) |
| `DumpSurrogate` | `DumpsLikeStock` | a string with a lone surrogate: `to_str` fails with a UnicodeEncodeError that is no `AccelFallback`, and `dumps` raises where `json.dumps` writes an escape (`json_writer.rs` 183) |
| `DumpConstant` | `DumpsLikeStock` | a `Constant` under an attribute whose reading raises: `run_one` reads every attribute before the element looks at it (`serializer.rs` 149), marshmallow does not read a Constant's, and `dump` raises only with the core |
| `DumpsOverride` | `DumpsLikeDump` | the fused `dumps` does not call the root class's own `dump` (`_patch.py` 401) |
| `DumpListed` | `OnlyIteratorsListed` | `dumps(many=True)` makes a list of what it is given before anything looks at it (`_patch.py` 394): None, which marshmallow serializes as one record, and an envelope that a pre_dump hook would open are a TypeError; `dump` does the same with a None that reaches `_serialize` (`_patch.py` 194) |
| `AttrPerObject` | `EveryLookupLikeStock` | the answer of one object to `hasattr` is taken for every later one of its type (`attr_access.rs` 82); marshmallow asks each. A proxy class whose objects have `__getitem__` or not is read by item or by attribute according to which came first. |

One more is an assumption that the documentation makes itself: with `ReconfigureInHooks =
TRUE` in `PlanCache.cfg`, where a hook or callback changes the schema under a load,
`AnswersLive` fails, since the load goes on with the plan it has. README.md:37-44 asks
nobody to do this.

Read in the code while modelling, and left out of the models: a generator that yields the
same mutable row again and again, or raises after some records (`list()` first, records
later); a subclass of
`datetime` with an `isoformat` of its own; the order of key and value errors of a typed
`Dict`; a root class that overrides `load` (`loads` does not call
it); and `_compiler.py` 279-281 and 451-455, which say the dump core has no `AccelFallback` and are
older than the code.

The passing runs leave exactly these inputs out, and each is what a configuration above is
about:
`load_record` and `json_record` say nothing of a record where a nested schema is told of
partial something else than by stock (`partialsKept`), `plan_cache` nothing of the partial
of an instance where a False is dropped (`FalseDropped`); `load_element` has no Boolean with its
own sets, no `Enum` with validators on its value field, no nested post_load that reads
the original data or partial, and no JSON object whose repeated and distinct keys
become one field key, or whose repeated key names a NaN; `do_load` has replayable hooks only
(`Replayable`); `patch` asks only `NoForeignPatchClobbered` once somebody has `strayed`;
`dump_element`
has no lone surrogates, no `Constant` under an
attribute that raises, and gives an iterator to no field that reads it unguarded (`Draining`);
`dump_call` overrides no `dump` where the writer
is asked, and lists only what marshmallow iterates (`ListsLikeStock`); `attr_access` compares
only readings of types whose objects answer alike; in `plan_cache` no schema changes during
a load of it.

## 4. The proofs

TLAPS checks every theorem down to its leaves, for all values of the constants, under the
named assumptions.

**RecordProofs**, about both record loops. It begins with lemmas about the declarative
description: how `StockOut` of *n + 1* fields comes from that of *n* (a store replaces what
is at and below its path, a missing outcome changes nothing), and how the unknown keys are
added one by one. Then, for each loop: `TypeCorrect`, `LoopMatchesStock`,
`InterruptsMatchStock`, `FallbacksAreJustified`. None of the three properties is
inductive: each speaks of the end of the loop. `IInv` adds what holds on the way: stock
accepts every field behind the loop, and `out` *is* the output stock has after the same
fields (`StockOut(..., i - 1)`), so that each arm of the loop is one use of the step
lemma. `JsonIInv` needs one thing more, `Learned(n)`: after *n* members the buckets
hold what `json.loads` of those members gives each field, and `held` its unknown rest.
All of it is under `partialsKept`, which no step changes: `KeptAlike` is the one place where
it is used, to turn what the core hands a field into what stock hands it.
Assumed: the sentinels differ from the values (`Sentinels`), schemas, inputs and partials
have their types, fields have typed outcomes (`FieldsTyped`), a field with no nested schema
ignores partial, and one whose schema has no partial of its own treats all falsy ones alike
(`FieldsReadPartial`), and every native
element keeps its contract (`ElementsSound`). The contract is what `load_element` checks
and `LoadElementProofs` proves of the code's own elements; the theorems make no claim about
an element that breaks it, such as those of `LoadUnlike`.

**DoLoadProofs**: `TypeCorrect`, `HookDiscipline`, `RecordDiscipline` for every set of
well-formed calls, and `ImplementsStock`, which is `RefinesPromise`, for every set of calls
with replayable pre_load hooks. `LoadInv` is the invariant: `StageInv` ties the errors
collected at each stage to those stock has there, and says what state the data are in at
a re-run; `RanInv` says which hooks may have run, `AttemptsInv` how often each record was
loaded in each phase.

**PatchProofs**, for any attributes, wrappers and tasks: `TypeCorrect` and
`ForeignPatchesSurvive` of any use, whoever calls meanwhile, whoever has wrapped the core.
The second needs only which step of `install()` or `uninstall()` may follow which
(`PhaseInv`): an attribute that `uninstall()` writes holds the bare core.
`FallbackFindsOriginal`, `NoDoublePatch` and `UninstallRestoresStock` are about the time until
somebody has `strayed`, for which `PatchInv` is inductive. `PatchInv` says, for each step of `install()` and
`uninstall()`, which attributes may lead to the core and which originals exist
(`AdminInv`), and that a call which has the core before it, or the lookup of its
original, has a saved original (`CallInv`).

**DumpCallProofs**: `TypeCorrect`, `AttemptsAreBounded`, `HookDiscipline` for every set of
well-formed calls, any number of records; `ImplementsStock`, which is `RefinesPromise`, for
every set of calls that do not override `dump` and are made with what marshmallow iterates
where the core makes a list (`ListsLikeStock`). `DumpInv` says at each
phase which kinds of record the pass has left behind (`PassInv`: without it a pass that
ends could hide a failing record), which hooks have run, and how many attempts are behind
each record (`AttemptsInv`).

**CacheProofs**, of `PlanCache`: `TypeCorrect` and `AnswersStayLive`, for any set of schemas nested one
level deep, any configurations, hooks and partials, supported or not, if no user code
changes a schema under its own load. `PartialArrives` is the part about partial: along the
plan or called back, an instance goes by the partial stock would have it go by, unless a
False is dropped on the way to it. `AnswersLive` alone is not inductive; `CacheInv` adds that a plan of a schema
that is not dirty is the one that would be built now (`PlansFresh`), and the same of the plan
a load holds (`LoadFresh`).

**CacheProofs**, of `AttrAccess`: `SlotTyped` and `LookupsLikeStock`, for any types, objects and depth
of nested runs, whatever changes in between. `AttrInv` adds `SlotTold`: what the slot says
of a type, an object of that type said since the slot was last cleared. So a
reading off the slot goes another way than stock's only when two objects of the type
answered differently within one run.

**LoadElementProofs** is the promise of identical results (README.md:7-9) for one value of
one field, whatever fields and values nest in it. Its five invariants are those of the run
`load_element`:

* *The invariant.* `IInv` says of what a field is given that it is a value, and of a result
  that it is the one the loop makes of it: the step is simple, and all the work is in what
  `Elements[n]` and `JsonElements[n]` are, for every `n`. `TypeCorrect` needs no more than
  `CoreTyped` and `JsonTyped`: an outcome of the core is a value, a deferral or an exception.
* *From a dict.* `ElementsLikeStock`: elements with their validators agree with their
  fields (`Agrees`: the value is stock's, and an exception is one of stock's too, if
  perhaps another). By induction over the levels, with a lemma per container. Each has
  two loops that stop at different items: the core at the first that it defers or that
  raises, marshmallow at the first that raises, collecting what is merely invalid. A typed
  `Dict` is the hardest: the core goes entry by entry, marshmallow through all keys first.
* *Off the tree.* `ElementsMirror`: `Mirrors(exact, json, dict)`, the value the tree gives is
  the one the dict made of it gives, and where nothing is repeated in the tree (`exact`) the
  outcome is the same altogether. Where keys repeat, `json.loads` has already dropped what
  the core still converts: `Assigned` of the core's keys has to be that of the distinct ones.
  `ConvertsAlike` and `JsonAlike` follow.
* *Exceptions off the tree.* `RaisesAlike` needs one thing more: what `json.loads` drops and
  the core tries must raise nothing. `Quiet` says that an element raises nothing on a value
  of the tree, `Calm` that nothing in what it makes could make a later step raise; the one
  exception is a key that a Pluck made a dict of.
* *Partial.* `PartialIsUnread`: `Reads(n)`, an element of `n` levels outside
  `ConsumesPartial[n]` makes the same of every value under any partial.

Two properties had to be restated when their proofs failed, and now say what the code does.
Which of two exceptions comes out may differ: of
`Dict(keys=Raw(validate=Range(min=1)), values=Integer)` on `{1: v, "x": 2}`, where reading
`v` is interrupted, the core raises the interrupt of the first value, marshmallow the
TypeError of the second key. `RaisesLikeStock` is therefore about raising at all. And off
the tree an unknown key is seen before any field is tried: with
`Nested(Dict(keys=Pluck(String)))` on `{"k": {"x": 1}, "1": 0}` the tree defers what from the
dict is a TypeError, which is why `JsonLikeDict` lets a deferral stand for an exception; the
re-run then raises it. A third failure was the model's: a `Range` without bounds looked at
the value.

**DumpElementProofs** is the promise of identical bytes (README.md:7-9, 51-54) for one
record. It goes from the byte up:

* *Text.* `OffsetLikeCPython` and `TemporalLikeCPython`: every time with every offset is
  written like `isoformat()`. `SurrogatePairsDecode` and `NonAsciiLikeCPython`: the
  arithmetic of one escape. `EscapeLikeCPython`: `json_escape_into`, which walks the UTF-8
  bytes, keeps a pending run of clean ones and flushes it before each escape, leaves what
  `json.dumps` does character by character, for every sequence of characters. The
  invariant of the walk (`Progress`): what was written, followed by the pending run, is
  the escapes of the characters behind it.
* *Elements.* `Made(r, n)`: what a field makes of a value is a value of so many levels, or
  an exception. `Agrees(mine, stock)`: what the core does not defer is stock's outcome.
  `ElementsLikeStock`: the elements of every depth agree with their fields. By induction
  over the levels, with a lemma for every container (`CollectedAgrees`, `RecordAgrees`,
  `RunAgrees`, ...), the work of which is the error case: the core stops at the first bad
  item, where stock may be stopped by another.
* *Writers.* `WritersLikeStock`: what a writer leaves is the text `json.dumps` makes of what
  the field makes (`JsonText`), although the writer never makes it; an induction over the
  levels of the value inside one over those of the field. It needs that `json.dumps` does
  not give up first (`PyDepthAssumption`: the code's 512 levels below Python's recursion
  limit). `WritersNestBounded`: a text of the writer has at most two levels for each of
  the field's, and those of the limit.
* *Calls.* `DumpTypes`, `TextsNestBounded`, `RerunsAlike`, `DumpLikeStock` are the four
  invariants of the run `dump_element`, for every set of schemas and records. The
  inductive invariant of the last two is that the record is still the one given until the
  call ends; with it, whichever attempt answers, answers for that record.

**Iteration** is what makes the recursions provable. `Unfold` says of any function
`It[n \in Nat] == IF n = 0 THEN Base ELSE Step(It[n - 1], n)` that it satisfies this equation; it is
proved by building the function up to each level, and instantiated with a base and a step.
`SetInduction` is induction for a *set* of numbers, which, unlike the library's induction
theorem, takes no operator as a parameter.

### Hypotheses

Some theorems hold under conditions that are not assumptions of the model: where they fail
the code does something else, and a run or a remark above shows it. TLC evaluates those of
`DumpElementProofs` and `LoadElementProofs` for the instances it checks (`TheoremsApply`).

| Hypothesis | Theorem | Without it |
|---|---|---|
| pre_load hooks are `Replayable` | `DoLoadProofs!ImplementsStock` | `do_load_unwrap` |
| no call overrides `dump` | `DumpCallProofs!ImplementsStock` | `DumpsOverride` |
| `ListsLikeStock` | `DumpCallProofs!ImplementsStock` | `DumpListed` |
| not `strayed` (in the properties) | `FallbackFindsOriginal`, `NoDoublePatch`, `UninstallRestoresStock` | `PatchStrayed` |
| no `ReconfigureInHooks` | `CacheProofs!AnswersStayLive` | `PlanCache.cfg` with `ReconfigureInHooks = TRUE` |
| not `FalseDropped` (in `AnswersLive`, for the partial only) | `CacheProofs!AnswersStayLive` | `RecordNotPartial` |
| objects of the type answer alike (in `LookupLikeStock`) | `CacheProofs!LookupsLikeStock` | `AttrPerObject` |
| `partialsKept` (in the properties) | `RecordProofs`, all but the types | `record_collection`, `RecordNotPartial` |
| `QuietConstants`: no Constant is declared under an attribute whose reading raises | `ElementsLikeStock` and all that rests on it | `DumpConstant` |
| `Encodable`: no lone surrogates | `DumpLikeStock` | `DumpSurrogate` |
| `GuardedIterators`: an iterator is met only by fields that defer before reading it | `RerunsAlike`, `DumpLikeStock` | `dump_consumed` |
| `ElementsSound`: native elements keep `ElementContract` | `RecordProofs` | `LoadUnlike` |
| `PlainFields`: no Boolean has its own sets, no `Enum`'s field has validators or nests, no nested post_load reads the original data or partial | all of `LoadElementProofs` but `TypeCorrect` | `LoadUnlike` |
| `HarmlessRepeats`: no field with key fields in it is given an object that repeats a key beside another one, or the name of a NaN | `LoadElementProofs!ConvertsAlike` | `LoadUnlike` |
| `QuietRepeats`: no field with a Pluck for a key field is given an object that repeats a key | `LoadElementProofs!RaisesAlike` | `Dict(keys=Pluck(String), values=Integer)` on `{"a": 1, "a": "x"}`: the core raises a TypeError at the entry `json.loads` overwrites, stock a ValidationError at the one it keeps |

**Model-checked only.** `CallsEnd` and the two `CallReturns`: liveness under fairness is out
of the prover's reach. Every invariant and every other action property of a passing run is a
theorem. That an element whose inner schema has *any number of fields* keeps the contract of
the record loops is neither checked nor proved: `LoadElement` has one field in an inner
schema, `RecordProofs` any number in the outer one. The violations.

## 5. What is not modelled

* *Concurrent `install()`*: README.md:81-84 asks for one call at startup.
* *User code that mutates the record while the loop runs over it.* What user code does to
  the schema under a load is in `PlanCache` (`ReconfigureInHooks`).
* *A leaf that is itself a dict and that a later dotted path writes into*; `StockRecord`
  keeps values atomic.
* *What a load callback does beside its result.* The record models compare results; how often
  callbacks run for a record is counted in `DoLoad`, call by call and not field by field.
* *In `LoadElement`*: an inner schema has one required field, `unknown=RAISE`, and no
  `partial` of its own; records with several fields are the business of the record loops.
  The reasons for which a nested schema is not compiled are one option (`hooked`).
* *In `DumpElement`*: dates and numbers are opaque; a record is a dict, objects with
  attributes are `AttrAccess`; an interrupt in user code passes through the dump core like
  any other exception and is not told apart.
* *In `PlanCache`*: nesting is one level deep; the hook caches per class are constant, since
  marshmallow itself collects a class's hooks when the class is made.
* *Error messages.* Errors are raised by stock only; the models tell stages of errors
  apart, not their texts.
* *GC traversal*, *the free-threaded build* (README.md:81-84 excludes it) and *jiter*, the
  JSON parser, which is third-party.

## 6. What could come next

1. `NestedLoad`: callback-nested schemas, whose inner loads run again on each level of a
   deferral; property: at most 2^depth runs of a leaf, and the outcome of one.
2. The refusals of `_build_load_payload` one by one, each with the behaviour it protects.
3. Nesting of any depth in `PlanCache`, and a proof that a record loop composed with itself
   (a nested schema as an element) keeps `ElementContract`, which would turn the assumption
   into a theorem for schemas of native scalars.
