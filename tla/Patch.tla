------------------------------- MODULE Patch -------------------------------
(***************************************************************************)
(* install() and uninstall() of python/marshmallow_core/_patch.py: the     *)
(* attributes of Schema, the saved originals that the core's wrappers read *)
(* when they fall back, other packages' wrappers around the same           *)
(* attributes, and the calls running through all of them.                  *)
(*                                                                         *)
(* A callable is the sequence of the layers a call passes: a foreign       *)
(* wrapper calls what it wrapped, "stock" is marshmallow's own method.     *)
(* "core" ends the sequence: where a call goes on from there is not in the *)
(* callable but in the global _orig_* when the call gets there.            *)
(***************************************************************************)
EXTENDS Naturals, Sequences, SequencesExt

CONSTANTS
  Attrs,       \* the patched attributes, in the order install() treats them
  Wrappers,    \* foreign wrappers
  Tasks,       \* threads that call the patched methods
  NoOriginal   \* the value of _orig_* while not installed

ASSUME AttrsAssumption == Attrs \in Seq(STRING) /\ Attrs # <<>> /\ IsInjective(Attrs)
ASSUME LayersAssumption ==
  /\ Wrappers \cap {"stock", "core", "orig", "TypeError"} = {}
  /\ NoOriginal \notin Seq(Wrappers \cup {"stock", "core"})

Names == Range(Attrs)
Callable ==
  {c \in Seq(Wrappers \cup {"stock", "core"}) :
     c # <<>> /\ Last(c) \in {"stock", "core"}}

VARIABLES
  slots,   \* what each attribute of Schema is
  saved,   \* _orig_serialize, _orig_do_load, _orig_dumps, _orig_loads
  admin,   \* the step of install() or uninstall(), and the attribute it is at
  rest,    \* of each task, the layers its call has still to pass
  target,  \* the attribute the task called
  entered, \* how often the call has entered the core: 0, 1 or more
  strayed  \* history: somebody called while uninstall() ran, or had wrapped
           \* the core when it began

vars == <<slots, saved, admin, rest, target, entered, strayed>>
calls == <<rest, target, entered, strayed>>

Idle == [step |-> "idle", at |-> 1]
AdminSteps == {"idle", "save", "patch", "restore", "clear"}

Init ==
  /\ slots = [n \in Names |-> <<"stock">>]
  /\ saved = [n \in Names |-> NoOriginal]
  /\ admin = Idle
  /\ rest = [t \in Tasks |-> <<>>]
  /\ target \in [Tasks -> {Attrs[1]}]
  /\ entered = [t \in Tasks |-> 0]
  /\ strayed = FALSE

(* is_installed() looks at _orig_serialize only. *)
IsInstalled == saved[Attrs[1]] # NoOriginal

attr == Attrs[admin.at]

BareCore(n) == slots[n] = <<"core">>

(* After an attribute: the next one, or the first of the next step. *)
Advance(next) ==
  admin' = IF admin.at < Len(Attrs) THEN [admin EXCEPT !.at = @ + 1]
           ELSE IF next = "idle" THEN Idle ELSE [step |-> next, at |-> 1]

(* A call that met None for its original has ended, with a TypeError. *)
Running(t) == rest[t] \notin {<<>>, <<"TypeError">>}

-----------------------------------------------------------------------------
(* install(): every original is saved before the first attribute changes.  *)
(* Mutant of InstallStart: no is_installed() test. *)
InstallStartAgain ==
  /\ admin = Idle
  /\ admin' = [step |-> "save", at |-> 1]
  /\ UNCHANGED <<slots, saved, calls>>

InstallStart ==
  /\ admin = Idle /\ ~IsInstalled
  /\ admin' = [step |-> "save", at |-> 1]
  /\ UNCHANGED <<slots, saved, calls>>

(* Mutant of InstallSave: one global is forgotten. *)
InstallSaveFirst ==
  /\ admin.step = "save"
  /\ saved' = IF admin.at = 1 THEN [saved EXCEPT ![attr] = slots[attr]] ELSE saved
  /\ Advance("patch")
  /\ UNCHANGED <<slots, calls>>

(* Mutant of InstallSave: marshmallow's own method is saved. *)
InstallSaveStock ==
  /\ admin.step = "save"
  /\ saved' = [saved EXCEPT ![attr] = <<"stock">>]
  /\ Advance("patch")
  /\ UNCHANGED <<slots, calls>>

InstallSave ==
  /\ admin.step = "save"
  /\ saved' = [saved EXCEPT ![attr] = slots[attr]]
  /\ Advance("patch")
  /\ UNCHANGED <<slots, calls>>

InstallPatch ==
  /\ admin.step = "patch"
  /\ slots' = [slots EXCEPT ![attr] = <<"core">>]
  /\ Advance("idle")
  /\ UNCHANGED <<saved, calls>>

(* uninstall(): restores each attribute that is still the core's own.      *)
UninstallStart ==
  /\ admin = Idle /\ IsInstalled
  /\ admin' = [step |-> "restore", at |-> 1]
  /\ strayed' = (strayed \/ (\E t \in Tasks : Running(t)) \/ \E n \in Names : ~BareCore(n))
  /\ UNCHANGED <<slots, saved, rest, target, entered>>

(* Mutant of UninstallRestore: the global is cleared first. *)
UninstallRestoreCleared ==
  /\ admin.step = "restore"
  /\ saved' = [saved EXCEPT ![attr] = NoOriginal]
  /\ slots' = IF slots[attr] = <<"core">>
              THEN [slots EXCEPT ![attr] = saved'[attr]] ELSE slots
  /\ Advance("clear")
  /\ UNCHANGED calls

(* Mutant of UninstallRestore: one attribute is forgotten. *)
UninstallRestoreFirst ==
  /\ admin.step = "restore"
  /\ slots' = IF slots[attr] = <<"core">> /\ admin.at = 1
              THEN [slots EXCEPT ![attr] = saved[attr]] ELSE slots
  /\ Advance("clear")
  /\ UNCHANGED <<saved, calls>>

(* Mutant of UninstallRestore: R7 is forgotten. *)
UninstallRestoreBlind ==
  /\ admin.step = "restore"
  /\ slots' = [slots EXCEPT ![attr] = saved[attr]]
  /\ Advance("clear")
  /\ UNCHANGED <<saved, calls>>

UninstallRestore ==
  /\ admin.step = "restore"
  /\ slots' = IF slots[attr] = <<"core">>
              THEN [slots EXCEPT ![attr] = saved[attr]] ELSE slots
  /\ Advance("clear")
  /\ UNCHANGED <<saved, calls>>

UninstallClear ==
  /\ admin.step = "clear"
  /\ saved' = [saved EXCEPT ![attr] = NoOriginal]
  /\ Advance("idle")
  /\ UNCHANGED <<slots, calls>>

-----------------------------------------------------------------------------
(* Another package wraps an attribute, or takes its topmost wrapper off.   *)
(* It does so while neither install() nor uninstall() runs: README.md asks *)
(* for install() once at startup.                                          *)
Wrap(w, n) ==
  /\ admin = Idle
  /\ w \notin Range(slots[n])
  /\ saved[n] # NoOriginal => w \notin Range(saved[n])
  /\ slots' = [slots EXCEPT ![n] = <<w>> \o @]
  /\ UNCHANGED <<saved, admin, calls>>

Unwrap(w, n) ==
  /\ admin = Idle
  /\ Head(slots[n]) = w
  /\ slots' = [slots EXCEPT ![n] = Tail(@)]
  /\ UNCHANGED <<saved, admin, calls>>

-----------------------------------------------------------------------------
(* A call of Schema.<n>, layer by layer. *)
Call(t, n) ==
  /\ ~Running(t)
  /\ strayed' = (strayed \/ admin.step \in {"restore", "clear"})
  /\ rest' = [rest EXCEPT ![t] = slots[n]]
  /\ target' = [target EXCEPT ![t] = n]
  /\ entered' = [entered EXCEPT ![t] = 0]
  /\ UNCHANGED <<slots, saved, admin>>

PassWrapper(t) ==
  /\ Running(t) /\ Head(rest[t]) \in Wrappers
  /\ rest' = [rest EXCEPT ![t] = Tail(@)]
  /\ UNCHANGED <<slots, saved, admin, target, entered, strayed>>

ReachStock(t) ==
  /\ Running(t) /\ Head(rest[t]) = "stock"
  /\ rest' = [rest EXCEPT ![t] = <<>>]
  /\ UNCHANGED <<slots, saved, admin, target, entered, strayed>>

(* The patched method: the core answers, or the task is left at the point  *)
(* where _orig_* is looked up.                                             *)
EnterCore(t) ==
  /\ Running(t) /\ rest[t] = <<"core">>
  /\ entered' = [entered EXCEPT ![t] = IF @ < 2 THEN @ + 1 ELSE @]
  /\ rest' = [rest EXCEPT ![t] = <<>>] \/ rest' = [rest EXCEPT ![t] = <<"orig">>]
  /\ UNCHANGED <<slots, saved, admin, target, strayed>>

(* return _orig_do_load(self, ...): None is not callable. *)
CallOriginal(t) ==
  /\ Running(t) /\ rest[t] = <<"orig">>
  /\ rest' = [rest EXCEPT ![t] = IF saved[target[t]] = NoOriginal
                                 THEN <<"TypeError">> ELSE saved[target[t]]]
  /\ UNCHANGED <<slots, saved, admin, target, entered, strayed>>

Proceed(t) ==
  \/ PassWrapper(t) \/ ReachStock(t)
  \/ EnterCore(t) \/ CallOriginal(t)

Admin ==
  \/ InstallSave \/ InstallPatch \/ UninstallRestore \/ UninstallClear

Next ==
  \/ InstallStart \/ UninstallStart \/ Admin
  \/ \E w \in Wrappers, n \in Names : Wrap(w, n) \/ Unwrap(w, n)
  \/ \E t \in Tasks : Proceed(t) \/ \E n \in Names : Call(t, n)

(* A call that has begun goes on, and so does install() or uninstall().    *)
Fairness == WF_vars(Admin) /\ \A t \in Tasks : WF_vars(Proceed(t))

Spec == Init /\ [][Next]_vars /\ Fairness

-----------------------------------------------------------------------------
TypeOK ==
  /\ slots \in [Names -> Callable]
  /\ saved \in [Names -> Callable \cup {NoOriginal}]
  /\ admin \in [step: AdminSteps, at: 1..Len(Attrs)]
  /\ rest \in [Tasks -> Callable \cup {<<>>, <<"orig">>, <<"TypeError">>}]
  /\ target \in [Tasks -> Names]
  /\ entered \in [Tasks -> 0..2]
  /\ strayed \in BOOLEAN

(* As long as uninstall() is left to run alone, on a core that nobody has  *)
(* wrapped, a call that the core does not answer finds the original to go  *)
(* on with: the wrappers "otherwise call the saved pure-Python originals"  *)
(* (_patch.py, module docstring).                                          *)
OriginalsAreFound == ~strayed => \A t \in Tasks : rest[t] # <<"TypeError">>

(* The same of every use, as the docstring says it.  uninstall() clears    *)
(* what a core falls back to that a call is in, or that it leaves wrapped. *)
OriginalsAlwaysFound == \A t \in Tasks : rest[t] # <<"TypeError">>

(* No call runs through the core twice: what install() saves as original   *)
(* never leads back to the core, unless uninstall() left it wrapped.       *)
CoreEnteredOnce == ~strayed => \A t \in Tasks : entered[t] <= 1

(* Once uninstall() is through, no call gets to the core any more: every   *)
(* attribute is stock's or a foreign wrapper around stock's.               *)
UninstalledIsStock ==
  ~strayed /\ admin = Idle /\ ~IsInstalled =>
    \A n \in Names : "core" \notin Range(slots[n])

(* install() and uninstall() keep every foreign wrapper, also one that was *)
(* put around the core after install(): what an attribute holds, and what  *)
(* lies beneath a core that nobody wrapped, is still there, or among what  *)
(* the core falls back to (R7 in uninstall(): "not restoring to avoid      *)
(* clobbering a foreign patch").                                           *)
Beneath(n) == IF saved[n] = NoOriginal THEN {} ELSE Range(saved[n])
Foreign(n) == Wrappers \cap (Range(slots[n]) \cup Beneath(n))
Owed(n) ==
  Wrappers \cap (Range(slots[n]) \cup IF slots[n] = <<"core">> THEN Beneath(n) ELSE {})

NoForeignPatchClobbered == [][Admin => \A n \in Names : Owed(n) \subseteq Foreign(n)']_vars

(* Every call ends, through however many wrappers it goes; only a core     *)
(* that became its own original, after uninstall() left it wrapped, may    *)
(* send a call round for ever.                                             *)
CallsEnd == \A t \in Tasks : Running(t) ~> (~Running(t) \/ strayed)

-----------------------------------------------------------------------------
Uncored(c) == "core" \notin Range(c)
IsSaved(n) == saved[n] # NoOriginal

(* The inductive invariant of PatchProofs, whatever others do: how far     *)
(* install() or uninstall() is.  A bare core that uninstall() leaves was   *)
(* there before install().                                                 *)
PhaseInv ==
  /\ admin.step = "idle" =>
       admin = Idle /\ ((\A n \in Names : IsSaved(n)) \/ (\A n \in Names : ~IsSaved(n)))
  /\ admin.step \in {"patch", "restore"} => \A n \in Names : IsSaved(n)
  /\ \A j \in 1..Len(Attrs) :
       LET n == Attrs[j] IN
       /\ admin.step = "save" /\ j < admin.at => IsSaved(n) /\ saved[n] = slots[n]
       /\ admin.step = "save" /\ j >= admin.at => ~IsSaved(n)
       /\ admin.step = "patch" /\ j >= admin.at => saved[n] = slots[n]
       /\ admin.step = "restore" /\ j < admin.at /\ BareCore(n) => saved[n] = <<"core">>
       /\ admin.step = "clear" /\ j < admin.at => ~IsSaved(n)
       /\ admin.step = "clear" /\ BareCore(n) /\ IsSaved(n) => saved[n] = <<"core">>

(* For the disciplined use: where install() or uninstall() is determines   *)
(* which attributes may lead to the core and which originals are there.    *)
AdminInv ==
  /\ \A n \in Names : IsSaved(n) => Uncored(saved[n])
  /\ admin.step = "idle" =>
       \/ \A n \in Names : IsSaved(n)
       \/ \A n \in Names : ~IsSaved(n) /\ Uncored(slots[n])
  /\ admin.step = "save" =>
       /\ \A n \in Names : Uncored(slots[n])
       /\ \A j \in 1..(admin.at - 1) :
            IsSaved(Attrs[j]) /\ saved[Attrs[j]] = slots[Attrs[j]]
  /\ admin.step = "patch" =>
       /\ \A n \in Names : IsSaved(n)
       /\ \A j \in admin.at..Len(Attrs) : slots[Attrs[j]] = saved[Attrs[j]]
  /\ admin.step = "restore" =>
       /\ \A n \in Names : IsSaved(n)
       /\ \A n \in Names : slots[n] = <<"core">> \/ Uncored(slots[n])
       /\ \A j \in 1..(admin.at - 1) : Uncored(slots[Attrs[j]])
  /\ admin.step = "clear" =>
       /\ \A n \in Names : Uncored(slots[n])
       /\ \A j \in 1..(admin.at - 1) : ~IsSaved(Attrs[j])
  /\ admin.step = "idle" => admin = Idle

CallInv ==
  /\ admin.step \in {"restore", "clear"} => \A t \in Tasks : ~Running(t)
  /\ \A t \in Tasks :
       /\ entered[t] <= 1
       /\ rest[t] # <<"TypeError">>
       /\ rest[t] = <<"orig">> \/ ~Uncored(rest[t]) => IsSaved(target[t])
       /\ ~Uncored(rest[t]) => entered[t] = 0

PatchInv == TypeOK /\ AdminInv /\ CallInv
=============================================================================
