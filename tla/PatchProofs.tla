---------------------------- MODULE PatchProofs ----------------------------
(***************************************************************************)
(* Proofs about Patch for any attributes, wrappers and tasks: whoever      *)
(* calls and wraps, types and foreign patches are kept; and as long as     *)
(* uninstall() is called while nobody calls, and with nobody's wrapper     *)
(* around the core, the originals are there and the core is entered once.  *)
(***************************************************************************)
EXTENDS Patch, TLAPS

(* Names and positions of the attributes are the same thing. *)
LEMMA Positions ==
  /\ Len(Attrs) \in Nat /\ Len(Attrs) >= 1
  /\ Names = {Attrs[j] : j \in 1..Len(Attrs)}
  /\ \A j \in 1..Len(Attrs) : Attrs[j] \in Names
  /\ \A n \in Names : \E j \in 1..Len(Attrs) : n = Attrs[j]
  /\ \A j, k \in 1..Len(Attrs) : Attrs[j] = Attrs[k] => j = k
<1>1. Len(Attrs) \in Nat /\ Len(Attrs) >= 1 /\ DOMAIN Attrs = 1..Len(Attrs)
  BY AttrsAssumption
<1>2. Names = {Attrs[j] : j \in 1..Len(Attrs)}
  BY <1>1 DEF Names, Range
<1>3. \A j, k \in 1..Len(Attrs) : Attrs[j] = Attrs[k] => j = k
  BY <1>1, AttrsAssumption DEF IsInjective
<1> QED
  BY <1>1, <1>2, <1>3

(* A callable's layers, when a wrapper is put on top or taken off. *)
LEMMA WrapLayers ==
  ASSUME NEW c \in Callable, NEW w \in Wrappers
  PROVE  <<w>> \o c \in Callable /\ Range(<<w>> \o c) = {w} \cup Range(c)
<1>1. c \in Seq(Wrappers \cup {"stock", "core"}) /\ Len(c) \in Nat
  BY DEF Callable
<1> DEFINE d == <<w>> \o c
<1>2. /\ d \in Seq(Wrappers \cup {"stock", "core"}) /\ Len(d) = Len(c) + 1
      /\ d[1] = w /\ \A j \in 1..Len(c) : d[j + 1] = c[j]
  BY <1>1
<1>3. DOMAIN d = 1..(Len(c) + 1) /\ DOMAIN c = 1..Len(c)
  BY <1>1, <1>2
<1> HIDE DEF d
<1>4. Range(d) \subseteq {w} \cup Range(c)
  <2> SUFFICES ASSUME NEW j \in 1..(Len(c) + 1) PROVE d[j] \in {w} \cup Range(c)
    BY <1>3 DEF Range
  <2>1. CASE j = 1
    BY <1>2, <2>1
  <2>2. CASE j # 1
    <3>1. j - 1 \in 1..Len(c) /\ d[(j - 1) + 1] = c[j - 1] /\ (j - 1) + 1 = j
      BY <1>1, <1>2, <2>2
    <3> QED
      BY <3>1, <1>3 DEF Range
  <2> QED
    BY <2>1, <2>2
<1>5. {w} \cup Range(c) \subseteq Range(d)
  <2>1. w \in Range(d)
    BY <1>1, <1>2, <1>3 DEF Range
  <2>2. \A j \in 1..Len(c) : c[j] \in Range(d)
    BY <1>1, <1>2, <1>3 DEF Range
  <2> QED
    BY <2>1, <2>2, <1>3 DEF Range
<1>6. d # <<>> /\ Last(d) \in {"stock", "core"}
  <2>1. Len(c) >= 1 /\ c[Len(c)] \in {"stock", "core"}
    BY <1>1 DEF Callable, Last
  <2>2. Last(d) = d[Len(c) + 1] /\ d[Len(c) + 1] = c[Len(c)]
    BY <1>1, <1>2, <2>1 DEF Last
  <2> QED
    BY <1>1, <1>2, <2>1, <2>2
<1> QED
  BY <1>2, <1>4, <1>5, <1>6 DEF d, Callable

(* Taking a wrapper off a callable leaves a callable of fewer layers. *)
LEMMA TailLayers ==
  ASSUME NEW c \in Callable, Head(c) \in Wrappers
  PROVE  /\ Tail(c) \in Callable
         /\ Range(Tail(c)) \subseteq Range(c)
<1>1. /\ c \in Seq(Wrappers \cup {"stock", "core"}) /\ Len(c) \in Nat /\ Len(c) >= 1
      /\ c[Len(c)] \in {"stock", "core"} /\ c[1] \in Wrappers
  BY DEF Callable, Last
<1>2. /\ Tail(c) \in Seq(Wrappers \cup {"stock", "core"}) /\ Len(Tail(c)) = Len(c) - 1
      /\ \A j \in 1..(Len(c) - 1) : Tail(c)[j] = c[j + 1]
  BY <1>1
<1>3. DOMAIN Tail(c) = 1..(Len(c) - 1) /\ DOMAIN c = 1..Len(c)
  BY <1>1, <1>2
<1>4. \A j \in 1..(Len(c) - 1) : Tail(c)[j] \in Range(c)
  BY <1>1, <1>2, <1>3 DEF Range
<1>5. Len(c) >= 2
  BY <1>1, LayersAssumption
<1>6. Tail(c) # <<>> /\ Last(Tail(c)) = c[Len(c)]
  <2>1. Len(c) - 1 \in 1..(Len(c) - 1) /\ (Len(c) - 1) + 1 = Len(c)
    BY <1>1, <1>5
  <2>2. Tail(c)[Len(c) - 1] = c[Len(c)]
    BY <1>2, <2>1
  <2>3. Last(Tail(c)) = Tail(c)[Len(Tail(c))]
    BY DEF Last
  <2> QED
    BY <1>1, <1>2, <1>5, <2>2, <2>3
<1> QED
  BY <1>1, <1>2, <1>3, <1>4, <1>6 DEF Range, Callable

(* The sequences that are not made of wrappers. *)
LEMMA Singletons ==
  /\ <<"core">> \in Callable /\ <<"stock">> \in Callable
  /\ Range(<<"core">>) = {"core"} /\ Range(<<"stock">>) = {"stock"}
  /\ Uncored(<<"stock">>) /\ Uncored(<<"orig">>) /\ Uncored(<<>>)
  /\ Uncored(<<"TypeError">>) /\ ~Uncored(<<"core">>)
  /\ NoOriginal \notin Callable
BY LayersAssumption DEF Callable, Range, Uncored, Last

-----------------------------------------------------------------------------
(* Type correctness, given where install() or uninstall() is.              *)

(* Advance moves inside the steps and the attributes. *)
LEMMA AdvanceTyped ==
  ASSUME admin \in [step: AdminSteps, at: 1..Len(Attrs)], NEW s \in AdminSteps, Advance(s)
  PROVE  admin' \in [step: AdminSteps, at: 1..Len(Attrs)]
BY Positions DEF Advance, Idle, AdminSteps

(* Every step keeps the types. *)
LEMMA TypeStep ==
  ASSUME admin.step = "restore" => \A n \in Names : IsSaved(n)
  PROVE  TypeOK /\ [Next]_vars => TypeOK'
<1> SUFFICES ASSUME TypeOK, [Next]_vars PROVE TypeOK'
  OBVIOUS
<1>0. /\ Idle \in [step: AdminSteps, at: 1..Len(Attrs)]
      /\ [step |-> "save", at |-> 1] \in [step: AdminSteps, at: 1..Len(Attrs)]
      /\ [step |-> "restore", at |-> 1] \in [step: AdminSteps, at: 1..Len(Attrs)]
      /\ attr \in Names
  BY Positions DEF Idle, AdminSteps, TypeOK, attr
<1>1. CASE InstallStart
  BY <1>0, <1>1 DEF InstallStart, TypeOK, calls
<1>2. CASE UninstallStart
  BY <1>0, <1>2 DEF UninstallStart, TypeOK, calls
<1>3. CASE InstallSave
  <2>1. admin' \in [step: AdminSteps, at: 1..Len(Attrs)]
    BY <1>3, AdvanceTyped DEF InstallSave, TypeOK, AdminSteps
  <2> QED
    BY <1>0, <1>3, <2>1 DEF InstallSave, TypeOK, calls
<1>4. CASE InstallPatch
  <2>1. admin' \in [step: AdminSteps, at: 1..Len(Attrs)]
    BY <1>4, AdvanceTyped DEF InstallPatch, TypeOK, AdminSteps
  <2> QED
    BY <1>0, <1>4, <2>1, Singletons DEF InstallPatch, TypeOK, calls
<1>5. CASE UninstallRestore
  <2>1. admin' \in [step: AdminSteps, at: 1..Len(Attrs)]
    BY <1>5, AdvanceTyped DEF UninstallRestore, TypeOK, AdminSteps
  <2>2. saved[attr] \in Callable
    BY <1>0, <1>5 DEF UninstallRestore, IsSaved, TypeOK
  <2> QED
    BY <1>0, <1>5, <2>1, <2>2 DEF UninstallRestore, TypeOK, calls
<1>6. CASE UninstallClear
  <2>1. admin' \in [step: AdminSteps, at: 1..Len(Attrs)]
    BY <1>6, AdvanceTyped DEF UninstallClear, TypeOK, AdminSteps
  <2> QED
    BY <1>0, <1>6, <2>1 DEF UninstallClear, TypeOK, calls
<1>7. ASSUME NEW w \in Wrappers, NEW n \in Names, Wrap(w, n) PROVE TypeOK'
  BY <1>7, WrapLayers DEF Wrap, TypeOK, calls
<1>8. ASSUME NEW w \in Wrappers, NEW n \in Names, Unwrap(w, n) PROVE TypeOK'
  BY <1>8, TailLayers DEF Unwrap, TypeOK, calls
<1>9. ASSUME NEW t \in Tasks, NEW n \in Names, Call(t, n) PROVE TypeOK'
  BY <1>9 DEF Call, TypeOK
<1>10. ASSUME NEW t \in Tasks, PassWrapper(t) PROVE TypeOK'
  <2>1. rest[t] \in Callable
    BY <1>10, LayersAssumption DEF PassWrapper, Running, TypeOK
  <2> QED
    BY <1>10, <2>1, TailLayers DEF PassWrapper, TypeOK
<1>11. ASSUME NEW t \in Tasks, ReachStock(t) PROVE TypeOK'
  BY <1>11 DEF ReachStock, TypeOK
<1>12. ASSUME NEW t \in Tasks, EnterCore(t) PROVE TypeOK'
  BY <1>12 DEF EnterCore, TypeOK
<1>13. ASSUME NEW t \in Tasks, CallOriginal(t) PROVE TypeOK'
  BY <1>13 DEF CallOriginal, TypeOK
<1>15. CASE UNCHANGED vars
  BY <1>15 DEF TypeOK, vars
<1> QED
  BY <1>1, <1>2, <1>3, <1>4, <1>5, <1>6, <1>7, <1>8, <1>9, <1>10, <1>11, <1>12,
     <1>13, <1>15 DEF Next, Admin, Proceed

-----------------------------------------------------------------------------
(* The steps of install() and uninstall(). *)

(* What Advance does, as two cases. *)
LEMMA AdvanceCases ==
  ASSUME TypeOK, NEW s \in AdminSteps, Advance(s)
  PROVE  \/ /\ admin.at < Len(Attrs) /\ admin'.step = admin.step
            /\ admin'.at = admin.at + 1
         \/ /\ admin.at = Len(Attrs) /\ admin'.step = s /\ admin'.at = 1
            /\ s = "idle" => admin' = Idle
BY Positions DEF Advance, TypeOK, Idle

(* An attribute of Schema is never the unset _orig_*. *)
LEMMA SlotIsNotNoOriginal ==
  ASSUME TypeOK, NEW n \in Names
  PROVE  slots[n] # NoOriginal
BY Singletons DEF TypeOK

(* Every step of install() and uninstall() keeps AdminInv. *)
LEMMA AdminStep ==
  ASSUME PatchInv, ~strayed',
         \/ InstallStart \/ UninstallStart \/ Admin
  PROVE  AdminInv'
<1>0. /\ attr \in Names /\ attr = Attrs[admin.at]
      /\ admin.at \in 1..Len(Attrs) /\ Len(Attrs) \in Nat /\ Len(Attrs) >= 1
  BY Positions DEF PatchInv, TypeOK, attr
<1>1. CASE InstallStart
  <2>1. \A n \in Names : ~IsSaved(n) /\ Uncored(slots[n])
    BY <1>1, Positions DEF InstallStart, IsInstalled, PatchInv, AdminInv, Idle, IsSaved
  <2>2. \A n \in Names : ~IsSaved(n)' /\ Uncored(slots[n])'
    BY <1>1, <2>1 DEF InstallStart, IsSaved, Uncored
  <2>3. admin'.step = "save" /\ admin'.at = 1
    BY <1>1 DEF InstallStart
  <2> QED
    BY <2>2, <2>3 DEF AdminInv
<1>2. CASE UninstallStart
  <2>1. \A n \in Names : IsSaved(n) /\ Uncored(saved[n])
    BY <1>2, Positions DEF UninstallStart, IsInstalled, PatchInv, AdminInv, Idle, IsSaved
  <2>2. \A n \in Names : IsSaved(n)' /\ Uncored(saved[n])' /\ slots'[n] = <<"core">>
    BY <1>2, <2>1 DEF UninstallStart, IsSaved, Uncored, BareCore
  <2>3. admin'.step = "restore" /\ admin'.at = 1
    BY <1>2 DEF UninstallStart
  <2> QED
    BY <2>2, <2>3 DEF AdminInv
<1>3. CASE InstallSave
  <2>1. admin.step = "save" /\ UNCHANGED slots /\ saved' = [saved EXCEPT ![attr] = slots[attr]]
    BY <1>3 DEF InstallSave
  <2>2. /\ \A n \in Names : Uncored(slots[n]) /\ Uncored(slots[n])'
        /\ \A n \in Names : IsSaved(n) => Uncored(saved[n])
        /\ \A j \in 1..(admin.at - 1) :
             IsSaved(Attrs[j]) /\ saved[Attrs[j]] = slots[Attrs[j]]
    BY <2>1 DEF PatchInv, AdminInv, Uncored
  <2>3. /\ saved'[attr] = slots[attr]
        /\ \A n \in Names : n # attr => saved'[n] = saved[n]
    BY <1>0, <2>1 DEF PatchInv, TypeOK
  <2>4. \A n \in Names : IsSaved(n)' => Uncored(saved[n])'
    BY <2>2, <2>3 DEF IsSaved, Uncored
  <2>5. \A j \in 1..admin.at :
          IsSaved(Attrs[j])' /\ saved'[Attrs[j]] = slots'[Attrs[j]]
    <3> SUFFICES ASSUME NEW j \in 1..admin.at
                 PROVE  IsSaved(Attrs[j])' /\ saved'[Attrs[j]] = slots'[Attrs[j]]
      OBVIOUS
    <3>1. Attrs[j] \in Names /\ slots[Attrs[j]] # NoOriginal
      BY <1>0, Positions, SlotIsNotNoOriginal DEF PatchInv
    <3>2. CASE j = admin.at
      BY <1>0, <2>1, <2>3, <3>1, <3>2 DEF IsSaved
    <3>3. CASE j # admin.at
      <4>1. j \in 1..(admin.at - 1) /\ Attrs[j] # attr
        BY <1>0, <3>3, Positions
      <4> QED
        BY <2>1, <2>2, <2>3, <3>1, <4>1 DEF IsSaved
    <3> QED
      BY <3>2, <3>3
  <2>6. CASE /\ admin.at < Len(Attrs) /\ admin'.step = admin.step
             /\ admin'.at = admin.at + 1
    <3>1. 1..(admin'.at - 1) = 1..admin.at /\ admin'.step = "save"
      BY <1>0, <2>1, <2>6
    <3> QED
      BY <2>2, <2>4, <2>5, <3>1 DEF AdminInv
  <2>7. CASE admin.at = Len(Attrs) /\ admin'.step = "patch" /\ admin'.at = 1
    <3>1. \A n \in Names : IsSaved(n)' /\ saved'[n] = slots'[n]
      BY <2>5, <2>7, Positions
    <3>2. \A j \in admin'.at..Len(Attrs) : slots'[Attrs[j]] = saved'[Attrs[j]]
      BY <2>5, <2>7
    <3> QED
      BY <2>4, <2>7, <3>1, <3>2 DEF AdminInv
  <2> QED
    BY <1>3, <2>6, <2>7, AdvanceCases DEF InstallSave, PatchInv, AdminSteps
<1>4. CASE InstallPatch
  <2>1. /\ admin.step = "patch" /\ UNCHANGED saved
        /\ slots' = [slots EXCEPT ![attr] = <<"core">>]
    BY <1>4 DEF InstallPatch
  <2>2. \A n \in Names : IsSaved(n)' /\ Uncored(saved[n])'
    BY <2>1 DEF PatchInv, AdminInv, IsSaved, Uncored
  <2>3. CASE /\ admin.at < Len(Attrs) /\ admin'.step = admin.step
             /\ admin'.at = admin.at + 1
    <3>1. \A j \in admin'.at..Len(Attrs) :
            j \in admin.at..Len(Attrs) /\ Attrs[j] # attr /\ Attrs[j] \in Names
      BY <1>0, <2>3, Positions
    <3>2. \A j \in admin'.at..Len(Attrs) : slots'[Attrs[j]] = saved'[Attrs[j]]
      BY <2>1, <3>1 DEF PatchInv, TypeOK, AdminInv
    <3> QED
      BY <2>1, <2>2, <2>3, <3>2 DEF AdminInv
  <2>4. CASE admin.at = Len(Attrs) /\ admin'.step = "idle" /\ admin' = Idle
    BY <2>2, <2>4 DEF AdminInv
  <2> QED
    BY <1>4, <2>3, <2>4, AdvanceCases DEF InstallPatch, PatchInv, AdminSteps
<1>5. CASE UninstallRestore
  <2>1. /\ admin.step = "restore" /\ UNCHANGED saved
        /\ slots' = IF slots[attr] = <<"core">>
                    THEN [slots EXCEPT ![attr] = saved[attr]] ELSE slots
    BY <1>5 DEF UninstallRestore
  <2>2. /\ \A n \in Names : IsSaved(n)' /\ Uncored(saved[n]) /\ Uncored(saved[n])'
        /\ \A n \in Names : slots[n] = <<"core">> \/ Uncored(slots[n])
        /\ \A j \in 1..(admin.at - 1) : Uncored(slots[Attrs[j]])
    BY <2>1 DEF PatchInv, AdminInv, IsSaved, Uncored
  <2>3. Uncored(slots'[attr])
    BY <1>0, <2>1, <2>2 DEF PatchInv, TypeOK, Uncored
  <2>4. \A n \in Names : n # attr => slots'[n] = slots[n]
    BY <1>0, <2>1 DEF PatchInv, TypeOK
  <2>5. \A n \in Names : slots'[n] = <<"core">> \/ Uncored(slots[n])'
    BY <2>2, <2>3, <2>4 DEF Uncored
  <2>6. \A j \in 1..admin.at : Uncored(slots[Attrs[j]])'
    <3> SUFFICES ASSUME NEW j \in 1..admin.at PROVE Uncored(slots[Attrs[j]])'
      OBVIOUS
    <3>1. CASE j = admin.at
      BY <1>0, <2>3, <3>1 DEF Uncored
    <3>2. CASE j # admin.at
      <4>1. j \in 1..(admin.at - 1) /\ Attrs[j] # attr /\ Attrs[j] \in Names
        BY <1>0, <3>2, Positions
      <4> QED
        BY <2>2, <2>4, <4>1 DEF Uncored
    <3> QED
      BY <3>1, <3>2
  <2>7. CASE /\ admin.at < Len(Attrs) /\ admin'.step = admin.step
             /\ admin'.at = admin.at + 1
    <3>1. 1..(admin'.at - 1) = 1..admin.at /\ admin'.step = "restore"
      BY <1>0, <2>1, <2>7
    <3> QED
      BY <2>2, <2>5, <2>6, <3>1 DEF AdminInv
  <2>8. CASE admin.at = Len(Attrs) /\ admin'.step = "clear" /\ admin'.at = 1
    <3>1. \A n \in Names : Uncored(slots[n])'
      BY <2>6, <2>8, Positions DEF Uncored
    <3> QED
      BY <2>2, <2>8, <3>1 DEF AdminInv
  <2> QED
    BY <1>5, <2>7, <2>8, AdvanceCases DEF UninstallRestore, PatchInv, AdminSteps
<1>6. CASE UninstallClear
  <2>1. /\ admin.step = "clear" /\ UNCHANGED slots
        /\ saved' = [saved EXCEPT ![attr] = NoOriginal]
    BY <1>6 DEF UninstallClear
  <2>2. /\ \A n \in Names : Uncored(slots[n])'
        /\ \A n \in Names : IsSaved(n) => Uncored(saved[n])
        /\ \A j \in 1..(admin.at - 1) : ~IsSaved(Attrs[j])
    BY <2>1 DEF PatchInv, AdminInv, Uncored
  <2>3. saved'[attr] = NoOriginal /\ \A n \in Names : n # attr => saved'[n] = saved[n]
    BY <1>0, <2>1 DEF PatchInv, TypeOK, IsSaved
  <2>4. \A n \in Names : IsSaved(n)' => Uncored(saved[n])'
    BY <2>2, <2>3 DEF IsSaved, Uncored
  <2>5. \A j \in 1..admin.at : ~IsSaved(Attrs[j])'
    <3> SUFFICES ASSUME NEW j \in 1..admin.at PROVE ~IsSaved(Attrs[j])'
      OBVIOUS
    <3>1. CASE j = admin.at
      BY <1>0, <2>3, <3>1 DEF IsSaved
    <3>2. CASE j # admin.at
      <4>1. j \in 1..(admin.at - 1) /\ Attrs[j] # attr /\ Attrs[j] \in Names
        BY <1>0, <3>2, Positions
      <4> QED
        BY <2>2, <2>3, <4>1 DEF IsSaved
    <3> QED
      BY <3>1, <3>2
  <2>6. CASE /\ admin.at < Len(Attrs) /\ admin'.step = admin.step
             /\ admin'.at = admin.at + 1
    <3>1. 1..(admin'.at - 1) = 1..admin.at /\ admin'.step = "clear"
      BY <1>0, <2>1, <2>6
    <3> QED
      BY <2>2, <2>4, <2>5, <3>1 DEF AdminInv
  <2>7. CASE admin.at = Len(Attrs) /\ admin'.step = "idle" /\ admin' = Idle
    <3>1. \A n \in Names : ~IsSaved(n)' /\ Uncored(slots[n])'
      BY <2>2, <2>5, <2>7, Positions DEF IsSaved
    <3> QED
      BY <2>4, <2>7, <3>1 DEF AdminInv
  <2> QED
    BY <1>6, <2>6, <2>7, AdvanceCases DEF UninstallClear, PatchInv, AdminSteps
<1> QED
  BY <1>1, <1>2, <1>3, <1>4, <1>5, <1>6 DEF Admin

-----------------------------------------------------------------------------
(* The steps of others: they leave saved and admin alone. *)
LEMMA WrapStep ==
  ASSUME PatchInv, NEW w \in Wrappers, NEW n \in Names, Wrap(w, n) \/ Unwrap(w, n)
  PROVE  AdminInv'
<1>1. admin = Idle /\ UNCHANGED <<saved, admin>>
  BY DEF Wrap, Unwrap
<1>2. \A m \in Names : m # n => slots'[m] = slots[m]
  BY DEF Wrap, Unwrap, PatchInv, TypeOK
<1>3. Uncored(slots[n]) => Uncored(slots[n])'
  <2>1. slots[n] \in Callable
    BY DEF PatchInv, TypeOK
  <2>2. CASE Wrap(w, n)
    <3>1. slots'[n] = <<w>> \o slots[n]
      BY <2>2 DEF Wrap, PatchInv, TypeOK
    <3>2. Range(slots'[n]) = {w} \cup Range(slots[n])
      BY <2>1, <3>1, WrapLayers
    <3> QED
      BY <3>2, LayersAssumption DEF Uncored
  <2>3. CASE Unwrap(w, n)
    <3>1. slots'[n] = Tail(slots[n]) /\ Head(slots[n]) \in Wrappers
      BY <2>3 DEF Unwrap, PatchInv, TypeOK
    <3>2. Range(slots'[n]) \subseteq Range(slots[n])
      BY <2>1, <3>1, TailLayers
    <3> QED
      BY <3>2 DEF Uncored
  <2> QED
    BY <2>2, <2>3
<1>4. \A m \in Names : /\ IsSaved(m)' <=> IsSaved(m)
                       /\ Uncored(saved[m])' <=> Uncored(saved[m])
                       /\ Uncored(slots[m]) => Uncored(slots[m])'
  BY <1>1, <1>2, <1>3 DEF IsSaved, Uncored
<1> QED
  BY <1>1, <1>4 DEF AdminInv, PatchInv, Idle

(* A step of a call changes nothing that AdminInv is about. *)
LEMMA TaskStep ==
  ASSUME PatchInv, UNCHANGED <<slots, saved, admin>>
  PROVE  AdminInv'
BY DEF PatchInv, AdminInv, IsSaved, Uncored, Idle

-----------------------------------------------------------------------------
(* CallInv, step by step. *)

(* An install() or uninstall() step changes no call, and clears a saved    *)
(* original only while nobody calls.                                       *)
LEMMA AdminKeepsCalls ==
  ASSUME PatchInv, ~strayed',
         \/ InstallStart \/ UninstallStart \/ Admin
  PROVE  CallInv'
<1>0. attr \in Names /\ UNCHANGED <<rest, target, entered>>
  BY Positions DEF calls, PatchInv, TypeOK, attr, Admin, InstallStart, UninstallStart,
     InstallSave, InstallPatch, UninstallRestore, UninstallClear
<1>1. CASE \A t \in Tasks : ~Running(t)
  BY <1>0, <1>1 DEF PatchInv, CallInv, Running, calls, Uncored, Range
<1>2. CASE \E t \in Tasks : Running(t)
  <2>1. admin.step \notin {"restore", "clear"} /\ ~UninstallStart
    BY <1>2 DEF PatchInv, CallInv, UninstallStart
  <2>2. InstallStart \/ InstallSave \/ InstallPatch
    BY <2>1 DEF Admin, UninstallRestore, UninstallClear
  <2>3. \A n \in Names : IsSaved(n) => IsSaved(n)'
    BY <1>0, <2>2, SlotIsNotNoOriginal
    DEF InstallStart, InstallSave, InstallPatch, PatchInv, TypeOK, IsSaved
  <2>4. admin'.step \notin {"restore", "clear"}
    BY <2>2, AdvanceCases
    DEF InstallStart, InstallSave, InstallPatch, PatchInv, AdminSteps
  <2> QED
    BY <1>0, <2>3, <2>4 DEF PatchInv, TypeOK, CallInv, calls, Uncored
<1> QED
  BY <1>1, <1>2

(* Foreign wrapping changes nothing that CallInv is about. *)
LEMMA ForeignKeepsCalls ==
  ASSUME PatchInv, UNCHANGED <<saved, admin, calls>>
  PROVE  CallInv'
BY DEF PatchInv, CallInv, calls, Running, Uncored, IsSaved

(* While the core is installed or being installed, an attribute that leads *)
(* to the core has its original saved.                                     *)
LEMMA CoredIsSaved ==
  ASSUME PatchInv, admin.step \notin {"restore", "clear"}, NEW n \in Names,
         ~Uncored(slots[n])
  PROVE  IsSaved(n)
BY DEF PatchInv, AdminInv, TypeOK, AdminSteps

(* A new call keeps CallInv: what leads to the core has its original. *)
LEMMA CallKeepsCalls ==
  ASSUME PatchInv, ~strayed', NEW t \in Tasks, NEW n \in Names, Call(t, n)
  PROVE  CallInv'
<1>1. /\ admin.step \notin {"restore", "clear"} /\ UNCHANGED <<saved, admin>>
      /\ rest'[t] = slots[n] /\ target'[t] = n /\ entered'[t] = 0
      /\ \A u \in Tasks : u # t => /\ rest'[u] = rest[u] /\ target'[u] = target[u]
                                  /\ entered'[u] = entered[u]
  BY DEF Call, PatchInv, TypeOK
<1>2. slots[n] \in Callable
  BY DEF PatchInv, TypeOK
<1>3. slots[n] # <<"TypeError">> /\ slots[n] # <<"orig">>
  BY <1>2, LayersAssumption DEF Callable, Last
<1>4. ~Uncored(slots[n]) => IsSaved(n)
  BY <1>1, CoredIsSaved
<1> QED
  BY <1>1, <1>3, <1>4 DEF CallInv, PatchInv, IsSaved, Uncored

(* A step of a running call. *)
LEMMA ProceedKeepsCalls ==
  ASSUME PatchInv, NEW t \in Tasks, Proceed(t)
  PROVE  CallInv'
<1>0. /\ Running(t) /\ UNCHANGED <<saved, admin, target>>
      /\ admin.step \notin {"restore", "clear"}
      /\ target[t] \in Names
      /\ \A u \in Tasks : u # t => rest'[u] = rest[u] /\ entered'[u] = entered[u]
  BY DEF Proceed, PassWrapper, ReachStock, EnterCore, CallOriginal,
     PatchInv, CallInv, TypeOK
<1> SUFFICES /\ entered'[t] <= 1
             /\ rest'[t] # <<"TypeError">>
             /\ rest'[t] = <<"orig">> \/ ~Uncored(rest'[t]) => IsSaved(target[t])
             /\ ~Uncored(rest'[t]) => entered'[t] = 0
  BY <1>0 DEF CallInv, PatchInv, IsSaved, Uncored, Running
<1>1. CASE PassWrapper(t)
  <2>1. rest[t] \in Callable /\ Head(rest[t]) \in Wrappers
    BY <1>1, LayersAssumption DEF PassWrapper, Running, PatchInv, TypeOK
  <2>2. rest'[t] = Tail(rest[t]) /\ entered'[t] = entered[t]
    BY <1>1 DEF PassWrapper, PatchInv, TypeOK
  <2>3. rest'[t] \in Callable /\ Range(rest'[t]) \subseteq Range(rest[t])
    BY <2>1, <2>2, TailLayers
  <2>4. rest'[t] # <<"TypeError">> /\ rest'[t] # <<"orig">>
    BY <2>3, LayersAssumption DEF Callable, Last
  <2> QED
    BY <2>2, <2>3, <2>4 DEF PatchInv, CallInv, Uncored
<1>2. CASE ReachStock(t)
  <2>1. rest'[t] = <<>> /\ entered'[t] = entered[t]
    BY <1>2 DEF ReachStock, PatchInv, TypeOK
  <2> QED
    BY <2>1, Singletons DEF PatchInv, CallInv
<1>3. CASE EnterCore(t)
  <2>1. rest[t] = <<"core">> /\ entered[t] = 0 /\ IsSaved(target[t])
    BY <1>3, Singletons DEF EnterCore, PatchInv, CallInv
  <2>2. entered'[t] = 1 /\ rest'[t] \in {<<>>, <<"orig">>}
    BY <1>3, <2>1 DEF EnterCore, PatchInv, TypeOK
  <2> QED
    BY <2>1, <2>2, Singletons
<1>4. CASE CallOriginal(t)
  <2>1. rest[t] = <<"orig">> /\ IsSaved(target[t])
    BY <1>4 DEF CallOriginal, PatchInv, CallInv
  <2>2. rest'[t] = saved[target[t]] /\ entered'[t] = entered[t]
    BY <1>4, <2>1 DEF CallOriginal, PatchInv, TypeOK, IsSaved
  <2>3. saved[target[t]] \in Callable /\ Uncored(saved[target[t]])
    BY <1>0, <2>1 DEF PatchInv, TypeOK, AdminInv, IsSaved
  <2>4. rest'[t] # <<"TypeError">> /\ rest'[t] # <<"orig">>
    BY <2>2, <2>3, LayersAssumption DEF Callable, Last
  <2> QED
    BY <2>2, <2>3, <2>4 DEF PatchInv, CallInv
<1> QED
  BY <1>1, <1>2, <1>3, <1>4 DEF Proceed

-----------------------------------------------------------------------------
(* Every step that does not stray keeps the invariant. *)
LEMMA Inductive == PatchInv /\ ~strayed' /\ [Next]_vars => PatchInv'
<1> SUFFICES ASSUME PatchInv, ~strayed', [Next]_vars PROVE AdminInv' /\ CallInv'
  BY TypeStep DEF PatchInv, AdminInv
<1>1. CASE InstallStart \/ UninstallStart \/ Admin
  BY <1>1, AdminStep, AdminKeepsCalls
<1>2. ASSUME NEW w \in Wrappers, NEW n \in Names, Wrap(w, n) \/ Unwrap(w, n)
      PROVE  AdminInv' /\ CallInv'
  BY <1>2, WrapStep, ForeignKeepsCalls DEF Wrap, Unwrap
<1>3. ASSUME NEW t \in Tasks, Proceed(t) PROVE AdminInv' /\ CallInv'
  <2>1. UNCHANGED <<slots, saved, admin>>
    BY <1>3 DEF Proceed, PassWrapper, ReachStock, EnterCore, CallOriginal
  <2> QED
    BY <1>3, <2>1, TaskStep, ProceedKeepsCalls
<1>4. ASSUME NEW t \in Tasks, NEW n \in Names, Call(t, n) PROVE AdminInv' /\ CallInv'
  BY <1>4, TaskStep, CallKeepsCalls DEF Call
<1>5. CASE UNCHANGED vars
  BY <1>5, TaskStep, ForeignKeepsCalls DEF vars, calls
<1> QED
  BY <1>1, <1>2, <1>3, <1>4, <1>5 DEF Next

(* The invariant holds before the first install(). *)
LEMMA Initial == Init => PatchInv
<1> SUFFICES ASSUME Init PROVE PatchInv
  OBVIOUS
<1>1. TypeOK
  <2>1. admin \in [step: AdminSteps, at: 1..Len(Attrs)]
    BY Positions DEF Init, Idle, AdminSteps
  <2>2. slots \in [Names -> Callable] /\ saved \in [Names -> Callable \cup {NoOriginal}]
    BY Singletons DEF Init
  <2>3. target \in [Tasks -> Names]
    BY Positions DEF Init
  <2>4. /\ rest \in [Tasks -> Callable \cup {<<>>, <<"orig">>, <<"TypeError">>}]
        /\ entered \in [Tasks -> 0..2]
    BY DEF Init
  <2>5. strayed \in BOOLEAN
    BY DEF Init
  <2> QED
    BY <2>1, <2>2, <2>3, <2>4, <2>5 DEF TypeOK
<1>2. AdminInv
  BY Singletons DEF Init, AdminInv, Idle, IsSaved
<1>3. CallInv
  BY Singletons DEF Init, CallInv, Idle, Running
<1> QED
  BY <1>1, <1>2, <1>3 DEF PatchInv

(* What strayed once is not forgotten. *)
LEMMA StrayedStays == strayed /\ [Next]_vars => strayed'
BY DEF Next, Admin, InstallStart, UninstallStart, InstallSave, InstallPatch,
   UninstallRestore, UninstallClear, Wrap, Unwrap, Call, Proceed, PassWrapper,
   ReachStock, EnterCore, CallOriginal, calls, vars

(* PatchInv holds as long as nobody strays. *)
LEMMA Invariance == Spec => [](~strayed => PatchInv)
<1>1. (~strayed => PatchInv) /\ [Next]_vars => (~strayed => PatchInv)'
  BY Inductive, StrayedStays
<1> QED
  BY Initial, <1>1, PTL DEF Spec

(* For any attributes, wrappers and callers, and as long as uninstall()    *)
(* runs alone on a core that nobody has wrapped: a call that the core      *)
(* hands on always finds the saved original: "otherwise call the saved     *)
(* pure-Python originals" (_patch.py, module docstring).                   *)
THEOREM FallbackFindsOriginal == Spec => []OriginalsAreFound
<1>1. (~strayed => PatchInv) => OriginalsAreFound
  BY DEF PatchInv, CallInv, OriginalsAreFound
<1> QED
  BY <1>1, Invariance, PTL

(* In the same use no call enters the core twice, however often install(), *)
(* uninstall() and foreign wrappers come and go.                           *)
THEOREM NoDoublePatch == Spec => []CoreEnteredOnce
<1>1. (~strayed => PatchInv) => CoreEnteredOnce
  BY DEF PatchInv, CallInv, CoreEnteredOnce
<1> QED
  BY <1>1, Invariance, PTL

(* In the same use uninstall() leaves no attribute that leads to the core. *)
THEOREM UninstallRestoresStock == Spec => []UninstalledIsStock
<1>1. (~strayed => PatchInv) => UninstalledIsStock
  <2> SUFFICES ASSUME PatchInv, admin = Idle, ~IsInstalled
               PROVE  \A n \in Names : Uncored(slots[n])
    BY DEF UninstalledIsStock, Uncored
  <2>1. ~IsSaved(Attrs[1]) /\ Attrs[1] \in Names
    BY Positions DEF IsInstalled, IsSaved
  <2> QED
    BY <2>1 DEF PatchInv, AdminInv, Idle
<1> QED
  BY <1>1, Invariance, PTL

-----------------------------------------------------------------------------
(* Whatever others do. *)

(* Every step of install() and uninstall() keeps PhaseInv. *)
LEMMA PhaseStep ==
  ASSUME TypeOK, PhaseInv, InstallStart \/ UninstallStart \/ Admin
  PROVE  PhaseInv'
<1>0. /\ attr \in Names /\ attr = Attrs[admin.at]
      /\ admin.at \in 1..Len(Attrs) /\ Len(Attrs) \in Nat /\ Len(Attrs) >= 1
      /\ \A j \in 1..Len(Attrs) : Attrs[j] \in Names /\ (j # admin.at => Attrs[j] # attr)
  BY Positions DEF TypeOK, attr
<1>1. CASE InstallStart
  <2>1. \A n \in Names : ~IsSaved(n)
    BY <1>1, Positions DEF InstallStart, IsInstalled, PhaseInv, Idle, IsSaved
  <2>2. \A n \in Names : ~IsSaved(n)'
    BY <1>1, <2>1 DEF InstallStart, IsSaved
  <2>3. admin'.step = "save" /\ admin'.at = 1
    BY <1>1 DEF InstallStart
  <2> QED
    BY <1>0, <2>2, <2>3 DEF PhaseInv
<1>2. CASE UninstallStart
  <2>1. \A n \in Names : IsSaved(n)
    BY <1>2, Positions DEF UninstallStart, IsInstalled, PhaseInv, Idle, IsSaved
  <2>2. \A n \in Names : IsSaved(n)'
    BY <1>2, <2>1 DEF UninstallStart, IsSaved
  <2>3. admin'.step = "restore" /\ admin'.at = 1
    BY <1>2 DEF UninstallStart
  <2> QED
    BY <2>2, <2>3 DEF PhaseInv
<1>3. CASE InstallSave
  <2>1. admin.step = "save" /\ UNCHANGED slots /\ saved' = [saved EXCEPT ![attr] = slots[attr]]
    BY <1>3 DEF InstallSave
  <2>2. /\ saved'[attr] = slots[attr] /\ slots[attr] # NoOriginal
        /\ \A n \in Names : n # attr => saved'[n] = saved[n]
    BY <1>0, <2>1, SlotIsNotNoOriginal DEF TypeOK
  <2>3. \A j \in 1..Len(Attrs) :
          IF j <= admin.at THEN IsSaved(Attrs[j])' /\ saved'[Attrs[j]] = slots'[Attrs[j]]
          ELSE ~IsSaved(Attrs[j])'
    <3> SUFFICES ASSUME NEW j \in 1..Len(Attrs)
                 PROVE  IF j <= admin.at
                        THEN IsSaved(Attrs[j])' /\ saved'[Attrs[j]] = slots'[Attrs[j]]
                        ELSE ~IsSaved(Attrs[j])'
      OBVIOUS
    <3>1. CASE j = admin.at
      BY <1>0, <2>1, <2>2, <3>1 DEF IsSaved
    <3>2. CASE j # admin.at
      <4>1. saved'[Attrs[j]] = saved[Attrs[j]] /\ slots' = slots
        BY <1>0, <2>1, <2>2, <3>2
      <4>2. IF j < admin.at THEN IsSaved(Attrs[j]) /\ saved[Attrs[j]] = slots[Attrs[j]]
            ELSE ~IsSaved(Attrs[j])
        BY <1>0, <2>1 DEF PhaseInv
      <4> QED
        BY <1>0, <3>2, <4>1, <4>2 DEF IsSaved
    <3> QED
      BY <3>1, <3>2
  <2>4. CASE /\ admin.at < Len(Attrs) /\ admin'.step = admin.step
             /\ admin'.at = admin.at + 1
    <3>1. \A j \in 1..Len(Attrs) : j < admin'.at <=> j <= admin.at
      BY <1>0, <2>4
    <3>2. \A j \in 1..Len(Attrs) : j >= admin'.at <=> ~(j <= admin.at)
      BY <1>0, <2>4
    <3> QED
      BY <2>1, <2>3, <2>4, <3>1, <3>2 DEF PhaseInv
  <2>5. CASE admin.at = Len(Attrs) /\ admin'.step = "patch" /\ admin'.at = 1
    <3>1. \A j \in 1..Len(Attrs) : IsSaved(Attrs[j])' /\ saved'[Attrs[j]] = slots'[Attrs[j]]
      BY <1>0, <2>3, <2>5
    <3>2. \A n \in Names : IsSaved(n)'
      BY <3>1, Positions
    <3> QED
      BY <2>5, <3>1, <3>2 DEF PhaseInv
  <2> QED
    BY <1>3, <2>4, <2>5, AdvanceCases DEF InstallSave, AdminSteps
<1>4. CASE InstallPatch
  <2>1. /\ admin.step = "patch" /\ UNCHANGED saved
        /\ slots' = [slots EXCEPT ![attr] = <<"core">>]
    BY <1>4 DEF InstallPatch
  <2>2. \A n \in Names : IsSaved(n)' /\ (n # attr => slots'[n] = slots[n])
    BY <2>1 DEF PhaseInv, IsSaved, TypeOK
  <2>3. CASE /\ admin.at < Len(Attrs) /\ admin'.step = admin.step
             /\ admin'.at = admin.at + 1
    <3>1. \A j \in 1..Len(Attrs) :
            j >= admin'.at => j >= admin.at /\ j # admin.at
      BY <1>0, <2>3
    <3>2. \A j \in 1..Len(Attrs) : j >= admin'.at => slots'[Attrs[j]] = saved'[Attrs[j]]
      BY <1>0, <2>1, <2>2, <3>1 DEF PhaseInv
    <3> QED
      BY <2>1, <2>2, <2>3, <3>2 DEF PhaseInv
  <2>4. CASE admin.at = Len(Attrs) /\ admin'.step = "idle" /\ admin' = Idle
    BY <2>2, <2>4 DEF PhaseInv
  <2> QED
    BY <1>4, <2>3, <2>4, AdvanceCases DEF InstallPatch, AdminSteps
<1>5. CASE UninstallRestore
  <2>1. /\ admin.step = "restore" /\ UNCHANGED saved
        /\ slots' = IF slots[attr] = <<"core">>
                    THEN [slots EXCEPT ![attr] = saved[attr]] ELSE slots
    BY <1>5 DEF UninstallRestore
  <2>2. /\ slots'[attr] = <<"core">> => saved'[attr] = <<"core">>
        /\ \A n \in Names : n # attr => slots'[n] = slots[n]
    BY <1>0, <2>1 DEF TypeOK
  <2>3. \A j \in 1..Len(Attrs) :
          j <= admin.at /\ BareCore(Attrs[j])' => saved'[Attrs[j]] = <<"core">>
    <3> SUFFICES ASSUME NEW j \in 1..Len(Attrs), j <= admin.at, BareCore(Attrs[j])'
                 PROVE  saved'[Attrs[j]] = <<"core">>
      OBVIOUS
    <3>1. CASE j = admin.at
      BY <1>0, <2>2, <3>1 DEF BareCore
    <3>2. CASE j # admin.at
      <4>1. j < admin.at /\ BareCore(Attrs[j])
        BY <1>0, <2>2, <3>2 DEF BareCore
      <4> QED
        BY <2>1, <4>1 DEF PhaseInv
    <3> QED
      BY <3>1, <3>2
  <2>4. \A n \in Names : IsSaved(n)'
    BY <2>1 DEF PhaseInv, IsSaved
  <2>5. CASE /\ admin.at < Len(Attrs) /\ admin'.step = admin.step
             /\ admin'.at = admin.at + 1
    <3>1. \A j \in 1..Len(Attrs) : j < admin'.at <=> j <= admin.at
      BY <1>0, <2>5
    <3> QED
      BY <2>1, <2>3, <2>4, <2>5, <3>1 DEF PhaseInv
  <2>6. CASE admin.at = Len(Attrs) /\ admin'.step = "clear" /\ admin'.at = 1
    <3>1. \A j \in 1..Len(Attrs) : j <= admin.at /\ ~(j < admin'.at)
      BY <1>0, <2>6
    <3> QED
      BY <2>3, <2>6, <3>1 DEF PhaseInv
  <2> QED
    BY <1>5, <2>5, <2>6, AdvanceCases DEF UninstallRestore, AdminSteps
<1>6. CASE UninstallClear
  <2>1. /\ admin.step = "clear" /\ UNCHANGED slots
        /\ saved' = [saved EXCEPT ![attr] = NoOriginal]
    BY <1>6 DEF UninstallClear
  <2>2. saved'[attr] = NoOriginal /\ \A n \in Names : n # attr => saved'[n] = saved[n]
    BY <1>0, <2>1 DEF TypeOK
  <2>3. \A j \in 1..Len(Attrs) : j <= admin.at => ~IsSaved(Attrs[j])'
    <3> SUFFICES ASSUME NEW j \in 1..Len(Attrs), j <= admin.at
                 PROVE  ~IsSaved(Attrs[j])'
      OBVIOUS
    <3>1. CASE j = admin.at
      BY <1>0, <2>2, <3>1 DEF IsSaved
    <3>2. CASE j # admin.at
      <4>1. j < admin.at /\ saved'[Attrs[j]] = saved[Attrs[j]]
        BY <1>0, <2>2, <3>2
      <4> QED
        BY <2>1, <4>1 DEF PhaseInv, IsSaved
    <3> QED
      BY <3>1, <3>2
  <2>4. \A j \in 1..Len(Attrs) :
          BareCore(Attrs[j])' /\ IsSaved(Attrs[j])' => saved'[Attrs[j]] = <<"core">>
    BY <1>0, <2>1, <2>2 DEF PhaseInv, IsSaved, BareCore
  <2>5. CASE /\ admin.at < Len(Attrs) /\ admin'.step = admin.step
             /\ admin'.at = admin.at + 1
    <3>1. \A j \in 1..Len(Attrs) : j < admin'.at <=> j <= admin.at
      BY <1>0, <2>5
    <3> QED
      BY <2>1, <2>3, <2>4, <2>5, <3>1 DEF PhaseInv
  <2>6. CASE admin.at = Len(Attrs) /\ admin'.step = "idle" /\ admin' = Idle
    <3>1. \A n \in Names : ~IsSaved(n)'
      BY <1>0, <2>3, <2>6, Positions
    <3> QED
      BY <2>6, <3>1 DEF PhaseInv
  <2> QED
    BY <1>6, <2>5, <2>6, AdvanceCases DEF UninstallClear, AdminSteps
<1> QED
  BY <1>1, <1>2, <1>3, <1>4, <1>5, <1>6 DEF Admin

(* Wrapping and calling change nothing that PhaseInv is about. *)
LEMMA OthersKeepPhase ==
  ASSUME PhaseInv, UNCHANGED <<saved, admin>>, admin = Idle \/ UNCHANGED slots
  PROVE  PhaseInv'
<1>1. \A n \in Names : IsSaved(n)' <=> IsSaved(n)
  BY DEF IsSaved
<1>2. CASE admin = Idle
  BY <1>1, <1>2 DEF PhaseInv, Idle
<1>3. CASE UNCHANGED slots
  BY <1>3, Positions DEF PhaseInv, IsSaved, BareCore
<1> QED
  BY <1>2, <1>3

(* TypeOK and PhaseInv are invariants of every use. *)
LEMMA PhaseInvariance == Spec => [](TypeOK /\ PhaseInv)
<1>1. Init => TypeOK /\ PhaseInv
  <2> SUFFICES ASSUME Init PROVE TypeOK /\ PhaseInv
    OBVIOUS
  <2>1. TypeOK
    BY Initial DEF PatchInv
  <2>2. admin = Idle /\ \A n \in Names : ~IsSaved(n)
    BY DEF Init, IsSaved
  <2> QED
    BY <2>1, <2>2 DEF PhaseInv, Idle
<1>2. TypeOK /\ PhaseInv /\ [Next]_vars => (TypeOK /\ PhaseInv)'
  <2> SUFFICES ASSUME TypeOK, PhaseInv, [Next]_vars PROVE PhaseInv'
    BY TypeStep DEF PhaseInv
  <2>1. CASE InstallStart \/ UninstallStart \/ Admin
    BY <2>1, PhaseStep
  <2>2. ASSUME NEW w \in Wrappers, NEW n \in Names, Wrap(w, n) \/ Unwrap(w, n)
        PROVE  PhaseInv'
    BY <2>2, OthersKeepPhase DEF Wrap, Unwrap
  <2>3. ASSUME NEW t \in Tasks, Proceed(t) PROVE PhaseInv'
    BY <2>3, OthersKeepPhase DEF Proceed, PassWrapper, ReachStock, EnterCore, CallOriginal
  <2>4. ASSUME NEW t \in Tasks, NEW n \in Names, Call(t, n) PROVE PhaseInv'
    BY <2>4, OthersKeepPhase DEF Call
  <2>5. CASE UNCHANGED vars
    BY <2>5, OthersKeepPhase DEF vars
  <2> QED
    BY <2>1, <2>2, <2>3, <2>4, <2>5 DEF Next
<1> QED
  BY <1>1, <1>2, PTL DEF Spec

(* Whoever calls and wraps: the attributes, the saved originals, the step  *)
(* of install() or uninstall() and every call are what their types say.    *)
THEOREM TypeCorrect == Spec => []TypeOK
<1>1. TypeOK /\ PhaseInv => TypeOK
  OBVIOUS
<1> QED
  BY <1>1, PhaseInvariance, PTL

(* Whoever calls meanwhile, and whoever has wrapped the core: install()    *)
(* and uninstall() keep every foreign wrapper that an attribute holds or   *)
(* that lies beneath a core that nobody wrapped.  install() only replaces  *)
(* what it has just saved, uninstall() only what is the core's own (R7 in  *)
(* uninstall()).                                                           *)
THEOREM ForeignPatchesSurvive == Spec => NoForeignPatchClobbered
<1> DEFINE Kept == Admin => \A n \in Names : Owed(n) \subseteq Foreign(n)'
<1>1. TypeOK /\ PhaseInv /\ [Next]_vars => [Kept]_vars
  <2> SUFFICES ASSUME TypeOK, PhaseInv, Admin, NEW n \in Names
               PROVE  Owed(n) \subseteq Foreign(n)'
    BY DEF Kept
  <2>0. /\ attr \in Names /\ attr = Attrs[admin.at] /\ admin.at \in 1..Len(Attrs)
        /\ \A m \in Names : \E j \in 1..Len(Attrs) : m = Attrs[j]
    BY Positions DEF TypeOK, attr
  <2>1. CASE InstallSave
    <3>1. UNCHANGED slots /\ saved' = [saved EXCEPT ![attr] = slots[attr]]
      BY <2>1 DEF InstallSave
    <3>2. CASE n = attr
      <4>1. ~IsSaved(n)
        BY <2>0, <2>1, <3>2 DEF InstallSave, PhaseInv
      <4>2. Owed(n) = Wrappers \cap Range(slots[n])
        BY <4>1 DEF Owed, Beneath, IsSaved
      <4> QED
        BY <3>1, <4>2 DEF Foreign
    <3>3. CASE n # attr
      <4>1. saved'[n] = saved[n] /\ slots'[n] = slots[n]
        BY <3>1, <3>3 DEF TypeOK
      <4> QED
        BY <4>1 DEF Owed, Foreign, Beneath
    <3> QED
      BY <3>2, <3>3
  <2>2. CASE InstallPatch
    <3>1. UNCHANGED saved /\ slots' = [slots EXCEPT ![attr] = <<"core">>] /\ IsSaved(n)
      BY <2>2 DEF InstallPatch, PhaseInv
    <3>2. CASE n = attr
      <4>1. slots[n] = saved[n]
        BY <2>0, <2>2, <3>2 DEF InstallPatch, PhaseInv, TypeOK
      <4> QED
        BY <3>1, <4>1 DEF Owed, Foreign, Beneath, IsSaved
    <3>3. CASE n # attr
      <4>1. slots'[n] = slots[n]
        BY <3>1, <3>3 DEF TypeOK
      <4> QED
        BY <3>1, <4>1 DEF Owed, Foreign, Beneath
    <3> QED
      BY <3>2, <3>3
  <2>3. CASE UninstallRestore
    <3>1. UNCHANGED saved /\ IsSaved(n)
      BY <2>3 DEF UninstallRestore, PhaseInv
    <3>2. CASE slots'[n] = slots[n]
      BY <3>1, <3>2 DEF Owed, Foreign, Beneath
    <3>3. CASE slots'[n] # slots[n]
      <4>1. slots[n] = <<"core">> /\ slots'[n] = saved[n]
        BY <2>0, <2>3, <3>3 DEF UninstallRestore, TypeOK
      <4>2. Wrappers \cap Range(slots[n]) = {}
        BY <4>1, Singletons, LayersAssumption
      <4> QED
        BY <3>1, <4>1, <4>2 DEF Owed, Foreign, Beneath, IsSaved
    <3> QED
      BY <3>2, <3>3
  <2>4. CASE UninstallClear
    <3>1. UNCHANGED slots
      BY <2>4 DEF UninstallClear
    <3>2. Owed(n) = Wrappers \cap Range(slots[n])
      <4>1. PICK j \in 1..Len(Attrs) : n = Attrs[j]
        BY <2>0
      <4>2. BareCore(n) /\ IsSaved(n) => saved[n] = <<"core">>
        BY <2>4, <4>1 DEF UninstallClear, PhaseInv
      <4> QED
        BY <4>2, Singletons, LayersAssumption DEF Owed, Beneath, BareCore, IsSaved
    <3> QED
      BY <3>1, <3>2 DEF Foreign
  <2> QED
    BY <2>1, <2>2, <2>3, <2>4 DEF Admin
<1>2. Spec => [][Kept]_vars
  BY <1>1, PhaseInvariance, PTL DEF Spec
<1> QED
  BY <1>2 DEF NoForeignPatchClobbered
=============================================================================
