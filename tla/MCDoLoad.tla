------------------------------ MODULE MCDoLoad ------------------------------
(* DoLoad on calls of at most two records. *)
EXTENDS DoLoad, TLC

Pre(verdict, after, view) == [verdict |-> verdict, left |-> after, view |-> view]

(* Hooks that can run again: none, a pure one, an idempotent in-place one  *)
(* (setdefault), one that spoils the records, and two that refuse.         *)
ReplayablePre ==
  { NoPreLoad,
    "fresh" :> Pre("ok", "fresh", "same") @@ "touched" :> Pre("error", "touched", "same"),
    "fresh" :> Pre("ok", "touched", "same") @@ "touched" :> Pre("ok", "touched", "same"),
    "fresh" :> Pre("ok", "fresh", "spoiled") @@ "touched" :> Pre("ok", "touched", "same"),
    "fresh" :> Pre("invalid", "touched", "same") @@ "touched" :> Pre("ok", "touched", "same"),
    "fresh" :> Pre("error", "touched", "same") @@ "touched" :> Pre("ok", "touched", "same") }

(* A hook that pops an envelope out of the caller's dict. *)
UnwrapInPlace ==
  "fresh" :> Pre("ok", "touched", "same") @@ "touched" :> Pre("error", "touched", "same")

CallsWith(hooks, batches) ==
  [refusal: Refusals, postprocess: BOOLEAN, skipOnFieldErrors: BOOLEAN,
   pre: hooks, items: batches, fields: Verdicts,
   schema: {"absent", "invalid", "error"}, post: Verdicts,
   handler: {"returns", "raises"}]

ReplayableCalls ==
  CallsWith(ReplayablePre,
            { <<>>, <<"ok">>, <<"ok", "odd">>, <<"odd", "invalid">>, <<"invalid", "error">> })

UnwrapCalls == CallsWith({UnwrapInPlace}, {<<"ok">>, <<"odd">>})
=============================================================================
