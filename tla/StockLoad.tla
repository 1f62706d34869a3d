----------------------------- MODULE StockLoad -----------------------------
(***************************************************************************)
(* What one Schema.load promises, seen from outside: one call, one         *)
(* outcome, the one stock has on the data the caller passed; an interrupt  *)
(* that arrives is the outcome.                                            *)
(***************************************************************************)
EXTENDS LoadCall

VARIABLES call, outcome, interrupted

Init == WellFormed(call) /\ outcome = Pending /\ interrupted = FALSE

Reply ==
  /\ outcome = Pending
  /\ outcome' = StockOutcome(call, "fresh")
  /\ UNCHANGED <<call, interrupted>>

Interrupt ==
  /\ outcome = Pending
  /\ outcome' = Interrupted
  /\ interrupted' = TRUE
  /\ UNCHANGED call

Next == Reply \/ Interrupt

(* Nothing but these steps, and one of them in the end. *)
Safety == Init /\ [][Next]_<<call, outcome, interrupted>>

Returns == WF_<<call, outcome, interrupted>>(Next)

Spec == Safety /\ Returns
=============================================================================
