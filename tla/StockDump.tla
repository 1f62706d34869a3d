----------------------------- MODULE StockDump -----------------------------
(***************************************************************************)
(* What one Schema.dump or Schema.dumps promises, seen from outside: one   *)
(* call, one reply, the one stock marshmallow gives.                       *)
(***************************************************************************)
EXTENDS DumpRequest

VARIABLES request, reply

Init == WellFormed(request) /\ reply = Pending

Reply == reply = Pending /\ reply' = StockOutcome(request) /\ UNCHANGED request

(* Nothing but the reply, and the reply in the end. *)
Safety == Init /\ [][Reply]_<<request, reply>>

Returns == WF_<<request, reply>>(Reply)

Spec == Safety /\ Returns
=============================================================================
