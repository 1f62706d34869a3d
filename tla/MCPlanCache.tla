---------------------------- MODULE MCPlanCache ----------------------------
(* PlanCache on a schema and the one nested in it. *)
EXTENDS PlanCache, TLC

MCInner == "outer" :> {"inner"} @@ "inner" :> {}

(* first compiles, second too but has a callback field, custom does not.   *)
MCConfigs == {"first", "second", "custom"}

MCUnknownOf == [f \in MCConfigs |-> IF f = "second" THEN "exclude" ELSE "raise"]

(* A nested schema without hooks, and one with hooks of both kinds.        *)
MCHooks == {[load |-> {}, dump |-> {}], [load |-> {"inner"}, dump |-> {"inner"}]}
=============================================================================
