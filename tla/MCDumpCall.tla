----------------------------- MODULE MCDumpCall -----------------------------
(* DumpCall on calls of at most three records. *)
EXTENDS DumpCall

Single == {<<r>> : r \in Records}

Batches ==
  {<<>>, <<"plain", "unwritable", "unencodable">>, <<"plain", "misfit", "plain">>,
   <<"misfit", "plain", "bad">>, <<"unwritable", "misfit", "misfit_bad">>,
   <<"unencodable", "misfit_bad", "bad">>, <<"bad", "misfit">>} \cup Single

CallsOf(overrides, batches) ==
  {c \in [entry: {"dump", "dumps"}, many: BOOLEAN, source: Sources, default: BOOLEAN,
          compiled: BOOLEAN, override: overrides, pre: Verdicts, returns: Sources,
          post: Verdicts, items: batches] : WellFormed(c)}

OverrideCalls == {c \in CallsOf({TRUE}, Single) : c.source \in Listable}

(* What is passed for many records is not a list of them. *)
UnlistedCalls ==
  {c \in CallsOf({FALSE}, {<<"plain">>}) : c.many /\ c.source \in {"None", "opaque"}}

(* A dump that is overridden, where the fused writer is not asked.         *)
AllCalls ==
  {c \in CallsOf({FALSE}, Batches) : ListsLikeStock(c)}
  \cup {c \in CallsOf({TRUE}, Single) :
          ListsLikeStock(c) /\ (c.entry = "dump" \/ ~c.default)}
=============================================================================
