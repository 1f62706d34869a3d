---------------------------- MODULE MCJsonRecord ----------------------------
(* JsonRecord on objects of at most three members, with repeated keys. *)
EXTENDS JsonRecord, MCFields

Few ==
  {Nth("int", <<"a">>), Nth("str", <<"a">>), Nth("nest", <<"b">>), Nth("nest", <<"d">>),
   Nth("checked", <<"n", "x">>), Nth("checked", <<"n", "y">>), Nth("str", <<"n">>),
   Fld(TRUE, "str", "y", "b", <<"n", "z">>, "word", FALSE, FALSE)}

MCSchemas == {s \in [1..2 -> Few] : s[1] # s[2]}

(* Repeated known keys and an unknown key between them. *)
Members ==
  { [key |-> "a", value |-> "one"], [key |-> "a", value |-> "word"],
    [key |-> "a", value |-> "boom"], [key |-> "a", value |-> "None"],
    [key |-> "b", value |-> "rec"], [key |-> "b", value |-> "boom"],
    [key |-> "n", value |-> "one"],
    [key |-> "n", value |-> "word"] }

Fewer == {m \in Members : m.value \in {"one", "word", "rec"}}

MCObjects == UNION {[1..n -> Members] : n \in 0..2} \cup [1..3 -> Fewer]
=============================================================================
