---------------------------- MODULE MCLoadRecord ----------------------------
(* LoadRecord on ten kinds of field and records of at most three keys. *)
EXTENDS LoadRecord, MCFields, TLC

MCSchemas == {s \in [1..2 -> Pool] : s[1] # s[2]} \cup Longer

MCInputs ==
  LET vals == {"None", "one", "digits", "word", "sub", "rec", "boom"}
      ab == UNION {[D -> vals] : D \in SUBSET {"a", "b"}}
  IN  ab \cup {d @@ [z \in {"z"} |-> "word"] : d \in ab}
=============================================================================
