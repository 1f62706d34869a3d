------------------------------ MODULE MCFields ------------------------------
(* The fields on which the two per-field loops are checked: conversions,   *)
(* validators, schemas and partial arguments.                              *)

MCKeys ==
  {"a", "b", "c", "d", "e", "f", "g", "h", "k", "l", "m", "n", "x", "y", "z"}

(* "one" an int, "digits" a numeric str, "word" a str, "sub" a value only   *)
(* the Python field converts, "rec" a nested dict without its required key  *)
(* k, "obj" the loaded nested record, "boom" a value on which user code     *)
(* raises KeyboardInterrupt.                                                *)
MCValues == {"one", "digits", "word", "sub", "rec", "obj", "boom"}

MCElements == {"int", "str", "checked", "nest"}

(* The nested schema tolerates a missing k: by the partial it is handed, or *)
(* handed nothing by a partial of its own, which is True.                  *)
NestOK(f, p) == \/ p.kind = "all"
                \/ p.kind = "coll" /\ <<"k">> \in p.names
                \/ p.kind = "none" /\ f.own

MCStock(f, v, p) ==
  CASE f.el = "int" /\ v \in {"one", "digits"}    -> "one"
    [] f.el = "str" /\ v \in {"word", "digits"}   -> v
    [] f.el = "str" /\ v = "sub"                  -> "word"
    [] f.el = "checked" /\ v \in {"one", "word"}  -> v
    [] f.el = "nest" /\ v = "rec" /\ NestOK(f, p) -> "obj"
    [] f.el \in {"checked", "nest"} /\ v = "boom" -> "Interrupt"
    [] OTHER                                      -> "Fail"

(* The elements are narrower than the fields: a str subclass is deferred. *)
MCApply(f, v, p) ==
  CASE f.el = "checked"            -> v
    [] f.el = "str" /\ v = "sub"   -> "Fail"
    [] OTHER                       -> MCStock(f, v, p)

(* A compiled validator may reject what stock accepts ("word"). *)
MCCheck(f, r) ==
  CASE f.el = "checked" /\ r = "boom"               -> "interrupt"
    [] f.el = "checked" /\ r \notin {"one", "boom"} -> "fail"
    [] OTHER                                        -> "pass"

Fld(native, el, attr, key, path, default, required, allowNone) ==
  [attr |-> attr, dataKey |-> key, path |-> path, default |-> default,
   required |-> required, allowNone |-> allowNone, native |-> native,
   consumes |-> el = "nest", own |-> el = "nest" /\ ~native, el |-> el]

(* Fields that share data keys and output paths, dotted paths above and    *)
(* below one another, and a path that an unknown key replaces; nested      *)
(* schemas under a data key that is the field's name and one that is not.  *)
Pool ==
  { Fld(TRUE, "int", "a", "a", <<"a">>, "Missing", TRUE, FALSE),
    Fld(TRUE, "str", "c", "b", <<"a">>, "word", FALSE, FALSE),
    Fld(TRUE, "nest", "b", "b", <<"b">>, "Missing", FALSE, TRUE),
    Fld(TRUE, "nest", "d", "b", <<"d">>, "Missing", FALSE, TRUE),
    Fld(TRUE, "checked", "e", "a", <<"n", "x">>, "Missing", FALSE, TRUE),
    Fld(TRUE, "str", "f", "c", <<"n">>, "None", FALSE, FALSE),
    Fld(FALSE, "checked", "g", "a", <<"n", "y">>, "None", FALSE, FALSE),
    Fld(TRUE, "str", "h", "b", <<"z", "k">>, "Missing", FALSE, FALSE),
    Fld(FALSE, "nest", "l", "b", <<"n", "x">>, "Missing", FALSE, TRUE),
    Fld(FALSE, "str", "m", "c", <<"z">>, "word", TRUE, FALSE) }

Nth(el, path) == CHOOSE f \in Pool : f.el = el /\ f.path = path

Longer ==
  { <<>>,
    <<Nth("checked", <<"n", "x">>), Nth("checked", <<"n", "y">>), Nth("str", <<"n">>)>>,
    <<Nth("str", <<"n">>), Nth("int", <<"a">>), Nth("checked", <<"n", "y">>)>>,
    <<Nth("str", <<"a">>), Nth("nest", <<"b">>), Nth("str", <<"z", "k">>)>> }

(* None, False, [], True and collections: a name that exempts a field, and *)
(* the name k of the nested schema below the name of a field, below its    *)
(* data key and below both.                                                *)
MCPartialArgs ==
  [kind : {"none", "false", "all"}, names : {{}}] \cup
  [kind : {"coll"}, names : {{}, {<<"a">>}, {<<"b">>, <<"b", "k">>},
                             {<<"d", "k">>, <<"b", "k">>}, {<<"l", "k">>}, {<<"k">>}}]
=============================================================================
