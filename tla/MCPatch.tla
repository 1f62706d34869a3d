------------------------------ MODULE MCPatch ------------------------------
(* Patch with two of the four attributes. *)
EXTENDS Patch

MCAttrs == <<"_serialize", "_do_load">>
=============================================================================
