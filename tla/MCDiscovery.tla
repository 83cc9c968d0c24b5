---------------------------- MODULE MCDiscovery ----------------------------
(* A robot with two variables, an event and a function. *)
EXTENDS Discovery

MCKind == <<"variable", "variable", "event", "function">>
=============================================================================
