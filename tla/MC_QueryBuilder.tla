-------------------------- MODULE MC_QueryBuilder --------------------------
(* Two builders, both dialects, a table without and with a strict policy. *)
EXTENDS QueryBuilder

MCSettings == {<<"mysql", "plain">>, <<"postgres", "strict">>}

MCSoft == {<<"postgres", "soft">>}
=============================================================================
