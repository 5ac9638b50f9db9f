--------------------------- MODULE MCRequestPath ---------------------------
(***************************************************************************)
(* RequestPath for TLC: two workers, two paths and three prefixes, two     *)
(* clients, two document roots and three backups.                          *)
(***************************************************************************)
EXTENDS RequestPath, TLC

MCPath == {<<"/">>, <<"/", "a", "b">>}

MCPrefix == {<<"/">>, <<"/", "a">>, <<"/", "a", "b">>}

MCLoaded == {{}, {<<"/", "a">>}, {None}}

Tasks == Permutations(Worker)
=============================================================================
