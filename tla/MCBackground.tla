---------------------------- MODULE MCBackground ----------------------------
(* Background.tla on small sets of model values.                           *)
EXTENDS Background

\* Two sources share a file name.
MCNameOf == [f \in {"f", "g", "h"} |-> IF f = "f" THEN "x" ELSE "y"]

MCSite == {[name |-> "www", text |-> "site"]}

\* Two channels over a root with a directory that may hold a file; only the
\* first gives handles out.
MCPath == {<<"f">>, <<"g">>, <<"g", "f">>}
MCMaxOpens == [c \in {"x", "y"} |-> IF c = "x" THEN 2 ELSE 0]

\* Rules that match one path or both, conditions on a host; None: not compiled.
MCPathPattern == {{"a"}, {"a", "b"}, None}
MCValuePattern == {{"h"}, None}
=============================================================================
