------------------------------- MODULE Rewrite -------------------------------
(***************************************************************************)
(* rewrite.rs: the rules that change the path of a request or redirect it. *)
(* A regular expression is the set of texts it matches, or None if it does *)
(* not compile; the text it is replaced by is left out.                    *)
(***************************************************************************)
EXTENDS FiniteSetsExt, Selection

CONSTANTS
    PathPattern,    \* patterns of rules: sets of paths, or None
    ValuePattern,   \* patterns of conditions: sets of values, or None
    Request,        \* paths
    Value,          \* what the known variables may hold
    MaxRules,       \* bound: rules of a host
    None

\* What the constants must be.
Parameters == MaxRules \in Nat /\ None \notin Value \cup Request

Known == {"HTTP_HOST"}              \* REQUEST_METHOD and QUERY_STRING are like it
Named == Known \cup {"REMOTE_ADDR"} \* what a condition may name
Condition == [variable : Named, pattern : ValuePattern]
Rule == [pattern : PathPattern, redirect : BOOLEAN, conditions : SUBSET Condition]

\* No context: nothing is known of the request (RewriteContext::default).
Nobody == [v \in Known |-> None]

VARIABLES
    rules,          \* the rules of the host, in order
    path, context,  \* the request that was asked last: its path and variables
    outcome         \* what became of it, and which rule decided

vars == <<rules, path, context, outcome>>

Unchanged == [kind |-> "unchanged", rule |-> 0]

Init ==
    /\ rules = <<>> /\ path = None /\ context = Nobody /\ outcome = Unchanged

\* resolve_variable: an unknown one is None, as is one the request lacks.
Resolved(ctx, v) == IF v \in Known THEN ctx[v] ELSE None

\* Mutant: a condition that cannot be evaluated is passed over.
Lenient(conditions, ctx) ==
    \A c \in conditions :
      \/ Resolved(ctx, c.variable) = None \/ c.pattern = None
      \/ Resolved(ctx, c.variable) \in c.pattern

\* conditions_match: all of them; one that cannot be evaluated does not match.
ConditionsMatch(conditions, ctx) ==
    \A c \in conditions :
      /\ Resolved(ctx, c.variable) # None
      /\ c.pattern # None /\ Resolved(ctx, c.variable) \in c.pattern

Fires(rule, p, ctx) ==
    /\ ConditionsMatch(rule.conditions, ctx)
    /\ rule.pattern # None /\ p \in rule.pattern

\* Mutant: a pattern that does not compile ends the search.
StoppedByBad(list, p, ctx) ==
    LET hits == {i \in DOMAIN list : Fires(list[i], p, ctx)}
        bad == {i \in DOMAIN list : list[i].pattern = None}
    IN  IF hits = {} \/ \E i \in bad : i < Min(hits) THEN Unchanged
        ELSE [kind |-> IF list[Min(hits)].redirect THEN "redirect" ELSE "rewritten",
              rule |-> Min(hits)]

\* apply_with_context: the first rule that fires decides.
Applied(list, p, ctx) ==
    LET hits == {i \in DOMAIN list : Fires(list[i], p, ctx)}
    IN  IF hits = {} THEN Unchanged
        ELSE [kind |-> IF list[Min(hits)].redirect THEN "redirect" ELSE "rewritten",
              rule |-> Min(hits)]

\* The host is set up with another rule.
AddRule ==
    /\ Len(rules) < MaxRules
    /\ \E r \in Rule : rules' = Append(rules, r)
    /\ path' = None /\ context' = Nobody /\ outcome' = Unchanged

\* A request; apply is apply_with_context with nothing known.
Ask ==
    /\ path' \in Request
    /\ context' \in [Known -> Value \cup {None}]
    /\ outcome' = Applied(rules, path', context')
    /\ UNCHANGED rules

Next == AddRule \/ Ask

-----------------------------------------------------------------------------
TypeOK ==
    /\ rules \in Seq(Rule) /\ Len(rules) <= MaxRules
    /\ path \in Request \cup {None} /\ context \in [Known -> Value \cup {None}]
    /\ outcome.kind \in {"unchanged", "rewritten", "redirect"}
    /\ outcome.rule \in 0..Len(rules)

\* A rule that asks for what is not known of the request, or with a pattern that
\* does not compile, never decides: a mistake in a condition closes, it does not
\* open.
FailsClosed ==
    outcome.rule # 0 =>
      \A c \in rules[outcome.rule].conditions :
        c.variable \in Known /\ context[c.variable] # None /\ c.pattern # None

\* A rule whose pattern does not compile is as good as absent: the host answers
\* as it would without it.
OthersUnharmed ==
    LET sound == Selected(rules, {i \in DOMAIN rules : rules[i].pattern # None})
    IN  path # None => outcome.kind = Applied(sound, path, context).kind
=============================================================================
