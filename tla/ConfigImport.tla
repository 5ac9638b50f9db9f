---------------------------- MODULE ConfigImport -----------------------------
(***************************************************************************)
(* config_import.rs: a virtual host read from the text of an Apache or an  *)
(* Nginx configuration, line by line. A line is its directive and what it  *)
(* says; lines that are not understood are passed over.                    *)
(***************************************************************************)
EXTENDS Integers, Sequences

CONSTANTS
    Text,           \* what a directive may say
    Cond,           \* conditions that can be read
    MaxLines,       \* bound: lines of a file
    None

\* What the constants must be.
Parameters == MaxLines \in Nat /\ None \notin Text \cup Cond

\* Directives with one value, by the names of the fields.
Field == {"host", "docroot", "fastcgi", "tls_cert", "tls_key"}

VARIABLES
    dialect,        \* "apache" or "nginx"
    acc,            \* ParseAccumulator
    pending,        \* pending_conditions; in Nginx the condition of the block
    skipping,       \* Nginx: between an if that was read and the next line with }
    named,          \* pending_auth_name, pending_auth_realm
    lines,          \* lines read
    result,         \* None, "error" or the host that was read
    stood,          \* history: the readable conditions the text sets for a rule
    oneLine         \* history: was there an if with its block on one line?

vars == <<dialect, acc, pending, skipping, named, lines, result, stood, oneLine>>

Init ==
    /\ dialect \in {"apache", "nginx"}
    /\ acc = [one |-> [f \in Field |-> None], rules |-> <<>>, auth |-> None,
              digest |-> FALSE, allow |-> {}, deny |-> {}]
    /\ pending = {} /\ skipping = FALSE /\ named = None
    /\ lines = 0 /\ result = None /\ stood = {} /\ oneLine = FALSE

Reads(d) == dialect = d /\ result = None /\ lines < MaxLines /\ lines' = lines + 1
Apache == Reads("apache") /\ UNCHANGED <<dialect, skipping, result, oneLine>>
Nginx == Reads("nginx") /\ UNCHANGED <<dialect, result>>
Outside == ~skipping /\ UNCHANGED <<pending, skipping, stood, oneLine>>

\* The first host and root stay, and the first FastCGI address of Nginx; of the
\* others the last.
Kept(f, x) ==
    IF acc.one[f] # None /\ f \in {"host", "docroot"} \cup
         (IF dialect = "nginx" THEN {"fastcgi"} ELSE {})
    THEN acc.one[f] ELSE x

Directive ==
    /\ \/ Apache /\ UNCHANGED <<pending, stood>>
       \/ Nginx /\ Outside
    /\ \/ \E f \in Field, x \in Text : acc' = [acc EXCEPT !.one[f] = Kept(f, x)]
       \/ \E x \in Text : acc' = [acc EXCEPT !.allow = @ \cup {x}]
       \/ \E x \in Text : acc' = [acc EXCEPT !.deny = @ \cup {x}]
    /\ UNCHANGED named

\* AuthType, of Apache alone; a name or realm; and the file, unless for Digest.
Authentication ==
    /\ \/ Apache /\ UNCHANGED <<pending, stood>>
       \/ Nginx /\ Outside
    /\ \/ /\ dialect = "apache" /\ \E digest \in BOOLEAN : acc' = [acc EXCEPT !.digest = digest]
          /\ UNCHANGED named
       \/ named' \in Text /\ UNCHANGED acc
       \/ /\ \E x \in Text : acc' = IF acc.digest THEN acc
                                    ELSE [acc EXCEPT !.auth = [realm |-> named, user_file |-> x]]
          /\ UNCHANGED named

WithRule(conditions) ==
    acc' = [acc EXCEPT !.rules = Append(@, [conditions |-> conditions, stood |-> stood])]

\* RewriteCond: kept until a rule comes. One that cannot be read is passed over.
RewriteCond ==
    /\ Apache
    /\ \E c \in Cond : pending' = pending \cup {c} /\ stood' = stood \cup {c}
    /\ UNCHANGED <<acc, named>>

\* Mutant: a rule that cannot be read leaves its conditions to the next one.
RewriteRuleLeaves ==
    /\ Apache
    /\ \/ WithRule(pending) /\ pending' = {}
       \/ UNCHANGED <<acc, pending>>
    /\ stood' = {} /\ UNCHANGED named

\* RewriteRule: takes the conditions; one that cannot be read drops them.
RewriteRule ==
    /\ Apache
    /\ \/ WithRule(pending)
       \/ UNCHANGED acc
    /\ pending' = {} /\ stood' = {} /\ UNCHANGED named

\* if (...) {: what follows is skipped up to a line with }, but for the first
\* return or rewrite. If its condition cannot be read the block is not skipped.
If ==
    /\ Nginx /\ ~skipping
    /\ \/ \E c \in Cond : stood' = {c} /\ pending' = {c} /\ skipping' = TRUE
       \/ stood' = {} /\ UNCHANGED <<pending, skipping>>
    /\ UNCHANGED <<acc, named, oneLine>>

\* if (...) { return ...; } on one line: the lines after it are taken for the block.
IfOnOneLine ==
    /\ Nginx /\ ~skipping /\ oneLine' = TRUE
    /\ \E c \in Cond : pending' = {c}
    /\ skipping' = TRUE
    /\ UNCHANGED <<acc, named, stood>>

\* return or rewrite: counts only in a block, and once.
Return ==
    /\ Nginx
    /\ IF skipping /\ pending # {}
       THEN WithRule(pending) /\ pending' = {}
       ELSE UNCHANGED <<acc, pending>>
    /\ UNCHANGED <<skipping, named, stood, oneLine>>

\* Any other line in a block that is skipped, an if too.
Skipped ==
    /\ Nginx /\ skipping
    /\ UNCHANGED <<acc, pending, skipping, named, stood, oneLine>>

Closing ==
    /\ Nginx
    /\ skipping' = FALSE /\ pending' = {} /\ stood' = {}
    /\ UNCHANGED <<acc, named, oneLine>>

\* build_config: nothing without a host and a root; a key only with a certificate.
Build ==
    /\ result = None
    /\ result' = IF acc.one["host"] = None \/ acc.one["docroot"] = None
                 THEN [ok |-> FALSE, rules |-> <<>>, tls |-> None]
                 ELSE [ok |-> TRUE, rules |-> acc.rules,
                       tls |-> IF acc.one["tls_cert"] = None THEN None
                               ELSE <<acc.one["tls_cert"], acc.one["tls_key"]>>]
    /\ UNCHANGED <<dialect, acc, pending, skipping, named, lines, stood, oneLine>>

Next ==
    \/ Directive \/ Authentication \/ RewriteCond \/ RewriteRule
    \/ If \/ IfOnOneLine \/ Return \/ Skipped \/ Closing \/ Build

-----------------------------------------------------------------------------
TypeOK ==
    /\ dialect \in {"apache", "nginx"} /\ acc.one \in [Field -> Text \cup {None}]
    /\ \A i \in DOMAIN acc.rules : acc.rules[i].conditions \subseteq Cond
    /\ acc.allow \subseteq Text /\ acc.deny \subseteq Text
    /\ pending \subseteq Cond /\ skipping \in BOOLEAN /\ named \in Text \cup {None}
    /\ lines \in 0..MaxLines /\ stood \subseteq Cond /\ oneLine \in BOOLEAN

\* A rule comes with the conditions the text sets for it, of those that can be
\* read: of Apache the ones since the last rule, of Nginx that of its block; but
\* not after an if that has its block on one line.
GuardedAsWritten ==
    result # None /\ ~oneLine =>
      \A i \in DOMAIN result.rules : result.rules[i].conditions = result.rules[i].stood
=============================================================================
