---------------------------- MODULE StateReader ------------------------------
(***************************************************************************)
(* DbStateReader of state_reader.rs: reads of a value at a commit from     *)
(* open-runo, with an API key that is asked for when there is none, kept   *)
(* for all readers, and asked for again, once, when it is refused. Keys    *)
(* expire at open-runo; what is asked of it may fail; a reader may leave.  *)
(***************************************************************************)
EXTENDS Integers

CONSTANTS
    Task,           \* calls of get_at_commit
    MaxKeys,        \* bound: keys ever issued
    None

\* What the constants must be.
Parameters == MaxKeys \in Nat

VARIABLES
    cached_api_key, \* None or the key that is kept
    issued,         \* open-runo: keys issued
    live,           \* open-runo: keys it accepts
    task            \* per task: its stage, its key, the keys it asked for, its answer

vars == <<cached_api_key, issued, live, task>>

Idle == [stage |-> "idle", key |-> None, own |-> {}, answer |-> "none"]

Init ==
    /\ cached_api_key = None /\ issued = 0 /\ live = {}
    /\ task = [t \in Task |-> Idle]

Goto(t, stage) == task' = [task EXCEPT ![t].stage = stage]
End(t, answer) == task' = [task EXCEPT ![t].stage = "idle", ![t].answer = answer]

\* get_at_commit, ensure_api_key: the key that is kept, or a new one.
Begin(t) ==
    /\ task[t].stage = "idle"
    /\ task' = [task EXCEPT ![t] = [Idle EXCEPT !.key = cached_api_key,
                  !.stage = IF cached_api_key = None THEN "issue" ELSE "ask"]]
    /\ UNCHANGED <<cached_api_key, issued, live>>

\* self_issue_key: at the start, and after the key was refused. open-runo may
\* have issued a key whose answer is lost.
Issue(t) ==
    /\ task[t].stage \in {"issue", "issue again"} /\ issued < MaxKeys
    /\ issued' = issued + 1 /\ live' = live \cup {issued + 1}
    /\ \/ task' = [task EXCEPT ![t].key = issued + 1, ![t].own = @ \cup {issued + 1},
                     ![t].stage = IF @ = "issue" THEN "keep" ELSE "keep again"]
       \/ End(t, "failed")
    /\ UNCHANGED cached_api_key

IssueFails(t) ==
    /\ task[t].stage \in {"issue", "issue again"}
    /\ End(t, "failed")
    /\ UNCHANGED <<cached_api_key, issued, live>>

\* The lock was free in between: the newest key is not always the one that stays.
Keep(t) ==
    /\ task[t].stage \in {"keep", "keep again"}
    /\ cached_api_key' = task[t].key
    /\ Goto(t, IF task[t].stage = "keep" THEN "ask" ELSE "ask again")
    /\ UNCHANGED <<issued, live>>

\* Mutant: a reader whose key is refused takes the key that is kept by then.
AskThenLook(t) ==
    /\ task[t].stage \in {"ask", "ask again"}
    /\ IF task[t].key \in live THEN \E a \in {"value", "unknown", "failed"} : End(t, a)
       ELSE IF task[t].stage = "ask again" THEN End(t, "refused")
       ELSE IF cached_api_key = task[t].key THEN Goto(t, "issue again")
       ELSE task' = [task EXCEPT ![t].stage = "ask again", ![t].key = cached_api_key]
    /\ UNCHANGED <<cached_api_key, issued, live>>

\* request: a key that is refused is replaced, and the request made again, once.
\* The value, a 404 and everything else go to the caller.
Ask(t) ==
    /\ task[t].stage \in {"ask", "ask again"}
    /\ \/ task[t].key \in live /\ \E a \in {"value", "unknown"} : End(t, a)
       \/ End(t, "failed")
       \/ task[t].key \notin live /\ task[t].stage = "ask" /\ Goto(t, "issue again")
       \/ task[t].key \notin live /\ task[t].stage = "ask again" /\ End(t, "refused")
    /\ UNCHANGED <<cached_api_key, issued, live>>

\* The caller goes away; a request under way may still reach open-runo.
Leave(t) ==
    /\ task[t].stage # "idle"
    /\ task' = [task EXCEPT ![t] = Idle]
    /\ UNCHANGED <<cached_api_key, issued, live>>

Expire ==
    /\ \E k \in live : live' = live \ {k}
    /\ UNCHANGED <<cached_api_key, issued, task>>

Next ==
    \/ Expire
    \/ \E t \in Task : Begin(t) \/ Issue(t) \/ IssueFails(t) \/ Keep(t) \/ Ask(t) \/ Leave(t)

Spec == Init /\ [][Next]_vars

-----------------------------------------------------------------------------
TypeOK ==
    /\ cached_api_key \in 1..MaxKeys \cup {None} /\ issued \in 0..MaxKeys
    /\ live \subseteq 1..issued
    /\ task \in [Task -> [stage : {"idle", "issue", "keep", "ask", "issue again", "keep again",
                                   "ask again"},
                          key : 1..MaxKeys \cup {None}, own : SUBSET (1..issued),
                          answer : {"none", "value", "unknown", "failed", "refused"}]]

\* A reader is told that it is refused only if a key it was issued itself, in
\* this call, expired before it was used: never because another reader left an
\* old key behind.
RefusedWithOwnKey ==
    \A t \in Task : task[t].answer = "refused" => task[t].key \in task[t].own \ live
=============================================================================
