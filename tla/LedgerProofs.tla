---------------------------- MODULE LedgerProofs ----------------------------
(* Theorems about Ledger.tla for every value of its constants.             *)
EXTENDS Ledger, FiniteSetTheorems, TLAPS

(***************************************************************************)
(* Type correctness.                                                       *)
(***************************************************************************)

\* The counters of requests upstream may still process stay natural.
LEMMA StrayedType ==
    ASSUME TypeOK, NEW lost \in SUBSET Worker
    PROVE  Strayed(lost) \in [Key -> Nat]
<1> SUFFICES ASSUME NEW k \in Key
             PROVE  strays[k] + Cardinality({w \in lost : handler[w].key = k}) \in Nat
  BY DEF Strayed
<1>1. IsFiniteSet({w \in lost : handler[w].key = k})
  BY BoundsAssumption, FS_Subset
<1>2. Cardinality({w \in lost : handler[w].key = k}) \in Nat
  BY <1>1, FS_CardinalityType
<1> QED BY <1>2 DEF TypeOK, HandlersTyped

\* Returning an answer of the right type keeps handlers and history typed.
LEMMA AnswerType ==
    ASSUME TypeOK, NEW w \in Worker, handler[w].stage # "idle",
           NEW a \in Receipt \cup {Refused}, Answer(w, a)
    PROVE  /\ told' \in [Key -> SUBSET (Receipt \cup {Refused})]
           /\ HandlersTyped'
<1>1. IdleHandler \in HandlerState
  BY DEF IdleHandler, HandlerState, Stage
<1>2. handler[w].key \in Key
  BY DEF TypeOK, HandlersTyped
<1> QED BY <1>1, <1>2 DEF TypeOK, HandlersTyped, Answer, IdleHandler, HandlerState

\* Moving a busy handler to another stage keeps handlers typed.
LEMMA GoToType ==
    ASSUME TypeOK, NEW w \in Worker, handler[w].stage # "idle",
           NEW s \in Stage, s # "mark", GoTo(w, s)
    PROVE  HandlersTyped'
<1>1. handler[w] \in HandlerState /\ handler[w].key \in Key
  BY DEF TypeOK, HandlersTyped
<1> QED BY <1>1 DEF TypeOK, HandlersTyped, GoTo, HandlerState

LEMMA TypeInit == Init => TypeOK
BY DEF Init, TypeOK, HandlersTyped, IdleHandler, HandlerState, Stage, AuxTask

LEMMA TypeStep == TypeOK /\ [Next]_vars => TypeOK'
<1> SUFFICES ASSUME TypeOK, [Next]_vars PROVE TypeOK'
  OBVIOUS
<1>a. IdleHandler \in HandlerState
  BY DEF IdleHandler, HandlerState, Stage
<1>1. ASSUME NEW w \in Worker, NEW k \in Key, Submit(w, k) PROVE TypeOK'
  <2>1. handler' = [handler EXCEPT ![w] = [IdleHandler EXCEPT !.stage = "check", !.key = k]]
    BY <1>1 DEF Submit
  <2>2. [IdleHandler EXCEPT !.stage = "check", !.key = k] \in HandlerState
    BY DEF IdleHandler, HandlerState, Stage
  <2>3. HandlersTyped'
    BY <2>1, <2>2 DEF TypeOK, HandlersTyped, IdleHandler
  <2> QED BY <2>3, <1>1 DEF TypeOK, Submit
<1>2. ASSUME NEW w \in Worker, Check(w) PROVE TypeOK'
  <2>1. handler[w].stage # "idle" /\ handler[w].key \in Key
    BY <1>2 DEF TypeOK, HandlersTyped, Check
  <2>2. AlreadyProcessed(handler[w].key) \in Receipt \cup {None}
    BY <2>1 DEF TypeOK, HandlersTyped, AlreadyProcessed, Receipt
  <2>3. CASE Answer(w, AlreadyProcessed(handler[w].key))
             /\ AlreadyProcessed(handler[w].key) # None
    BY <2>1, <2>2, <2>3, <1>2, AnswerType DEF TypeOK, HandlersTyped, Check
  <2>4. CASE GoTo(w, "append") /\ UNCHANGED told
    BY <2>1, <2>4, <1>2, GoToType DEF TypeOK, HandlersTyped, Check, Stage
  <2>5. CASE Answer(w, Refused)
    BY <2>1, <2>5, <1>2, AnswerType DEF TypeOK, HandlersTyped, Check
  <2> QED BY <1>2, <2>3, <2>4, <2>5 DEF Check
<1>3. ASSUME NEW w \in Worker, Append(w) PROVE TypeOK'
  <2>1. handler[w].stage # "idle" /\ handler[w].key \in Key
    BY <1>3 DEF TypeOK, HandlersTyped, Append
  <2>2. wal' \in [Key -> {None, Pending} \cup CommitId]
    BY <2>1, <1>3 DEF TypeOK, HandlersTyped, Append, Appended
  <2>3. CASE GoTo(w, "announce") /\ UNCHANGED told
    BY <2>1, <2>2, <2>3, <1>3, GoToType DEF TypeOK, HandlersTyped, Append, Stage
  <2>4. CASE Answer(w, Refused)
    BY <2>1, <2>2, <2>4, <1>3, AnswerType DEF TypeOK, HandlersTyped, Append
  <2> QED BY <1>3, <2>3, <2>4 DEF Append
<1>4. ASSUME NEW w \in Worker, Announce(w) PROVE TypeOK'
  <2>1. handler[w] \in HandlerState /\ handler[w].key \in Key
    BY <1>4 DEF TypeOK, HandlersTyped, Announce
  <2>2. tasks' \subseteq AuxTask
    BY <2>1, <1>4 DEF TypeOK, HandlersTyped, Announce, Spawned, AuxTask
  <2>3. audit' \in [Key -> Nat]
    BY <2>1, <1>4 DEF TypeOK, HandlersTyped, Announce
  <2>4. HandlersTyped'
    BY <2>1, <1>4 DEF TypeOK, HandlersTyped, Announce, HandlerState, Stage
  <2> QED BY <1>4, <2>2, <2>3, <2>4 DEF TypeOK, HandlersTyped, Announce
<1>5. ASSUME NEW w \in Worker, NEW r \in Region, RegionWrite(w, r) PROVE TypeOK'
  <2>1. handler[w] \in HandlerState /\ handler[w].key \in Key
    BY <1>5 DEF TypeOK, HandlersTyped, RegionWrite
  <2>2. regions' \in [Region -> SUBSET Key]
    BY <2>1, <1>5 DEF TypeOK, HandlersTyped, RegionWrite
  <2>3. PICK a \in {handler[w].acked, handler[w].acked \cup {r}} :
          handler' = [handler EXCEPT ![w].writing = @ \ {r}, ![w].acked = a]
    BY <1>5 DEF RegionWrite
  <2>4. a \in SUBSET Region
    BY <2>1, <2>3 DEF HandlerState
  <2>5. HandlersTyped'
    BY <2>1, <2>3, <2>4 DEF TypeOK, HandlersTyped, HandlerState
  <2> QED BY <1>5, <2>2, <2>5 DEF TypeOK, HandlersTyped, RegionWrite
<1>6. ASSUME NEW w \in Worker, Replicated(w) PROVE TypeOK'
  <2>1. handler[w].stage # "idle" /\ handler[w].key \in Key
    BY <1>6 DEF TypeOK, HandlersTyped, Replicated
  <2>2. CASE GoTo(w, "forward") /\ UNCHANGED <<told, tasks>>
    BY <2>1, <2>2, <1>6, GoToType DEF TypeOK, HandlersTyped, Replicated, Stage
  <2>3. CASE Answer(w, Refused) /\ tasks' = tasks \cup Spawned("mail", handler[w].key)
    <3>1. tasks' \subseteq AuxTask
      BY <2>1, <2>3 DEF TypeOK, HandlersTyped, Spawned, AuxTask
    <3> QED BY <3>1, <2>1, <2>3, <1>6, AnswerType DEF TypeOK, HandlersTyped, Replicated
  <2> QED BY <1>6, <2>2, <2>3 DEF Replicated
<1>7. ASSUME NEW w \in Worker, ForwardOnce(w) PROVE TypeOK'
  <2>1. handler[w] \in HandlerState /\ handler[w].key \in Key
    BY <1>7 DEF TypeOK, HandlersTyped, ForwardOnce
  <2> QED BY <2>1, <1>7 DEF TypeOK, HandlersTyped, ForwardOnce, HandlerState, Stage
<1>8. ASSUME NEW w \in Worker, ForwardOk(w) PROVE TypeOK'
  <2>1. handler[w] \in HandlerState /\ handler[w].key \in Key
    BY <1>8 DEF TypeOK, HandlersTyped, ForwardOk
  <2>2. handler[w].answer \in CommitId
    BY <2>1, <1>8 DEF HandlerState, ForwardOk
  <2> QED BY <2>1, <2>2, <1>8
          DEF TypeOK, HandlersTyped, ForwardOk, GoTo, HandlerState, Stage
<1>9. ASSUME NEW w \in Worker, ForwardErr(w) PROVE TypeOK'
  <2>1. handler[w] \in HandlerState /\ handler[w].stage # "idle" /\ handler[w].key \in Key
    BY <1>9 DEF TypeOK, HandlersTyped, ForwardErr
  <2>2. strays' \in [Key -> Nat]
    BY <1>9, StrayedType DEF ForwardErr
  <2>3. CASE /\ handler' = [handler EXCEPT ![w].stage = "forward", ![w].answer = None]
             /\ UNCHANGED <<told, tasks>>
    BY <2>1, <2>2, <2>3, <1>9 DEF TypeOK, HandlersTyped, ForwardErr, HandlerState, Stage
  <2>4. CASE Answer(w, Refused) /\ tasks' = tasks \cup Spawned("mail", handler[w].key)
    <3>1. tasks' \subseteq AuxTask
      BY <2>1, <2>4 DEF TypeOK, HandlersTyped, Spawned, AuxTask
    <3> QED BY <3>1, <2>1, <2>2, <2>4, <1>9, AnswerType DEF TypeOK, HandlersTyped, ForwardErr
  <2> QED BY <1>9, <2>3, <2>4 DEF ForwardErr
<1>10. ASSUME NEW w \in Worker, Mark(w) PROVE TypeOK'
  <2>1. handler[w].stage # "idle" /\ handler[w].key \in Key
        /\ handler[w].answer \in CommitId
    BY <1>10 DEF TypeOK, HandlersTyped, Mark
  <2>2. wal' \in [Key -> {None, Pending} \cup CommitId]
    BY <2>1, <1>10 DEF TypeOK, Mark, Marked
  <2>3. PICK a \in Receipt \cup {Refused} : Answer(w, a)
    BY <2>1, <1>10 DEF Mark, Receipt
  <2> QED BY <2>1, <2>2, <2>3, <1>10, AnswerType DEF TypeOK, Mark
<1>11. ASSUME NEW w \in Worker, Cancel(w) PROVE TypeOK'
  <2>1. handler[w] \in HandlerState /\ handler[w].key \in Key
    BY <1>11 DEF TypeOK, HandlersTyped, Cancel
  <2>2. strays' \in [Key -> Nat]
    BY <1>11, StrayedType DEF Cancel
  <2>3. orphans' \subseteq [region : Region, key : Key]
    BY <2>1, <1>11 DEF TypeOK, HandlersTyped, Cancel, HandlerState
  <2>4. HandlersTyped'
    BY <1>a, <1>11 DEF TypeOK, HandlersTyped, Cancel, IdleHandler
  <2> QED BY <1>11, <2>2, <2>3, <2>4 DEF TypeOK, HandlersTyped, Cancel
<1>12. ASSUME NEW w \in Worker, UpstreamCommit(w) PROVE TypeOK'
  <2>1. handler[w] \in HandlerState /\ handler[w].key \in Key
    BY <1>12 DEF TypeOK, HandlersTyped, UpstreamCommit, Unanswered
  <2> QED BY <2>1, <1>12 DEF TypeOK, HandlersTyped, UpstreamCommit, Commits, HandlerState
<1>13. ASSUME NEW o \in orphans, OrphanWrite(o) PROVE TypeOK'
  BY <1>13 DEF TypeOK, HandlersTyped, OrphanWrite
<1>14. ASSUME NEW t \in tasks, TaskDone(t) PROVE TypeOK'
  BY <1>14 DEF TypeOK, HandlersTyped, TaskDone
<1>15. ASSUME NEW k \in Key, StrayCommit(k) PROVE TypeOK'
  BY <1>15 DEF TypeOK, HandlersTyped, StrayCommit, Commits
<1>16. CASE Crash
  <2>1. strays' \in [Key -> Nat]
    BY <1>16, StrayedType DEF Crash
  <2> QED BY <1>a, <2>1, <1>16 DEF TypeOK, HandlersTyped, Crash, IdleHandler
<1>17. CASE UNCHANGED vars
  BY <1>17 DEF TypeOK, HandlersTyped, vars
<1> QED BY <1>1, <1>2, <1>3, <1>4, <1>5, <1>6, <1>7, <1>8, <1>9, <1>10,
           <1>11, <1>12, <1>13, <1>14, <1>15, <1>16, <1>17
        DEF Next, HandlerStep

\* Every reachable state is typed.
THEOREM TypeCorrect == Spec => []TypeOK
BY TypeInit, TypeStep, PTL DEF Spec


(***************************************************************************)
(* Where the parts of the next state come from. Each lemma looks once at   *)
(* every action, and the invariance proofs below cite the lemmas.          *)
(***************************************************************************)

\* Upstream never forgets or overwrites a commit.
LEMMA UpstreamGrows ==
    ASSUME TypeOK, [Next]_vars, NEW c \in CommitId, upstream[c] # None
    PROVE  upstream'[c] = upstream[c]
<1>1. ASSUME NEW k \in Key, NEW d \in CommitId, Commits(k, d)
      PROVE  upstream'[c] = upstream[c]
  BY <1>1 DEF Commits, TypeOK
<1>2. ASSUME NEW w \in Worker, UpstreamCommit(w)
      PROVE  upstream'[c] = upstream[c]
  BY <1>1, <1>2 DEF UpstreamCommit, Unanswered, TypeOK, HandlersTyped
<1>3. ASSUME NEW k \in Key, StrayCommit(k)
      PROVE  upstream'[c] = upstream[c]
  BY <1>1, <1>3 DEF StrayCommit
<1>4. ASSUME NEW w \in Worker, HandlerStep(w)
      PROVE  UNCHANGED upstream
  BY <1>4 DEF HandlerStep, Check, Append, Announce, RegionWrite, Replicated,
              ForwardOnce, ForwardOk, Mark
<1>5. CASE UNCHANGED upstream
  BY <1>5
<1> QED
  BY <1>2, <1>3, <1>4, <1>5
     DEF Next, vars, Submit, ForwardErr, Cancel, OrphanWrite, TaskDone, Crash

\* A new answer is a refusal, what the log says, or a commit id to mark.
LEMMA ToldFrom ==
    ASSUME TypeOK, [Next]_vars, NEW k \in Key, NEW a \in told'[k], a \notin told[k]
    PROVE  \/ a = Refused
           \/ /\ a = AlreadyProcessed(k) /\ a # None
              /\ \E w \in Worker : handler[w].stage = "check" /\ handler[w].key = k
           \/ \E w \in Worker : /\ handler[w].stage = "mark"
                                /\ handler[w].key = k /\ a = handler[w].answer
                                /\ wal'[k] = Marked(k, a)
<1>1. ASSUME NEW w \in Worker, NEW b, Answer(w, b), handler[w].stage # "idle"
      PROVE  handler[w].key = k /\ a = b
  BY <1>1 DEF TypeOK, HandlersTyped, Answer
<1>2. CASE \E w \in Worker : Check(w)
  BY <1>1, <1>2 DEF Check
<1>3. CASE \E w \in Worker : Append(w)
  BY <1>1, <1>3 DEF Append
<1>4. CASE \E w \in Worker : Replicated(w)
  BY <1>1, <1>4 DEF Replicated
<1>5. CASE \E w \in Worker : ForwardErr(w)
  BY <1>1, <1>5 DEF ForwardErr
<1>6. CASE \E w \in Worker : Mark(w)
  <2>1. PICK w \in Worker : Mark(w)
    BY <1>6
  <2>2. PICK outcome \in WalOutcome :
          /\ wal' = IF outcome = "fail" THEN wal
                    ELSE [wal EXCEPT ![handler[w].key] =
                            Marked(handler[w].key, handler[w].answer)]
          /\ Answer(w, IF outcome = "ok" THEN handler[w].answer ELSE Refused)
    BY <2>1 DEF Mark
  <2>3. handler[w].key = k /\ a = IF outcome = "ok" THEN handler[w].answer ELSE Refused
    BY <1>1, <2>1, <2>2 DEF Mark
  <2> QED BY <2>1, <2>2, <2>3 DEF Mark, TypeOK
<1>7. CASE UNCHANGED told
  BY <1>7
<1> QED
  BY <1>2, <1>3, <1>4, <1>5, <1>6, <1>7
     DEF Next, HandlerStep, vars, Submit, Announce, RegionWrite, ForwardOnce,
         ForwardOk, Cancel, OrphanWrite, TaskDone, Crash, UpstreamCommit, StrayCommit

\* A row changes by an append, by a mark, or by the loss of the memory.
LEMMA WalFrom ==
    ASSUME TypeOK, [Next]_vars, NEW k \in Key
    PROVE  \/ wal'[k] = wal[k]
           \/ wal'[k] = Appended(k)
           \/ Backend = "InMemory" /\ wal'[k] = None
           \/ \E w \in Worker : /\ handler[w].stage = "mark" /\ handler[w].key = k
                                /\ wal'[k] = Marked(k, handler[w].answer)
<1>1. CASE \E w \in Worker : Append(w)
  BY <1>1 DEF Append, TypeOK
<1>2. CASE \E w \in Worker : Mark(w)
  BY <1>2 DEF Mark, TypeOK
<1>3. CASE Crash
  BY <1>3 DEF Crash, TypeOK
<1>4. CASE UNCHANGED wal
  BY <1>4
<1> QED
  BY <1>1, <1>2, <1>3, <1>4
     DEF Next, HandlerStep, vars, Submit, Check, Announce, RegionWrite, Replicated,
         ForwardOnce, ForwardOk, ForwardErr, Cancel, OrphanWrite, TaskDone,
         UpstreamCommit, StrayCommit

\* A handler's answer is none, the one it had, or fresh from upstream.
LEMMA AnswerFrom ==
    ASSUME TypeOK, [Next]_vars, NEW v \in Worker, handler'[v].answer # None
    PROVE  \/ /\ handler'[v].answer = handler[v].answer
              /\ handler'[v].key = handler[v].key
           \/ /\ handler'[v].answer \in CommitId /\ handler'[v].key \in Key
              /\ upstream'[handler'[v].answer] = handler'[v].key
<1>0. handler \in [Worker -> HandlerState] /\ IdleHandler.answer = None
  BY DEF TypeOK, HandlersTyped, IdleHandler
<1>1. ASSUME NEW w \in Worker, NEW a, Answer(w, a)
      PROVE  handler'[v] = handler[v] \/ handler'[v].answer = None
  BY <1>0, <1>1 DEF Answer
<1>2. ASSUME NEW w \in Worker, NEW s, GoTo(w, s)
      PROVE  /\ handler'[v].answer = handler[v].answer
             /\ handler'[v].key = handler[v].key
  BY <1>0, <1>2 DEF GoTo, HandlerState
<1>3. ASSUME NEW w \in Worker, HandlerStep(w) \/ ForwardErr(w)
      PROVE  \/ handler'[v].answer = None
             \/ /\ handler'[v].answer = handler[v].answer
                /\ handler'[v].key = handler[v].key
  <2>1. CASE Check(w)
    BY <1>1, <1>2, <2>1 DEF Check
  <2>2. CASE Append(w)
    BY <1>1, <1>2, <2>2 DEF Append
  <2>3. CASE Announce(w)
    BY <1>0, <2>3 DEF Announce, HandlerState
  <2>4. ASSUME NEW r \in Region, RegionWrite(w, r)
        PROVE  /\ handler'[v].answer = handler[v].answer
               /\ handler'[v].key = handler[v].key
    BY <1>0, <2>4 DEF RegionWrite, HandlerState
  <2>5. CASE Replicated(w)
    BY <1>1, <1>2, <2>5 DEF Replicated
  <2>6. CASE ForwardOnce(w)
    BY <1>0, <2>6 DEF ForwardOnce, HandlerState
  <2>7. CASE ForwardOk(w)
    BY <1>2, <2>7 DEF ForwardOk
  <2>8. CASE Mark(w)
    BY <1>1, <2>8 DEF Mark
  <2>9. CASE ForwardErr(w)
    BY <1>0, <1>1, <2>9 DEF ForwardErr, HandlerState
  <2> QED BY <1>3, <2>1, <2>2, <2>3, <2>4, <2>5, <2>6, <2>7, <2>8, <2>9
          DEF HandlerStep
<1>4. ASSUME NEW w \in Worker, UpstreamCommit(w)
      PROVE  \/ handler'[v] = handler[v]
             \/ /\ handler'[v].answer \in CommitId /\ handler'[v].key \in Key
                /\ upstream'[handler'[v].answer] = handler'[v].key
  <2>1. PICK c \in CommitId : /\ Commits(handler[w].key, c)
                              /\ handler' = [handler EXCEPT ![w].answer = c]
    BY <1>4 DEF UpstreamCommit
  <2>2. upstream'[c] = handler[w].key
    BY <2>1 DEF Commits, TypeOK
  <2>3. handler[w].key \in Key
    BY <1>4 DEF UpstreamCommit, Unanswered, TypeOK, HandlersTyped
  <2> QED BY <1>0, <2>1, <2>2, <2>3 DEF HandlerState
<1>5. ASSUME NEW w \in Worker, Cancel(w)
      PROVE  handler'[v] = handler[v] \/ handler'[v].answer = None
  BY <1>0, <1>5 DEF Cancel
<1>6. ASSUME NEW w \in Worker, NEW k \in Key, Submit(w, k)
      PROVE  handler'[v] = handler[v] \/ handler'[v].answer = None
  BY <1>0, <1>6 DEF Submit, IdleHandler
<1>7. CASE Crash
  BY <1>0, <1>7 DEF Crash
<1>8. CASE UNCHANGED handler
  BY <1>8
<1> QED BY <1>3, <1>4, <1>5, <1>6, <1>7, <1>8
        DEF Next, vars, OrphanWrite, TaskDone, StrayCommit

(***************************************************************************)
(* What clients are told is true.                                          *)
(***************************************************************************)

\* The commit ids a handler holds, the log records and a client was given
\* all name their mutation upstream. ReceiptIsStored alone is not
\* inductive: an id reaches a client through a handler or the log.
ReceiptInv ==
    /\ TypeOK
    /\ \A w \in Worker :
          handler[w].answer # None =>
             /\ handler[w].answer \in CommitId /\ handler[w].key \in Key
             /\ upstream[handler[w].answer] = handler[w].key
    /\ \A k \in Key : wal[k] \in CommitId => upstream[wal[k]] = k
    /\ ReceiptIsStored

LEMMA ReceiptInvInductive == ReceiptInv /\ [Next]_vars => ReceiptInv'
<1> SUFFICES ASSUME ReceiptInv, [Next]_vars PROVE ReceiptInv'
  OBVIOUS
<1>1. TypeOK /\ TypeOK'
  BY TypeStep DEF ReceiptInv
<1>2. ASSUME NEW k \in Key, NEW c \in CommitId, upstream[c] = k
      PROVE  upstream'[c] = k
  <2>1. upstream[c] # None
    BY <1>2, SentinelAssumption
  <2> QED BY <1>1, <1>2, <2>1, UpstreamGrows
<1>3. ASSUME NEW w \in Worker, handler[w].stage = "mark"
      PROVE  /\ handler[w].key \in Key /\ handler[w].answer \in CommitId
             /\ upstream'[handler[w].answer] = handler[w].key
  <2>1. handler[w].key \in Key /\ handler[w].answer \in CommitId
    BY <1>1, <1>3 DEF TypeOK, HandlersTyped
  <2> QED BY <2>1, <1>2, SentinelAssumption DEF ReceiptInv
<1>4. ASSUME NEW v \in Worker, handler'[v].answer # None
      PROVE  /\ handler'[v].answer \in CommitId /\ handler'[v].key \in Key
             /\ upstream'[handler'[v].answer] = handler'[v].key
  <2>1. CASE /\ handler'[v].answer = handler[v].answer
             /\ handler'[v].key = handler[v].key
    <3>1. /\ handler[v].answer \in CommitId /\ handler[v].key \in Key
          /\ upstream[handler[v].answer] = handler[v].key
      BY <1>4, <2>1 DEF ReceiptInv
    <3> QED BY <1>2, <2>1, <3>1
  <2> QED BY <1>1, <1>4, <2>1, AnswerFrom
<1>5. ASSUME NEW k \in Key, wal'[k] \in CommitId
      PROVE  upstream'[wal'[k]] = k
  <2>1. CASE wal'[k] = wal[k] \/ wal'[k] = Appended(k)
    <3>1. wal'[k] = wal[k]
      BY <1>5, <2>1, SentinelAssumption DEF Appended
    <3> QED BY <3>1, <1>2, <1>5 DEF ReceiptInv
  <2>2. CASE Backend = "InMemory" /\ wal'[k] = None
    BY <1>5, <2>2, SentinelAssumption
  <2>3. ASSUME NEW w \in Worker, handler[w].stage = "mark", handler[w].key = k,
               wal'[k] = Marked(k, handler[w].answer)
        PROVE  upstream'[wal'[k]] = k
    BY <1>3, <1>5, <2>3, SentinelAssumption DEF Marked
  <2> QED BY <1>1, <2>1, <2>2, <2>3, WalFrom
<1>6. ReceiptIsStored'
  <2> SUFFICES ASSUME NEW k \in Key, NEW c \in told'[k], c \in CommitId
               PROVE  upstream'[c] = k
    BY DEF ReceiptIsStored
  <2>1. CASE c \in told[k]
    BY <1>2, <2>1 DEF ReceiptInv, ReceiptIsStored
  <2>2. CASE c = AlreadyProcessed(k)
    <3>1. c = wal[k]
      BY <2>2, SentinelAssumption DEF AlreadyProcessed
    <3> QED BY <3>1, <1>2 DEF ReceiptInv
  <2>3. CASE \E w \in Worker : /\ handler[w].stage = "mark" /\ handler[w].key = k
                               /\ c = handler[w].answer
    BY <1>3, <2>3
  <2> QED BY <1>1, <2>1, <2>2, <2>3, ToldFrom, SentinelAssumption
<1> QED BY <1>1, <1>4, <1>5, <1>6 DEF ReceiptInv

\* A commit id handed to a client names its mutation upstream, whatever the
\* backend, and whether or not upstream deduplicates.
THEOREM ReceiptSafety == Spec => []ReceiptIsStored
<1>1. Init => ReceiptInv
  BY TypeInit, SentinelAssumption DEF Init, ReceiptInv, ReceiptIsStored, IdleHandler
<1>2. ReceiptInv => ReceiptIsStored
  BY DEF ReceiptInv
<1> QED BY <1>1, <1>2, ReceiptInvInductive, PTL DEF Spec

(***************************************************************************)
(* PostgresWal: the log is written first, and a settled key stays settled. *)
(***************************************************************************)

\* The stages of a handler whose append has returned.
Logged == {"announce", "replicate", "forward", "await", "mark"}

\* A row of the durable log stays, and so does its commit id.
LEMMA RowsKept ==
    ASSUME Backend = "Postgres", TypeOK, [Next]_vars, NEW k \in Key
    PROVE  /\ wal[k] # None => wal'[k] # None
           /\ wal[k] \in CommitId => wal'[k] \in CommitId
<1>1. CASE wal'[k] = Appended(k)
  BY <1>1, SentinelAssumption DEF Appended
<1>2. ASSUME NEW w \in Worker, handler[w].stage = "mark",
             wal'[k] = Marked(k, handler[w].answer)
      PROVE  /\ wal[k] # None => wal'[k] # None
             /\ wal[k] \in CommitId => wal'[k] \in CommitId
  BY <1>2, SentinelAssumption DEF Marked, TypeOK, HandlersTyped
<1> QED BY <1>1, <1>2, WalFrom

\* A handler that is past its append was so before, or appends now.
LEMMA LoggedFrom ==
    ASSUME TypeOK, [Next]_vars, NEW v \in Worker, handler'[v].stage \in Logged
    PROVE  \/ /\ handler[v].stage \in Logged
              /\ handler'[v].key = handler[v].key
           \/ /\ handler[v].stage = "append" /\ handler[v].key \in Key
              /\ handler'[v].key = handler[v].key
              /\ wal'[handler[v].key] = Appended(handler[v].key)
<1>0. handler \in [Worker -> HandlerState] /\ IdleHandler.stage = "idle"
  BY DEF TypeOK, HandlersTyped, IdleHandler
<1>1. ASSUME NEW w \in Worker, NEW a, Answer(w, a)
      PROVE  handler'[v] = handler[v]
  BY <1>0, <1>1 DEF Answer, Logged
<1>2. CASE \E w \in Worker : Check(w)
  BY <1>0, <1>1, <1>2 DEF Check, GoTo, HandlerState, Logged
<1>3. ASSUME NEW w \in Worker, Append(w)
      PROVE  \/ handler'[v] = handler[v]
             \/ /\ handler[v].stage = "append" /\ handler[v].key \in Key
                /\ handler'[v].key = handler[v].key
                /\ wal'[handler[v].key] = Appended(handler[v].key)
  <2>1. handler[w].key \in Key
    BY <1>3 DEF Append, TypeOK, HandlersTyped
  <2>2. PICK outcome \in WalOutcome :
          /\ wal' = IF outcome = "fail" THEN wal
                    ELSE [wal EXCEPT ![handler[w].key] = Appended(handler[w].key)]
          /\ IF outcome = "ok" THEN GoTo(w, "announce") /\ UNCHANGED told
                               ELSE Answer(w, Refused)
    BY <1>3 DEF Append
  <2>3. CASE outcome = "ok"
    BY <1>0, <1>3, <2>1, <2>2, <2>3 DEF Append, GoTo, HandlerState, TypeOK
  <2> QED BY <1>1, <2>2, <2>3
<1>4. CASE \E w \in Worker : Announce(w)
  BY <1>0, <1>4 DEF Announce, HandlerState, Logged
<1>5. CASE \E w \in Worker, r \in Region : RegionWrite(w, r)
  BY <1>0, <1>5 DEF RegionWrite, HandlerState, Logged
<1>6. CASE \E w \in Worker : Replicated(w)
  BY <1>0, <1>1, <1>6 DEF Replicated, GoTo, HandlerState, Logged
<1>7. CASE \E w \in Worker : ForwardOnce(w)
  BY <1>0, <1>7 DEF ForwardOnce, HandlerState, Logged
<1>8. CASE \E w \in Worker : ForwardOk(w)
  BY <1>0, <1>8 DEF ForwardOk, GoTo, HandlerState, Logged
<1>9. CASE \E w \in Worker : ForwardErr(w)
  BY <1>0, <1>1, <1>9 DEF ForwardErr, HandlerState, Logged
<1>10. CASE \E w \in Worker : Mark(w)
  BY <1>1, <1>10 DEF Mark
<1>11. CASE \E w \in Worker : Cancel(w)
  BY <1>0, <1>11 DEF Cancel, Logged
<1>12. CASE \E w \in Worker : UpstreamCommit(w)
  BY <1>0, <1>12 DEF UpstreamCommit, HandlerState, Logged
<1>13. CASE \E w \in Worker, k \in Key : Submit(w, k)
  BY <1>0, <1>13 DEF Submit, IdleHandler, Logged
<1>14. CASE Crash
  BY <1>0, <1>14 DEF Crash, Logged
<1>15. CASE UNCHANGED handler
  BY <1>15
<1> QED BY <1>2, <1>3, <1>4, <1>5, <1>6, <1>7, <1>8, <1>9, <1>10, <1>11,
           <1>12, <1>13, <1>14, <1>15
        DEF Next, HandlerStep, vars, OrphanWrite, TaskDone, StrayCommit

\* A request becomes a stray only when a handler with that key drops it.
LEMMA StrayedFrom ==
    ASSUME TypeOK, NEW lost \in SUBSET Worker, NEW k \in Key,
           Strayed(lost)[k] > 0, ~(strays[k] > 0)
    PROVE  \E w \in lost : handler[w].key = k
<1> SUFFICES ASSUME \A w \in lost : handler[w].key # k PROVE FALSE
  OBVIOUS
<1>1. {w \in lost : handler[w].key = k} = {}
  OBVIOUS
<1>2. Cardinality({w \in lost : handler[w].key = k}) = 0
  BY <1>1, FS_EmptySet
<1> QED BY <1>2 DEF Strayed, TypeOK

\* What a mutation newly escapes through is a handler past its append, a
\* region write of one, or it had escaped already.
LEMMA EscapedFrom ==
    ASSUME TypeOK, [Next]_vars, NEW k \in Key, Escaped(k)'
    PROVE  \/ Escaped(k)
           \/ \E w \in Worker : handler[w].stage \in Logged /\ handler[w].key = k
           \/ \E o \in orphans : o.key = k
<1>1. ASSUME NEW w \in Worker, Announce(w) PROVE Escaped(k) \/ handler[w].key = k
  BY <1>1 DEF Announce, Escaped, Spawned, TypeOK
<1>2. ASSUME NEW w \in Worker, NEW r \in Region, RegionWrite(w, r)
      PROVE  Escaped(k) \/ handler[w].key = k
  BY <1>2 DEF RegionWrite, Escaped, TypeOK
<1>3. ASSUME NEW w \in Worker, Replicated(w) PROVE Escaped(k) \/ handler[w].key = k
  BY <1>3 DEF Replicated, Escaped, Spawned
<1>4. ASSUME NEW w \in Worker, ForwardErr(w) PROVE Escaped(k) \/ handler[w].key = k
  <2>1. CASE strays'[k] > 0 /\ ~(strays[k] > 0)
    BY <1>4, <2>1, StrayedFrom DEF ForwardErr
  <2> QED BY <1>4, <2>1 DEF ForwardErr, Escaped, Spawned
<1>5. ASSUME NEW w \in Worker, Cancel(w)
      PROVE  \/ Escaped(k)
             \/ handler[w].stage \in Logged /\ handler[w].key = k
  <2>1. CASE strays'[k] > 0 /\ ~(strays[k] > 0)
    BY <1>5, <2>1, StrayedFrom DEF Cancel, Unanswered, Logged
  <2> QED BY <1>5, <2>1 DEF Cancel, Escaped
<1>6. ASSUME NEW w \in Worker, UpstreamCommit(w) PROVE Escaped(k) \/ handler[w].key = k
  BY <1>6 DEF UpstreamCommit, Commits, Escaped, TypeOK
<1>7. ASSUME NEW j \in Key, StrayCommit(j) PROVE Escaped(k)
  BY <1>7 DEF StrayCommit, Commits, Escaped, TypeOK
<1>8. ASSUME NEW o \in orphans, OrphanWrite(o) PROVE Escaped(k) \/ o.key = k
  BY <1>8 DEF OrphanWrite, Escaped, TypeOK
<1>9. ASSUME NEW t \in tasks, TaskDone(t) PROVE Escaped(k)
  BY <1>9 DEF TaskDone, Escaped
<1>10. CASE Crash
  <2>1. CASE strays'[k] > 0 /\ ~(strays[k] > 0)
    BY <1>10, <2>1, StrayedFrom DEF Crash, Unanswered, Logged
  <2> QED BY <1>10, <2>1 DEF Crash, Escaped
<1>11. CASE UNCHANGED <<upstream, strays, regions, audit, tasks, delivered>>
  BY <1>11 DEF Escaped
<1> DEFINE Goal ==
             \/ Escaped(k)
             \/ \E w \in Worker : handler[w].stage \in Logged /\ handler[w].key = k
             \/ \E o \in orphans : o.key = k
<1>12. ASSUME NEW w \in Worker,
              \/ \E j \in Key : Submit(w, j)
              \/ Check(w) \/ Append(w) \/ ForwardOnce(w) \/ ForwardOk(w) \/ Mark(w)
       PROVE  Goal
  BY <1>11, <1>12 DEF Submit, Check, Append, ForwardOnce, ForwardOk, Mark
<1>13. ASSUME NEW w \in Worker,
              \/ Announce(w) \/ \E r \in Region : RegionWrite(w, r)
              \/ Replicated(w) \/ ForwardErr(w) \/ UpstreamCommit(w)
       PROVE  Goal
  <2>1. handler[w].stage \in Logged
    BY <1>13 DEF Announce, RegionWrite, Replicated, ForwardErr, UpstreamCommit,
                 Unanswered, Logged
  <2>2. Escaped(k) \/ handler[w].key = k
    BY <1>13, <1>1, <1>2, <1>3, <1>4, <1>6
  <2> QED BY <2>1, <2>2
<1>14. ASSUME NEW w \in Worker, Cancel(w) PROVE Goal
  BY <1>14, <1>5
<1>15. CASE UNCHANGED vars
  BY <1>15, <1>11 DEF vars
<1> HIDE DEF Goal
<1>16. Goal
  BY <1>7, <1>8, <1>9, <1>10, <1>12, <1>13, <1>14, <1>15 DEF Next, HandlerStep, Goal
<1> QED BY <1>16 DEF Goal

\* What holds of the durable log: a handler past its append, and a region
\* write it left behind, have their row; so has everything that escaped.
WriteAheadInv ==
    /\ TypeOK
    /\ \A w \in Worker : handler[w].stage \in Logged => wal[handler[w].key] # None
    /\ \A w \in Worker : handler[w].writing # {} => handler[w].stage = "replicate"
    /\ \A o \in orphans : wal[o.key] # None
    /\ WriteAheadFirst

\* Only a handler that replicates has region writes outstanding.
LEMMA WritingFrom ==
    ASSUME TypeOK, [Next]_vars, NEW v \in Worker,
           handler[v].writing # {} => handler[v].stage = "replicate"
    PROVE  handler'[v].writing # {} => handler'[v].stage = "replicate"
<1>0. /\ handler \in [Worker -> HandlerState]
      /\ IdleHandler.stage = "idle" /\ IdleHandler.writing = {}
  BY DEF TypeOK, HandlersTyped, IdleHandler
<1>1. ASSUME NEW w \in Worker, NEW a, Answer(w, a)
      PROVE  handler'[v] = handler[v] \/ handler'[v].writing = {}
  BY <1>0, <1>1 DEF Answer
<1>2. ASSUME NEW w \in Worker, NEW s, GoTo(w, s), handler[w].writing = {}
      PROVE  handler'[v] = handler[v] \/ handler'[v].writing = {}
  BY <1>0, <1>2 DEF GoTo, HandlerState
<1>3. CASE \E w \in Worker : Check(w)
  BY <1>0, <1>3 DEF Check, Answer, GoTo, HandlerState
<1>4. CASE \E w \in Worker : Append(w)
  BY <1>0, <1>4 DEF Append, Answer, GoTo, HandlerState
<1>5. CASE \E w \in Worker : Announce(w)
  BY <1>0, <1>5 DEF Announce, HandlerState
<1>6. CASE \E w \in Worker, r \in Region : RegionWrite(w, r)
  BY <1>0, <1>6 DEF RegionWrite, HandlerState
<1>7. CASE \E w \in Worker : Replicated(w)
  BY <1>0, <1>1, <1>2, <1>7 DEF Replicated
<1>8. CASE \E w \in Worker : ForwardOnce(w)
  BY <1>0, <1>8 DEF ForwardOnce, HandlerState
<1>9. CASE \E w \in Worker : ForwardOk(w)
  BY <1>0, <1>9 DEF ForwardOk, GoTo, HandlerState
<1>10. CASE \E w \in Worker : ForwardErr(w)
  BY <1>0, <1>1, <1>10 DEF ForwardErr, HandlerState
<1>11. CASE \E w \in Worker : Mark(w)
  BY <1>1, <1>11 DEF Mark
<1>12. CASE \E w \in Worker : Cancel(w)
  BY <1>0, <1>12 DEF Cancel
<1>13. CASE \E w \in Worker : UpstreamCommit(w)
  BY <1>0, <1>13 DEF UpstreamCommit, HandlerState
<1>14. CASE \E w \in Worker, k \in Key : Submit(w, k)
  BY <1>0, <1>14 DEF Submit, IdleHandler
<1>15. CASE Crash
  BY <1>0, <1>15 DEF Crash
<1>16. CASE UNCHANGED handler
  BY <1>16
<1> QED BY <1>3, <1>4, <1>5, <1>6, <1>7, <1>8, <1>9, <1>10, <1>11,
           <1>12, <1>13, <1>14, <1>15, <1>16
        DEF Next, HandlerStep, vars, OrphanWrite, TaskDone, StrayCommit

\* A region write is orphaned only by the handler that spawned it.
LEMMA OrphansFrom ==
    ASSUME TypeOK, [Next]_vars, NEW o \in orphans', o \notin orphans
    PROVE  \E w \in Worker : handler[w].writing # {} /\ o.key = handler[w].key
<1>1. ASSUME NEW w \in Worker, Cancel(w)
      PROVE  handler[w].writing # {} /\ o.key = handler[w].key
  BY <1>1 DEF Cancel
<1> QED
  BY <1>1 DEF Next, HandlerStep, vars, Submit, Check, Append, Announce, RegionWrite,
              Replicated, ForwardOnce, ForwardOk, ForwardErr, Mark, OrphanWrite,
              TaskDone, Crash, UpstreamCommit, StrayCommit

LEMMA WriteAheadInvInductive ==
    Backend = "Postgres" /\ WriteAheadInv /\ [Next]_vars => WriteAheadInv'
<1> SUFFICES ASSUME Backend = "Postgres", WriteAheadInv, [Next]_vars
             PROVE  WriteAheadInv'
  OBVIOUS
<1>1. TypeOK /\ TypeOK'
  BY TypeStep DEF WriteAheadInv
<1>2. \A k \in Key : wal[k] # None => wal'[k] # None
  BY <1>1, RowsKept
<1>3. \A w \in Worker : handler[w].stage \in Logged =>
         handler[w].key \in Key /\ wal'[handler[w].key] # None
  BY <1>1, <1>2 DEF WriteAheadInv, TypeOK, HandlersTyped, Logged
<1>4. ASSUME NEW v \in Worker, handler'[v].stage \in Logged
      PROVE  wal'[handler'[v].key] # None
  <2>1. CASE handler[v].stage \in Logged /\ handler'[v].key = handler[v].key
    BY <1>3, <2>1
  <2>2. CASE /\ handler[v].key \in Key /\ handler'[v].key = handler[v].key
             /\ wal'[handler[v].key] = Appended(handler[v].key)
    BY <2>2, SentinelAssumption DEF Appended
  <2> QED BY <1>1, <1>4, <2>1, <2>2, LoggedFrom
<1>5. \A w \in Worker : handler'[w].writing # {} => handler'[w].stage = "replicate"
  BY <1>1, WritingFrom DEF WriteAheadInv
<1>6. ASSUME NEW o \in orphans' PROVE wal'[o.key] # None
  <2>1. CASE o \in orphans
    BY <1>1, <1>2, <2>1 DEF WriteAheadInv, TypeOK
  <2>2. CASE o \notin orphans
    <3>1. PICK w \in Worker : handler[w].writing # {} /\ o.key = handler[w].key
      BY <1>1, <2>2, OrphansFrom
    <3> QED BY <1>3, <3>1 DEF WriteAheadInv, Logged
  <2> QED BY <2>1, <2>2
<1>7. ASSUME NEW k \in Key, Escaped(k)' PROVE wal'[k] # None
  <2>1. CASE Escaped(k)
    BY <1>2, <2>1 DEF WriteAheadInv, WriteAheadFirst
  <2>2. CASE \E w \in Worker : handler[w].stage \in Logged /\ handler[w].key = k
    BY <1>3, <2>2
  <2>3. CASE \E o \in orphans : o.key = k
    BY <1>2, <2>3 DEF WriteAheadInv
  <2> QED BY <1>1, <1>7, <2>1, <2>2, <2>3, EscapedFrom
<1> QED BY <1>1, <1>4, <1>5, <1>6, <1>7 DEF WriteAheadInv, WriteAheadFirst

LEMMA WriteAheadInvInit == Init => WriteAheadInv
<1> SUFFICES ASSUME Init PROVE WriteAheadInv
  OBVIOUS
<1>1. \A w \in Worker : handler[w].stage = "idle" /\ handler[w].writing = {}
  BY DEF Init, IdleHandler
<1>2. \A k \in Key : ~Escaped(k)
  BY SentinelAssumption DEF Init, Escaped
<1> QED BY <1>1, <1>2, TypeInit DEF Init, WriteAheadInv, WriteAheadFirst, Logged

\* With the durable log, whatever left the process has its row: the append
\* comes before everything else, and no crash, dropped handler or late
\* write of a region or of upstream gets ahead of it.
THEOREM WriteAhead ==
    ASSUME Backend = "Postgres"
    PROVE  Spec => []WriteAheadFirst
<1>1. WriteAheadInv => WriteAheadFirst
  BY DEF WriteAheadInv
<1>2. WriteAheadInv /\ [Next]_vars => WriteAheadInv'
  BY WriteAheadInvInductive
<1> QED BY <1>1, <1>2, WriteAheadInvInit, PTL DEF Spec

\* A key whose commit id a client holds has a commit id in the durable log.
SettledInv ==
    /\ WriteAheadInv
    /\ \A k \in Key : told[k] \cap CommitId # {} => wal[k] \in CommitId

LEMMA SettledInvInductive ==
    Backend = "Postgres" /\ SettledInv /\ [Next]_vars => SettledInv'
<1> SUFFICES ASSUME Backend = "Postgres", SettledInv, [Next]_vars PROVE SettledInv'
  OBVIOUS
<1>1. WriteAheadInv /\ TypeOK /\ WriteAheadInv'
  BY WriteAheadInvInductive DEF SettledInv, WriteAheadInv
<1>2. ASSUME NEW k \in Key, NEW c \in told'[k], c \in CommitId
      PROVE  wal'[k] \in CommitId
  <2>1. CASE wal[k] \in CommitId
    BY <1>1, <2>1, RowsKept
  <2>2. CASE c \in told[k]
    BY <1>2, <2>1, <2>2 DEF SettledInv
  <2>3. CASE c = AlreadyProcessed(k)
    BY <1>2, <2>1, <2>3, SentinelAssumption DEF AlreadyProcessed
  <2>4. CASE \E w \in Worker : /\ handler[w].stage = "mark" /\ handler[w].key = k
                               /\ wal'[k] = Marked(k, c)
    BY <1>1, <1>2, <2>4 DEF WriteAheadInv, Logged, Marked
  <2> QED BY <1>1, <1>2, <2>2, <2>3, <2>4, ToldFrom, SentinelAssumption
<1> QED BY <1>1, <1>2 DEF SettledInv

\* The duplicate check admits only keys the log does not answer for.
LEMMA AdmittedFrom ==
    ASSUME TypeOK, [Next]_vars, NEW v \in Worker,
           handler[v].stage = "check", handler'[v].stage = "append"
    PROVE  AlreadyProcessed(handler[v].key) = None
<1>0. handler \in [Worker -> HandlerState] /\ IdleHandler.stage = "idle"
  BY DEF TypeOK, HandlersTyped, IdleHandler
<1>1. ASSUME NEW w \in Worker, NEW a, Answer(w, a) PROVE FALSE
  BY <1>0, <1>1 DEF Answer
<1>2. ASSUME NEW w \in Worker, Check(w)
      PROVE  AlreadyProcessed(handler[v].key) = None
  BY <1>0, <1>1, <1>2 DEF Check, GoTo
<1>3. ASSUME NEW w \in Worker, handler[w].stage # "check" PROVE w # v
  BY <1>3
<1>4. CASE \E w \in Worker : Append(w)
  BY <1>0, <1>1, <1>4 DEF Append, GoTo
<1>5. CASE \E w \in Worker : Announce(w)
  BY <1>0, <1>5 DEF Announce
<1>6. CASE \E w \in Worker, r \in Region : RegionWrite(w, r)
  BY <1>0, <1>6 DEF RegionWrite
<1>7. CASE \E w \in Worker : Replicated(w)
  BY <1>0, <1>1, <1>7 DEF Replicated, GoTo
<1>8. CASE \E w \in Worker : ForwardOnce(w) \/ ForwardOk(w) \/ UpstreamCommit(w)
  BY <1>0, <1>8 DEF ForwardOnce, ForwardOk, GoTo, UpstreamCommit, Unanswered
<1>9. CASE \E w \in Worker : ForwardErr(w)
  BY <1>0, <1>1, <1>9 DEF ForwardErr
<1>10. CASE \E w \in Worker : Mark(w)
  BY <1>1, <1>10 DEF Mark
<1>11. CASE \E w \in Worker : Cancel(w)
  BY <1>0, <1>11 DEF Cancel
<1>12. CASE \E w \in Worker, k \in Key : Submit(w, k)
  BY <1>0, <1>12 DEF Submit, IdleHandler
<1>13. CASE Crash
  BY <1>0, <1>13 DEF Crash
<1>14. CASE UNCHANGED handler
  BY <1>14
<1> QED BY <1>2, <1>4, <1>5, <1>6, <1>7, <1>8, <1>9, <1>10, <1>11,
           <1>12, <1>13, <1>14
        DEF Next, HandlerStep, vars, OrphanWrite, TaskDone, StrayCommit

\* With the durable log, a key whose commit id a client holds is never
\* admitted to the pipeline again (the duplicate check of Ledger::commit).
THEOREM SettledStays ==
    ASSUME Backend = "Postgres"
    PROVE  Spec => SettledNeverReadmitted
<1>1. Init => SettledInv
  BY WriteAheadInvInit DEF Init, SettledInv
<1>2. SettledInv /\ [Next]_vars =>
        [\A w \in Worker :
           /\ handler[w].stage = "check"
           /\ told[handler[w].key] \cap CommitId # {}
           => handler'[w].stage # "append"]_vars
  <2> SUFFICES ASSUME SettledInv, [Next]_vars, NEW w \in Worker,
                      handler[w].stage = "check",
                      told[handler[w].key] \cap CommitId # {},
                      handler'[w].stage = "append"
               PROVE  FALSE
    OBVIOUS
  <2>1. TypeOK
    BY DEF SettledInv, WriteAheadInv
  <2>2. handler[w].key \in Key
    BY <2>1 DEF TypeOK, HandlersTyped
  <2>3. wal[handler[w].key] \in CommitId
    BY <2>2 DEF SettledInv
  <2>4. AlreadyProcessed(handler[w].key) = None
    BY <2>1, AdmittedFrom
  <2> QED BY <2>3, <2>4, SentinelAssumption DEF AlreadyProcessed
<1>3. SettledInv /\ [Next]_vars => SettledInv'
  BY SettledInvInductive
<1> QED BY <1>1, <1>2, <1>3, PTL DEF Spec, SettledNeverReadmitted

(***************************************************************************)
(* InMemoryWal, the production default: one answer per key.                *)
(***************************************************************************)

\* Upstream changes only by a commit.
LEMMA StoreFrom ==
    ASSUME TypeOK, [Next]_vars
    PROVE  \/ upstream' = upstream
           \/ told' = told /\ \E k \in Key, c \in CommitId : Commits(k, c)
<1>1. ASSUME NEW w \in Worker, UpstreamCommit(w)
      PROVE  told' = told /\ \E k \in Key, c \in CommitId : Commits(k, c)
  BY <1>1 DEF UpstreamCommit, Unanswered, TypeOK, HandlersTyped
<1>2. ASSUME NEW k \in Key, StrayCommit(k)
      PROVE  told' = told /\ \E c \in CommitId : Commits(k, c)
  BY <1>2 DEF StrayCommit
<1> QED
  BY <1>1, <1>2
     DEF Next, HandlerStep, vars, Submit, Check, Append, Announce, RegionWrite,
         Replicated, ForwardOnce, ForwardOk, ForwardErr, Mark, Cancel, OrphanWrite,
         TaskDone, Crash

\* No receipt lacks its commit id.
AllIdentified == \A k \in Key : Pending \notin told[k]

\* And upstream has a mutation at most once.
OneCommitInv ==
    /\ ReceiptInv
    /\ AllIdentified
    /\ \A c, d \in CommitId : upstream[c] # None /\ upstream[c] = upstream[d] => c = d

LEMMA OneCommitInvInductive ==
    ASSUME Backend = "InMemory", UpstreamDedups, OneCommitInv, [Next]_vars
    PROVE  OneCommitInv'
<1>1. TypeOK /\ ReceiptInv /\ ReceiptInv'
  BY ReceiptInvInductive DEF OneCommitInv, ReceiptInv
<1>2. ASSUME NEW k \in Key, Pending \in told'[k] PROVE FALSE
  <2>1. Pending \notin told[k]
    BY DEF OneCommitInv, AllIdentified
  <2>2. AlreadyProcessed(k) # Pending
    BY SentinelAssumption DEF AlreadyProcessed
  <2>3. \A w \in Worker : handler[w].stage = "mark" => handler[w].answer # Pending
    BY <1>1, SentinelAssumption DEF TypeOK, HandlersTyped
  <2> QED BY <1>1, <1>2, <2>1, <2>2, <2>3, ToldFrom, SentinelAssumption
<1>3. ASSUME NEW c \in CommitId, NEW d \in CommitId,
             upstream'[c] # None, upstream'[c] = upstream'[d]
      PROVE  c = d
  <2>1. CASE upstream' = upstream
    BY <1>3, <2>1 DEF OneCommitInv
  <2>2. ASSUME NEW k \in Key, NEW e \in CommitId, Commits(k, e), upstream' # upstream
        PROVE  c = d
    <3>1. /\ \A f \in CommitId : upstream[f] # k
          /\ upstream' = [upstream EXCEPT ![e] = k]
      BY <2>2 DEF Commits
    <3> QED BY <1>1, <1>3, <3>1 DEF OneCommitInv, TypeOK
  <2> QED BY <1>1, <2>1, <2>2, StoreFrom
<1> QED BY <1>1, <1>2, <1>3 DEF OneCommitInv, AllIdentified

LEMMA OneCommitInvInit == Init => OneCommitInv
BY TypeInit, SentinelAssumption
   DEF Init, OneCommitInv, ReceiptInv, ReceiptIsStored, AllIdentified, IdleHandler

\* On the production log, over an upstream that deduplicates, every receipt
\* ever returned for a key is the same one, and it carries a commit id.
THEOREM OneReceipt ==
    ASSUME Backend = "InMemory", UpstreamDedups
    PROVE  Spec => [](AnswersAgree /\ NoSilentSuccess)
<1>1. OneCommitInv => AnswersAgree /\ NoSilentSuccess
  <2> SUFFICES ASSUME OneCommitInv, NEW k \in Key,
                      NEW a \in told[k] \cap Receipt, NEW b \in told[k] \cap Receipt
               PROVE  a = b
    BY DEF OneCommitInv, AnswersAgree, AllIdentified, NoSilentSuccess
  <2>1. a \in CommitId /\ b \in CommitId
    BY DEF OneCommitInv, AllIdentified, Receipt
  <2>2. upstream[a] = k /\ upstream[b] = k
    BY <2>1 DEF OneCommitInv, ReceiptInv, ReceiptIsStored
  <2> QED BY <2>1, <2>2, SentinelAssumption DEF OneCommitInv
<1>2. OneCommitInv /\ [Next]_vars => OneCommitInv'
  BY OneCommitInvInductive
<1> QED BY <1>1, <1>2, OneCommitInvInit, PTL DEF Spec

(***************************************************************************)
(* What reached upstream was first replicated and audited.                 *)
(***************************************************************************)

\* The stages of a handler that has announced its mutation, and of one whose
\* regions have acknowledged it.
Announced == {"replicate", "forward", "await", "mark"}
Acknowledged == {"forward", "await", "mark"}

\* A handler that has announced did so before, or announces now.
LEMMA AnnouncedFrom ==
    ASSUME TypeOK, [Next]_vars, NEW v \in Worker, handler'[v].stage \in Announced
    PROVE  \/ /\ handler[v].stage \in Announced
              /\ handler'[v].key = handler[v].key
           \/ /\ Announce(v)
              /\ handler'[v].key = handler[v].key
<1>0. handler \in [Worker -> HandlerState] /\ IdleHandler.stage = "idle"
  BY DEF TypeOK, HandlersTyped, IdleHandler
<1>1. ASSUME NEW w \in Worker, NEW a, Answer(w, a)
      PROVE  handler'[v] = handler[v]
  BY <1>0, <1>1 DEF Answer, Announced
<1>2. CASE \E w \in Worker : Check(w)
  BY <1>0, <1>1, <1>2 DEF Check, GoTo, HandlerState, Announced
<1>3. CASE \E w \in Worker : Append(w)
  BY <1>0, <1>1, <1>3 DEF Append, GoTo, HandlerState, Announced
<1>4. ASSUME NEW w \in Worker, Announce(w)
      PROVE  \/ handler'[v] = handler[v]
             \/ Announce(v) /\ handler'[v].key = handler[v].key
  BY <1>0, <1>4 DEF Announce, HandlerState
<1>5. CASE \E w \in Worker, r \in Region : RegionWrite(w, r)
  BY <1>0, <1>5 DEF RegionWrite, HandlerState, Announced
<1>6. CASE \E w \in Worker : Replicated(w)
  BY <1>0, <1>1, <1>6 DEF Replicated, GoTo, HandlerState, Announced
<1>7. CASE \E w \in Worker : ForwardOnce(w)
  BY <1>0, <1>7 DEF ForwardOnce, HandlerState, Announced
<1>8. CASE \E w \in Worker : ForwardOk(w)
  BY <1>0, <1>8 DEF ForwardOk, GoTo, HandlerState, Announced
<1>9. CASE \E w \in Worker : ForwardErr(w)
  BY <1>0, <1>1, <1>9 DEF ForwardErr, HandlerState, Announced
<1>10. CASE \E w \in Worker : Mark(w)
  BY <1>1, <1>10 DEF Mark
<1>11. CASE \E w \in Worker : Cancel(w)
  BY <1>0, <1>11 DEF Cancel, Announced
<1>12. CASE \E w \in Worker : UpstreamCommit(w)
  BY <1>0, <1>12 DEF UpstreamCommit, HandlerState, Announced
<1>13. CASE \E w \in Worker, k \in Key : Submit(w, k)
  BY <1>0, <1>13 DEF Submit, IdleHandler, Announced
<1>14. CASE Crash
  BY <1>0, <1>14 DEF Crash, Announced
<1>15. CASE UNCHANGED handler
  BY <1>15
<1> QED BY <1>2, <1>3, <1>4, <1>5, <1>6, <1>7, <1>8, <1>9, <1>10, <1>11,
           <1>12, <1>13, <1>14, <1>15
        DEF Next, HandlerStep, vars, OrphanWrite, TaskDone, StrayCommit

\* A handler passes its regions only with enough acknowledgements.
LEMMA AcknowledgedFrom ==
    ASSUME TypeOK, [Next]_vars, NEW v \in Worker, handler'[v].stage \in Acknowledged
    PROVE  /\ handler'[v].key = handler[v].key
           /\ handler[v].stage \in Announced
           /\ \/ handler[v].stage \in Acknowledged
              \/ Cardinality(handler[v].acked) >= MinAcks
<1>0. handler \in [Worker -> HandlerState] /\ IdleHandler.stage = "idle"
  BY DEF TypeOK, HandlersTyped, IdleHandler
<1>1. ASSUME NEW w \in Worker, NEW a, Answer(w, a)
      PROVE  handler'[v] = handler[v]
  BY <1>0, <1>1 DEF Answer, Acknowledged
<1>2. CASE \E w \in Worker : Check(w)
  BY <1>0, <1>1, <1>2 DEF Check, GoTo, HandlerState, Acknowledged, Announced
<1>3. CASE \E w \in Worker : Append(w)
  BY <1>0, <1>1, <1>3 DEF Append, GoTo, HandlerState, Acknowledged, Announced
<1>4. CASE \E w \in Worker : Announce(w)
  BY <1>0, <1>4 DEF Announce, HandlerState, Acknowledged, Announced
<1>5. CASE \E w \in Worker, r \in Region : RegionWrite(w, r)
  BY <1>0, <1>5 DEF RegionWrite, HandlerState, Acknowledged, Announced
<1>6. CASE \E w \in Worker : Replicated(w)
  BY <1>0, <1>1, <1>6 DEF Replicated, GoTo, HandlerState, Acknowledged, Announced
<1>7. CASE \E w \in Worker : ForwardOnce(w)
  BY <1>0, <1>7 DEF ForwardOnce, HandlerState, Acknowledged, Announced
<1>8. CASE \E w \in Worker : ForwardOk(w)
  BY <1>0, <1>8 DEF ForwardOk, GoTo, HandlerState, Acknowledged, Announced
<1>9. CASE \E w \in Worker : ForwardErr(w)
  BY <1>0, <1>1, <1>9 DEF ForwardErr, HandlerState, Acknowledged, Announced
<1>10. CASE \E w \in Worker : Mark(w)
  BY <1>1, <1>10 DEF Mark, Acknowledged, Announced
<1>11. CASE \E w \in Worker : Cancel(w)
  BY <1>0, <1>11 DEF Cancel, Acknowledged, Announced
<1>12. CASE \E w \in Worker : UpstreamCommit(w)
  BY <1>0, <1>12 DEF UpstreamCommit, HandlerState, Acknowledged, Announced
<1>13. CASE \E w \in Worker, k \in Key : Submit(w, k)
  BY <1>0, <1>13 DEF Submit, IdleHandler, Acknowledged, Announced
<1>14. CASE Crash
  BY <1>0, <1>14 DEF Crash, Acknowledged
<1>15. CASE UNCHANGED handler
  BY <1>15 DEF Acknowledged, Announced
<1> QED BY <1>2, <1>3, <1>4, <1>5, <1>6, <1>7, <1>8, <1>9, <1>10, <1>11,
           <1>12, <1>13, <1>14, <1>15
        DEF Next, HandlerStep, vars, OrphanWrite, TaskDone, StrayCommit

\* An acknowledgement a handler holds is one it had for the same mutation,
\* or of a region that has its row.
LEMMA AckedFrom ==
    ASSUME TypeOK, [Next]_vars, NEW v \in Worker, NEW r \in handler'[v].acked
    PROVE  \/ r \in handler[v].acked /\ handler'[v].key = handler[v].key
           \/ r \in Region /\ handler'[v].key \in regions'[r]
<1>0. /\ handler \in [Worker -> HandlerState]
      /\ IdleHandler.stage = "idle" /\ IdleHandler.acked = {}
  BY DEF TypeOK, HandlersTyped, IdleHandler
<1>1. ASSUME NEW w \in Worker, NEW a, Answer(w, a)
      PROVE  handler'[v] = handler[v]
  BY <1>0, <1>1 DEF Answer
<1>2. ASSUME NEW w \in Worker, NEW s, GoTo(w, s)
      PROVE  r \in handler[v].acked /\ handler'[v].key = handler[v].key
  BY <1>0, <1>2 DEF GoTo, HandlerState
<1>3. CASE \E w \in Worker : Check(w)
  BY <1>1, <1>2, <1>3 DEF Check
<1>4. CASE \E w \in Worker : Append(w)
  BY <1>1, <1>2, <1>4 DEF Append
<1>5. CASE \E w \in Worker : Announce(w)
  BY <1>0, <1>5 DEF Announce, HandlerState
<1>6. ASSUME NEW w \in Worker, NEW q \in Region, RegionWrite(w, q)
      PROVE  \/ r \in handler[v].acked /\ handler'[v].key = handler[v].key
             \/ r \in Region /\ handler'[v].key \in regions'[r]
  <2>1. PICK ok \in RegionOutcome :
          /\ regions' = IF ok
                        THEN [regions EXCEPT ![q] = @ \cup {handler[w].key}]
                        ELSE regions
          /\ handler' = [handler EXCEPT
                           ![w].writing = @ \ {q},
                           ![w].acked = IF ok THEN @ \cup {q} ELSE @]
    BY <1>6 DEF RegionWrite
  <2>2. handler'[v].key = handler[v].key
    BY <1>0, <2>1 DEF HandlerState
  <2>3. CASE r \notin handler[v].acked
    <3>1. w = v /\ r = q /\ ok
      BY <1>0, <2>1, <2>3 DEF HandlerState
    <3>2. handler[v].key \in regions'[q]
      BY <2>1, <3>1 DEF TypeOK
    <3> QED BY <2>2, <3>1, <3>2
  <2> QED BY <2>2, <2>3
<1>7. CASE \E w \in Worker : Replicated(w)
  BY <1>1, <1>2, <1>7 DEF Replicated
<1>8. CASE \E w \in Worker : ForwardOnce(w)
  BY <1>0, <1>8 DEF ForwardOnce, HandlerState
<1>9. CASE \E w \in Worker : ForwardOk(w)
  BY <1>2, <1>9 DEF ForwardOk
<1>10. CASE \E w \in Worker : ForwardErr(w)
  BY <1>0, <1>1, <1>10 DEF ForwardErr, HandlerState
<1>11. CASE \E w \in Worker : Mark(w)
  BY <1>1, <1>11 DEF Mark
<1>12. CASE \E w \in Worker : Cancel(w)
  BY <1>0, <1>12 DEF Cancel
<1>13. CASE \E w \in Worker : UpstreamCommit(w)
  BY <1>0, <1>13 DEF UpstreamCommit, HandlerState
<1>14. CASE \E w \in Worker, k \in Key : Submit(w, k)
  BY <1>0, <1>14 DEF Submit, IdleHandler
<1>15. CASE Crash
  BY <1>0, <1>15 DEF Crash
<1>16. CASE UNCHANGED handler
  BY <1>16
<1> QED BY <1>3, <1>4, <1>5, <1>6, <1>7, <1>8, <1>9, <1>10, <1>11,
           <1>12, <1>13, <1>14, <1>15, <1>16
        DEF Next, HandlerStep, vars, OrphanWrite, TaskDone, StrayCommit

\* Upstream may still process mutation k, or has it.
Sent(k) == strays[k] > 0 \/ \E c \in CommitId : upstream[c] = k

\* A mutation newly sent is that of a handler awaiting upstream's reply.
LEMMA SentFrom ==
    ASSUME TypeOK, [Next]_vars, NEW k \in Key, Sent(k)', ~Sent(k)
    PROVE  \E w \in Worker : handler[w].stage = "await" /\ handler[w].key = k
<1>1. ASSUME NEW w \in Worker, UpstreamCommit(w)
      PROVE  handler[w].stage = "await" /\ handler[w].key = k
  BY <1>1 DEF UpstreamCommit, Unanswered, Commits, Sent, TypeOK
<1>2. ASSUME NEW j \in Key, StrayCommit(j) PROVE FALSE
  BY <1>2 DEF StrayCommit, Commits, Sent, TypeOK
<1>3. ASSUME NEW lost \in SUBSET {w \in Worker : Unanswered(w)},
             strays' = Strayed(lost), upstream' = upstream
      PROVE  \E w \in Worker : handler[w].stage = "await" /\ handler[w].key = k
  <2>1. strays'[k] > 0 /\ ~(strays[k] > 0)
    BY <1>3 DEF Sent
  <2> QED BY <1>3, <2>1, StrayedFrom DEF Unanswered
<1>4. ASSUME NEW w \in Worker, ForwardErr(w) \/ Cancel(w)
      PROVE  \E v \in Worker : handler[v].stage = "await" /\ handler[v].key = k
  <2>1. \E lost \in SUBSET {v \in {w} : Unanswered(v)} : strays' = Strayed(lost)
    BY <1>4 DEF ForwardErr, Cancel
  <2> QED BY <1>3, <1>4, <2>1 DEF ForwardErr, Cancel
<1>5. CASE Crash
  BY <1>3, <1>5 DEF Crash
<1>6. CASE UNCHANGED <<strays, upstream>>
  BY <1>6 DEF Sent
<1> QED
  BY <1>1, <1>2, <1>4, <1>5, <1>6
     DEF Next, HandlerStep, vars, Submit, Check, Append, Announce, RegionWrite,
         Replicated, ForwardOnce, ForwardOk, Mark, OrphanWrite, TaskDone

\* A region never loses a row, and the audit file never a record.
LEMMA CopiesGrow ==
    ASSUME TypeOK, [Next]_vars
    PROVE  /\ \A r \in Region : regions[r] \subseteq regions'[r]
           /\ \A k \in Key : audit'[k] >= audit[k]
<1>1. ASSUME NEW w \in Worker, NEW q \in Region, RegionWrite(w, q)
      PROVE  \A r \in Region : regions[r] \subseteq regions'[r]
  BY <1>1 DEF RegionWrite, TypeOK
<1>2. ASSUME NEW o \in orphans, OrphanWrite(o)
      PROVE  \A r \in Region : regions[r] \subseteq regions'[r]
  BY <1>2 DEF OrphanWrite, TypeOK
<1>3. ASSUME NEW w \in Worker, Announce(w)
      PROVE  \A k \in Key : audit'[k] >= audit[k]
  BY <1>3 DEF Announce, TypeOK, HandlersTyped
<1>4. UNCHANGED audit => \A k \in Key : audit'[k] >= audit[k]
  BY DEF TypeOK
<1>5. UNCHANGED regions => \A r \in Region : regions[r] \subseteq regions'[r]
  OBVIOUS
<1>6. ASSUME NEW w \in Worker, HandlerStep(w)
      PROVE  /\ UNCHANGED regions \/ \E r \in Region : RegionWrite(w, r)
             /\ UNCHANGED audit \/ Announce(w)
  BY <1>6 DEF HandlerStep, Check, Append, Announce, RegionWrite, Replicated,
              ForwardOnce, ForwardOk, Mark
<1>7. /\ \/ UNCHANGED regions
         \/ \E w \in Worker, r \in Region : RegionWrite(w, r)
         \/ \E o \in orphans : OrphanWrite(o)
      /\ UNCHANGED audit \/ \E w \in Worker : Announce(w)
  BY <1>6 DEF Next, vars, Submit, ForwardErr, Cancel, UpstreamCommit, OrphanWrite,
              TaskDone, StrayCommit, Crash
<1> QED BY <1>1, <1>2, <1>3, <1>4, <1>5, <1>7

\* The regions that have a row for mutation k, and whether they are enough.
Holders(k) == {r \in Region : k \in regions[r]}

Replicas(k) == Cardinality(Holders(k)) >= MinAcks

\* Enough regions stay enough.
LEMMA ReplicasStay ==
    ASSUME TypeOK, [Next]_vars, NEW k \in Key, Replicas(k)
    PROVE  Replicas(k)'
<1>1. Holders(k) \subseteq Holders(k)'
  BY CopiesGrow DEF Holders
<1>2. IsFiniteSet(Holders(k)') /\ IsFiniteSet(Holders(k))
  BY ReplicatorAssumption, FS_Subset DEF Holders
<1>3. Cardinality(Holders(k)) <= Cardinality(Holders(k)')
  BY <1>1, <1>2, FS_Subset
<1>4. /\ Cardinality(Holders(k)) \in Int /\ Cardinality(Holders(k)') \in Int
      /\ MinAcks \in Int
  BY <1>2, FS_CardinalityType, ReplicatorAssumption
<1> QED BY <1>3, <1>4 DEF Replicas

\* Acknowledgements are rows; a handler past its regions, and every mutation
\* sent to upstream, has its rows in enough regions. RegionsBeforeStore
\* alone is not inductive: upstream learns of a mutation from a handler, and
\* later from the request such a handler left behind.
ReplicaInv ==
    /\ TypeOK
    /\ \A w \in Worker, k \in Key :
          handler[w].key = k =>
             /\ handler[w].acked \subseteq Holders(k)
             /\ handler[w].stage \in Acknowledged => Replicas(k)
    /\ \A k \in Key : Sent(k) => Replicas(k)

LEMMA ReplicaInvInductive == ReplicaInv /\ [Next]_vars => ReplicaInv'
<1> SUFFICES ASSUME ReplicaInv, [Next]_vars PROVE ReplicaInv'
  OBVIOUS
<1>1. TypeOK /\ TypeOK'
  BY TypeStep DEF ReplicaInv
<1>2. \A k \in Key : Replicas(k) => Replicas(k)'
  BY <1>1, ReplicasStay
<1>3. ASSUME NEW v \in Worker, NEW k \in Key, handler'[v].key = k,
             NEW r \in handler'[v].acked
      PROVE  r \in Holders(k)'
  <2>1. CASE r \in handler[v].acked /\ handler'[v].key = handler[v].key
    <3>1. r \in Region /\ k \in regions[r]
      BY <1>3, <2>1 DEF ReplicaInv, Holders
    <3> QED BY <1>1, <3>1, CopiesGrow DEF Holders
  <2>2. CASE r \in Region /\ handler'[v].key \in regions'[r]
    BY <1>3, <2>2 DEF Holders
  <2> QED BY <1>1, <2>1, <2>2, AckedFrom
<1>4. ASSUME NEW v \in Worker, NEW k \in Key, handler'[v].key = k,
             handler'[v].stage \in Acknowledged
      PROVE  Replicas(k)'
  <2>1. handler[v].key = k
    BY <1>1, <1>4, AcknowledgedFrom
  <2>2. CASE handler[v].stage \in Acknowledged
    BY <1>2, <2>1, <2>2 DEF ReplicaInv
  <2>3. CASE Cardinality(handler[v].acked) >= MinAcks
    <3>1. handler[v].acked \subseteq Holders(k)
      BY <2>1 DEF ReplicaInv
    <3>2. IsFiniteSet(Holders(k))
      BY ReplicatorAssumption, FS_Subset DEF Holders
    <3>3. /\ IsFiniteSet(handler[v].acked)
          /\ Cardinality(handler[v].acked) <= Cardinality(Holders(k))
      BY <3>1, <3>2, FS_Subset
    <3>4. /\ Cardinality(handler[v].acked) \in Int
          /\ Cardinality(Holders(k)) \in Int /\ MinAcks \in Int
      BY <3>2, <3>3, FS_CardinalityType, ReplicatorAssumption
    <3>5. Replicas(k)
      BY <2>3, <3>3, <3>4 DEF Replicas
    <3> QED BY <1>2, <3>5
  <2> QED BY <1>1, <1>4, <2>2, <2>3, AcknowledgedFrom
<1>5. ASSUME NEW k \in Key, Sent(k)' PROVE Replicas(k)'
  <2>1. CASE Sent(k)
    BY <1>2, <2>1 DEF ReplicaInv
  <2>2. CASE ~Sent(k)
    <3>1. PICK w \in Worker : handler[w].stage = "await" /\ handler[w].key = k
      BY <1>1, <1>5, <2>2, SentFrom
    <3> QED BY <1>2, <3>1 DEF ReplicaInv, Acknowledged
  <2> QED BY <2>1, <2>2
<1> QED BY <1>1, <1>3, <1>4, <1>5 DEF ReplicaInv

\* Whatever upstream has was first written to min_acks regions, whatever the
\* handlers, crashes and late writes do (multi_region.rs).
THEOREM ReplicatedFirst == Spec => []RegionsBeforeStore
<1>1. Init => ReplicaInv
  <2> SUFFICES ASSUME Init PROVE ReplicaInv
    OBVIOUS
  <2>1. \A w \in Worker : handler[w].stage = "idle" /\ handler[w].acked = {}
    BY DEF Init, IdleHandler
  <2>2. \A k \in Key : ~Sent(k)
    BY SentinelAssumption DEF Init, Sent
  <2> QED BY <2>1, <2>2, TypeInit DEF ReplicaInv, Acknowledged
<1>2. ReplicaInv => RegionsBeforeStore
  BY DEF ReplicaInv, RegionsBeforeStore, Replicas, Holders, Sent, TypeOK
<1> QED BY <1>1, <1>2, ReplicaInvInductive, PTL DEF Spec

\* A handler that has announced, and every mutation sent to upstream, has a
\* record in the audit file.
AuditInv ==
    /\ TypeOK
    /\ \A w \in Worker : handler[w].stage \in Announced => audit[handler[w].key] > 0
    /\ \A k \in Key : Sent(k) => audit[k] > 0

LEMMA AuditInvInductive ==
    ASSUME AuditOutcome = {TRUE}, AuditInv, [Next]_vars
    PROVE  AuditInv'
<1>1. TypeOK /\ TypeOK'
  BY TypeStep DEF AuditInv
<1>2. \A k \in Key : audit[k] > 0 => audit'[k] > 0
  BY <1>1, CopiesGrow DEF TypeOK
<1>3. ASSUME NEW v \in Worker, handler'[v].stage \in Announced
      PROVE  audit'[handler'[v].key] > 0
  <2>1. CASE handler[v].stage \in Announced /\ handler'[v].key = handler[v].key
    <3>1. handler[v].key \in Key
      BY <1>1, <2>1 DEF TypeOK, HandlersTyped, Announced
    <3> QED BY <1>2, <2>1, <3>1 DEF AuditInv
  <2>2. CASE Announce(v) /\ handler'[v].key = handler[v].key
    <3>1. handler[v].key \in Key
      BY <1>1, <2>2 DEF TypeOK, HandlersTyped, Announce
    <3>2. audit' = [audit EXCEPT ![handler[v].key] = @ + 1]
      BY <2>2 DEF Announce
    <3> QED BY <1>1, <2>2, <3>1, <3>2 DEF TypeOK
  <2> QED BY <1>1, <1>3, <2>1, <2>2, AnnouncedFrom
<1>4. ASSUME NEW k \in Key, Sent(k)' PROVE audit'[k] > 0
  <2>1. CASE Sent(k)
    BY <1>2, <2>1 DEF AuditInv
  <2>2. CASE ~Sent(k)
    <3>1. PICK w \in Worker : handler[w].stage = "await" /\ handler[w].key = k
      BY <1>1, <1>4, <2>2, SentFrom
    <3> QED BY <1>2, <3>1 DEF AuditInv, Announced
  <2> QED BY <2>1, <2>2
<1> QED BY <1>1, <1>3, <1>4 DEF AuditInv

\* As long as the audit file can be written, whatever upstream has is in it
\* (the append comes before every way to upstream, and is never undone).
THEOREM AuditedFirst ==
    ASSUME AuditOutcome = {TRUE}
    PROVE  Spec => []AuditCoversStore
<1>1. Init => AuditInv
  <2> SUFFICES ASSUME Init PROVE AuditInv
    OBVIOUS
  <2>1. \A w \in Worker : handler[w].stage = "idle"
    BY DEF Init, IdleHandler
  <2>2. \A k \in Key : ~Sent(k)
    BY SentinelAssumption DEF Init, Sent
  <2> QED BY <2>1, <2>2, TypeInit DEF AuditInv, Announced
<1>2. AuditInv => AuditCoversStore
  BY DEF AuditInv, AuditCoversStore, Sent, TypeOK
<1>3. AuditInv /\ [Next]_vars => AuditInv'
  BY AuditInvInductive
<1> QED BY <1>1, <1>2, <1>3, PTL DEF Spec
=============================================================================
