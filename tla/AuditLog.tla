------------------------------ MODULE AuditLog ------------------------------
(***************************************************************************)
(* FileAuditLog of audit_log.rs: the file Ledger::commit appends one line  *)
(* to per attempt, the scan that verifies every line, and the              *)
(* reconciliation with the committed keys. A line is "checksum json" and   *)
(* its end; write_all puts it there bit by bit, so that an error or a      *)
(* crash leaves a part of it. What a commit does besides is in Ledger.     *)
(***************************************************************************)
EXTENDS Integers, Sequences, FiniteSets

CONSTANTS
    Task,           \* commits under way
    Key,            \* idempotency keys
    MaxAttempts,    \* bound: commits of one key
    MaxCuts         \* bound: appends that end early

\* What the constants must be.
Parameters == MaxAttempts \in Nat \ {0} /\ MaxCuts \in Nat

\* What write_all has to put into the file for a line. Without its end a line
\* verifies all the same, as long as nothing follows it.
Parts == <<"head", "tail", "end">>

VARIABLES
    file,           \* lines; a line is a sequence of parts
    ended,          \* does the file end with a line end?
    lock,           \* is FileAuditLog.lock taken?
    task,           \* per task: its stage, key, and the next part to write
    attempts,       \* history: commits begun, per key
    acked,          \* history: appends that returned Ok, per key
    committed,      \* keys the WAL holds as committed
    cuts            \* bound counter: appends that ended early

vars == <<file, ended, lock, task, attempts, acked, committed, cuts>>

Idle == [stage |-> "idle", key |-> "", next |-> 1]

Init ==
    /\ file = <<>> /\ ended = TRUE /\ lock = FALSE
    /\ task = [t \in Task |-> Idle]
    /\ attempts = [k \in Key |-> 0] /\ acked = [k \in Key |-> 0]
    /\ committed = {} /\ cuts = 0

\* A commit of a key that is not committed yet, pending or not.
Begin(t) ==
    /\ task[t].stage = "idle"
    /\ \E k \in Key \ committed :
          /\ attempts[k] < MaxAttempts
          /\ task' = [task EXCEPT ![t] = [stage |-> "append", key |-> k, next |-> 1]]
          /\ attempts' = [attempts EXCEPT ![k] = @ + 1]
    /\ UNCHANGED <<file, ended, lock, acked, committed, cuts>>

\* Mutant: append takes no lock.
LockNot(t) ==
    /\ task[t].stage = "append"
    /\ task' = [task EXCEPT ![t].stage = "write"]
    /\ UNCHANGED <<file, ended, lock, attempts, acked, committed, cuts>>

Lock(t) ==
    /\ task[t].stage = "append" /\ ~lock
    /\ lock' = TRUE
    /\ task' = [task EXCEPT ![t].stage = "write"]
    /\ UNCHANGED <<file, ended, attempts, acked, committed, cuts>>

\* The file is opened to append: the bytes go where it ends now.
Write(t) ==
    LET part == Parts[task[t].next]
        piece == [key |-> task[t].key, part |-> part]
    IN  /\ task[t].stage = "write" /\ task[t].next < Len(Parts)
        /\ task' = [task EXCEPT ![t].next = @ + 1]
        /\ file' = IF ended THEN Append(file, <<piece>>)
                   ELSE [file EXCEPT ![Len(file)] = Append(@, piece)]
        /\ ended' = FALSE
        /\ UNCHANGED <<lock, attempts, acked, committed, cuts>>

\* The line end, then sync_all, whose failure takes nothing back.
WriteEnd(t) ==
    /\ task[t].stage = "write" /\ task[t].next = Len(Parts)
    /\ ended' = TRUE /\ lock' = FALSE
    /\ task' = [task EXCEPT ![t].stage = "commit"]
    /\ acked' \in {acked, [acked EXCEPT ![task[t].key] = @ + 1]}
    /\ UNCHANGED <<file, attempts, committed, cuts>>

\* An error of open or write: the commit goes on without its audit record.
Fail(t) ==
    /\ task[t].stage = "write" /\ cuts < MaxCuts
    /\ lock' = FALSE
    /\ task' = [task EXCEPT ![t].stage = "commit"]
    /\ cuts' = cuts + 1
    /\ UNCHANGED <<file, ended, attempts, acked, committed>>

\* The rest of the commit: it succeeds, or fails and may be tried again.
Commit(t) ==
    /\ task[t].stage = "commit"
    /\ committed' \in {committed, committed \cup {task[t].key}}
    /\ task' = [task EXCEPT ![t] = Idle]
    /\ UNCHANGED <<file, ended, lock, attempts, acked, cuts>>

\* The process is killed; a line may be left cut.
Crash ==
    /\ cuts < MaxCuts /\ \E t \in Task : task[t].stage # "idle"
    /\ task' = [t \in Task |-> Idle] /\ lock' = FALSE /\ cuts' = cuts + 1
    /\ UNCHANGED <<file, ended, attempts, acked, committed>>

Next ==
    \/ Crash
    \/ \E t \in Task : Begin(t) \/ Lock(t) \/ Write(t) \/ WriteEnd(t) \/ Fail(t) \/ Commit(t)

-----------------------------------------------------------------------------
\* Does the checksum fit? Only if the line is one record, and all of it.
Verifies(line) ==
    /\ Len(line) = 2 /\ line[1].key = line[2].key
    /\ line[1].part = "head" /\ line[2].part = "tail"

\* Mutant: a line that does not verify is passed over.
ScanSkipping ==
    LET good == SelectSeq(file, Verifies)
    IN  [ok |-> TRUE, keys |-> [i \in 1..Len(good) |-> good[i][1].key]]

\* scan_and_verify, which has the lock: the first bad line ends it.
Scan ==
    IF \A i \in 1..Len(file) : Verifies(file[i])
    THEN [ok |-> TRUE, keys |-> [i \in 1..Len(file) |-> file[i][1].key]]
    ELSE [ok |-> FALSE, keys |-> <<>>]

Count(k) == Cardinality({i \in 1..Len(Scan.keys) : Scan.keys[i] = k})

\* Mutant: one record is enough.
DuplicateOnce == {k \in Key : Count(k) >= 1}

\* reconcile's duplicate_in_audit_log.
Duplicate == {k \in Key : Count(k) > 1}

-----------------------------------------------------------------------------
TypeOK ==
    /\ file \in Seq(Seq([key : Key, part : {"head", "tail"}]))
    /\ ended \in BOOLEAN /\ lock \in BOOLEAN
    /\ task \in [Task -> [stage : {"idle", "append", "write", "commit"},
                          key : Key \cup {""}, next : 1..Len(Parts)]]
    /\ attempts \in [Key -> 0..MaxAttempts] /\ acked \in [Key -> 0..MaxAttempts]
    /\ committed \subseteq Key /\ cuts \in 0..MaxCuts

\* A log that verifies is complete: every append that returned Ok is in it. A
\* record glued to a cut line must not go missing without a word.
VerifiedIsComplete == ~lock /\ Scan.ok => \A k \in Key : Count(k) >= acked[k]

\* A log fails to verify only if some append was cut short: commits that append
\* at the same time do not garble each other's lines.
FailsOnlyAfterCut == ~lock /\ ~Scan.ok => cuts > 0

\* A key that reconcile calls a duplicate was committed to more than once by a
\* client that tried again, never by one attempt.
DuplicateMeansRetried == ~lock => \A k \in Duplicate : attempts[k] > 1
=============================================================================
