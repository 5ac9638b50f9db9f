------------------------------- MODULE Ledger -------------------------------
(***************************************************************************)
(* The write pipeline of open-web-server-ledger: Ledger::commit, run by    *)
(* concurrent HTTP handlers (Api/GrantItem and Api/Charge) over one shared *)
(* write-ahead log, the synchronous regions, the independent audit log and *)
(* the upstream open-runo / aruaru-db, which issues the commit ids.        *)
(*                                                                         *)
(* One action per await of Ledger::commit: between two of them another     *)
(* handler may run, the client may disconnect (hyper then drops the        *)
(* handler's future) or the process may die.                               *)
(*                                                                         *)
(* Simplifications:                                                        *)
(*  - a mutation is its idempotency key: by the contract of                *)
(*    core::IdempotencyKey a client never reuses a key for another payload;*)
(*  - time is left out: the sleep between two attempts is the gap between  *)
(*    ForwardErr and ForwardOnce;                                          *)
(*  - upstream is not part of the repository: it is modelled from the      *)
(*    replies forward_once accepts (UpstreamCommit, StrayCommit).          *)
(***************************************************************************)
EXTENDS Naturals, FiniteSets

CONSTANTS
    Key,            \* idempotency keys
    CommitId,       \* commit ids upstream can issue (bounds its log)
    Worker,         \* concurrently running handlers
    Region,         \* regions of the MultiRegionReplicator, {} when it is off
    MinAcks,        \* MultiRegionReplicator.min_acks
    MaxRetries,     \* LedgerConfig.max_retries
    Backend,        \* which WriteAheadLog: "InMemory" or "Postgres"
    WalOutcome,     \* what a WAL call may do: "ok", "fail", "unacked"
    RegionOutcome,  \* whether a region write may succeed: subset of BOOLEAN
    AuditOutcome,   \* whether an audit append may succeed: subset of BOOLEAN
    Auxiliary,      \* fire-and-forget paths enabled: subset of {"udp", "mail"}
    UpstreamDedups, \* does upstream answer a known key with its first commit id?
    MaxRequests,    \* bound: requests the clients send in all
    MaxCrashes,     \* bound: process crashes
    None,           \* Rust's Option::None: no row, no commit id, no receipt
    Pending,        \* a WAL row, or a receipt, without a commit id
    Refused         \* the handler answered 409 Conflict

ASSUME BoundsAssumption ==
    /\ MaxRetries \in Nat /\ MaxRequests \in Nat /\ MaxCrashes \in Nat
    /\ IsFiniteSet(Worker)

ASSUME ReplicatorAssumption ==  \* with_min_acks clamps to regions.len()
    IsFiniteSet(Region) /\ MinAcks \in 0..Cardinality(Region)

ASSUME WalAssumption ==         \* InMemoryWal cannot fail
    /\ Backend \in {"InMemory", "Postgres"}
    /\ WalOutcome \subseteq {"ok", "fail", "unacked"}
    /\ Backend = "InMemory" => WalOutcome = {"ok"}

ASSUME OutcomeAssumption ==
    /\ RegionOutcome \subseteq BOOLEAN /\ AuditOutcome \subseteq BOOLEAN
    /\ Auxiliary \subseteq {"udp", "mail"} /\ UpstreamDedups \in BOOLEAN

ASSUME SentinelAssumption ==
    /\ None \notin Key /\ None \notin CommitId
    /\ Pending \notin CommitId /\ Refused \notin CommitId
    /\ None # Pending /\ None # Refused /\ Pending # Refused

VARIABLES
    wal,        \* [Key -> None, Pending or the recorded commit id]
    handler,    \* [Worker -> the local state of its call of commit]
    regions,    \* [Region -> keys with a row in region_mutations]
    orphans,    \* region writes whose handler was dropped, still running
    audit,      \* [Key -> records in the audit file]
    tasks,      \* fire-and-forget tasks spawned and still running
    delivered,  \* auxiliary messages that reached their destination
    upstream,   \* [CommitId -> the key committed under it, or None]
    strays,     \* [Key -> requests upstream may still process, nobody waiting]
    told,       \* history: [Key -> the answers handlers returned]
    sent,       \* bound counter: requests sent
    crashes     \* bound counter: crashes

vars == <<wal, handler, regions, orphans, audit, tasks, delivered,
          upstream, strays, told, sent, crashes>>

-----------------------------------------------------------------------------

Stage == {"idle", "check", "append", "announce", "replicate",
          "forward", "await", "mark"}

HandlerState ==
    [stage : Stage, key : Key \cup {None}, attempt : Nat,
     writing : SUBSET Region, acked : SUBSET Region,
     answer : CommitId \cup {None}]

IdleHandler == [stage |-> "idle", key |-> None, attempt |-> 0,
                writing |-> {}, acked |-> {}, answer |-> None]

Receipt == CommitId \cup {Pending}

AuxTask == [path : {"udp", "mail"}, key : Key]

\* The auxiliary task spawned for key k, none when that path is off.
Spawned(path, k) ==
    {t \in [path : {path}, key : {k}] : path \in Auxiliary}

Init ==
    /\ wal = [k \in Key |-> None]
    /\ handler = [w \in Worker |-> IdleHandler]
    /\ regions = [r \in Region |-> {}]
    /\ orphans = {}
    /\ audit = [k \in Key |-> 0]
    /\ tasks = {} /\ delivered = {}
    /\ upstream = [c \in CommitId |-> None]
    /\ strays = [k \in Key |-> 0]
    /\ told = [k \in Key |-> {}]
    /\ sent = 0 /\ crashes = 0

-----------------------------------------------------------------------------
(* The two WriteAheadLog backends.                                         *)

\* Mutant: the lookup forgets the key (SELECT without WHERE).
AlreadyProcessedAnyKey(k) ==
    IF \E j \in Key : wal[j] \in CommitId
    THEN wal[CHOOSE j \in Key : wal[j] \in CommitId] ELSE None

\* Mutant: a row without a commit id counts as processed.
AlreadyProcessedAnyRow(k) == wal[k]

\* is_already_processed: InMemoryWal answers only for a key with a commit
\* id; PostgresWal answers for every row, with committed = false at first.
AlreadyProcessed(k) ==
    IF Backend = "InMemory" /\ wal[k] = Pending THEN None ELSE wal[k]

\* append: InMemoryWal inserts over whatever is there; PostgresWal does
\* nothing when the key has a row (ON CONFLICT DO NOTHING).
Appended(k) ==
    IF Backend = "InMemory" \/ wal[k] = None THEN Pending ELSE wal[k]

\* Mutant: the row is deleted once the mutation is committed.
MarkedDeleted(k, c) == None

\* mark_committed: both update the row if there is one.
Marked(k, c) == IF wal[k] = None THEN None ELSE c

-----------------------------------------------------------------------------
(* Handlers.                                                               *)

\* The handler returns: 200 with a receipt, or 409.
Answer(w, a) ==
    /\ told' = [told EXCEPT ![handler[w].key] = @ \cup {a}]
    /\ handler' = [handler EXCEPT ![w] = IdleHandler]

GoTo(w, stage) == handler' = [handler EXCEPT ![w].stage = stage]

\* A client's request reaches a free handler, which calls Ledger::commit.
Submit(w, k) ==
    /\ handler[w].stage = "idle" /\ sent < MaxRequests
    /\ handler' = [handler EXCEPT ![w] =
                     [IdleHandler EXCEPT !.stage = "check", !.key = k]]
    /\ sent' = sent + 1
    /\ UNCHANGED <<wal, regions, orphans, audit, tasks, delivered, upstream,
                   strays, told, crashes>>

\* The duplicate check: a processed key is answered from the log.
Check(w) ==
    LET processed == AlreadyProcessed(handler[w].key) IN
    /\ handler[w].stage = "check"
    /\ \/ /\ processed # None
          /\ Answer(w, processed)
       \/ /\ processed = None
          /\ GoTo(w, "append") /\ UNCHANGED told
       \/ /\ "fail" \in WalOutcome
          /\ Answer(w, Refused)
    /\ UNCHANGED <<wal, regions, orphans, audit, tasks, delivered, upstream,
                   strays, sent, crashes>>

\* Mutant: a failed append is only logged.
AppendUnchecked(w) ==
    /\ handler[w].stage = "append"
    /\ \E outcome \in WalOutcome :
          wal' = IF outcome = "fail" THEN wal
                 ELSE [wal EXCEPT ![handler[w].key] = Appended(handler[w].key)]
    /\ GoTo(w, "announce")
    /\ UNCHANGED <<regions, orphans, audit, tasks, delivered, upstream,
                   strays, told, sent, crashes>>

\* The write-ahead append; an error ends the call even when the row landed.
Append(w) ==
    LET k == handler[w].key IN
    /\ handler[w].stage = "append"
    /\ \E outcome \in WalOutcome :
          /\ wal' = IF outcome = "fail" THEN wal
                    ELSE [wal EXCEPT ![k] = Appended(k)]
          /\ IF outcome = "ok" THEN GoTo(w, "announce") /\ UNCHANGED told
                               ELSE Answer(w, Refused)
    /\ UNCHANGED <<regions, orphans, audit, tasks, delivered, upstream,
                   strays, sent, crashes>>

\* Mutant: the audit record is left for after the commit.
AnnounceUnaudited(w) ==
    /\ handler[w].stage = "announce"
    /\ tasks' = tasks \cup Spawned("udp", handler[w].key)
    /\ handler' = [handler EXCEPT ![w].stage = "replicate",
                                  ![w].writing = Region]
    /\ UNCHANGED <<wal, regions, orphans, audit, delivered, upstream, strays,
                   told, sent, crashes>>

\* No await in between: the UDP notice is spawned, the audit record is
\* written and synced (a failure is only logged), and replicate spawns one
\* write per region.
Announce(w) ==
    LET k == handler[w].key IN
    /\ handler[w].stage = "announce"
    /\ tasks' = tasks \cup Spawned("udp", k)
    /\ \E ok \in AuditOutcome :
          audit' = IF ok THEN [audit EXCEPT ![k] = @ + 1] ELSE audit
    /\ handler' = [handler EXCEPT ![w].stage = "replicate",
                                  ![w].writing = Region]
    /\ UNCHANGED <<wal, regions, orphans, delivered, upstream, strays, told,
                   sent, crashes>>

\* One region's write for handler w ends; an existing row is kept.
RegionWrite(w, r) ==
    /\ handler[w].stage = "replicate" /\ r \in handler[w].writing
    /\ \E ok \in RegionOutcome :
          /\ regions' = IF ok
                        THEN [regions EXCEPT ![r] = @ \cup {handler[w].key}]
                        ELSE regions
          /\ handler' = [handler EXCEPT
                           ![w].writing = @ \ {r},
                           ![w].acked = IF ok THEN @ \cup {r} ELSE @]
    /\ UNCHANGED <<wal, orphans, audit, tasks, delivered, upstream, strays,
                   told, sent, crashes>>

\* Mutant: every region that answered counts, not those that succeeded.
ReplicatedAnyOutcome(w) ==
    /\ handler[w].stage = "replicate" /\ handler[w].writing = {}
    /\ GoTo(w, "forward")
    /\ UNCHANGED <<wal, regions, orphans, audit, tasks, delivered, upstream,
                   strays, told, sent, crashes>>

\* All regions have answered: enough acks, or the commit is aborted. What
\* the successful regions wrote stays.
Replicated(w) ==
    LET h == handler[w] IN
    /\ h.stage = "replicate" /\ h.writing = {}
    /\ IF Cardinality(h.acked) >= MinAcks
       THEN GoTo(w, "forward") /\ UNCHANGED <<told, tasks>>
       ELSE /\ Answer(w, Refused)
            /\ tasks' = tasks \cup Spawned("mail", h.key)
    /\ UNCHANGED <<wal, regions, orphans, audit, delivered, upstream, strays,
                   sent, crashes>>

\* Mutant: the attempt is not counted.
ForwardOnceUncounted(w) ==
    /\ handler[w].stage = "forward"
    /\ handler' = [handler EXCEPT ![w].stage = "await", ![w].answer = None]
    /\ UNCHANGED <<wal, regions, orphans, audit, tasks, delivered, upstream,
                   strays, told, sent, crashes>>

\* forward_once posts the mutation to open-runo.
ForwardOnce(w) ==
    /\ handler[w].stage = "forward"
    /\ handler' = [handler EXCEPT ![w].stage = "await", ![w].attempt = @ + 1,
                                  ![w].answer = None]
    /\ UNCHANGED <<wal, regions, orphans, audit, tasks, delivered, upstream,
                   strays, told, sent, crashes>>

\* A reply carrying a commit id arrives.
ForwardOk(w) ==
    /\ handler[w].stage = "await" /\ handler[w].answer # None
    /\ GoTo(w, "mark")
    /\ UNCHANGED <<wal, regions, orphans, audit, tasks, delivered, upstream,
                   strays, told, sent, crashes>>

\* Requests of dropped or failed exchanges that upstream still has: at most
\* those it has not answered.
Unanswered(w) == handler[w].stage = "await" /\ handler[w].answer = None

Strayed(lost) ==
    [k \in Key |-> strays[k] + Cardinality({w \in lost : handler[w].key = k})]

\* The exchange fails: refused, broken, an error status, or a receipt
\* without a commit id. Upstream may have committed, or may do so later.
ForwardErr(w) ==
    LET h == handler[w] IN
    /\ h.stage = "await"
    /\ \E lost \in SUBSET {v \in {w} : Unanswered(v)} :
          strays' = Strayed(lost)
    /\ IF h.attempt < MaxRetries
       THEN /\ handler' = [handler EXCEPT ![w].stage = "forward",
                                          ![w].answer = None]
            /\ UNCHANGED <<told, tasks>>
       ELSE /\ Answer(w, Refused)
            /\ tasks' = tasks \cup Spawned("mail", h.key)
    /\ UNCHANGED <<wal, regions, orphans, audit, delivered, upstream, sent,
                   crashes>>

\* The commit id is recorded in the WAL and the receipt is returned; an
\* error of the WAL turns the committed mutation into a 409.
Mark(w) ==
    LET h == handler[w] IN
    /\ h.stage = "mark"
    /\ \E outcome \in WalOutcome :
          /\ wal' = IF outcome = "fail" THEN wal
                    ELSE [wal EXCEPT ![h.key] = Marked(h.key, h.answer)]
          /\ Answer(w, IF outcome = "ok" THEN h.answer ELSE Refused)
    /\ UNCHANGED <<regions, orphans, audit, tasks, delivered, upstream,
                   strays, sent, crashes>>

-----------------------------------------------------------------------------
(* What runs beside the handlers.                                          *)

\* The client disconnects: the handler's future is dropped at an await. The
\* region writes it spawned and its request to upstream may live on.
Cancel(w) ==
    /\ handler[w].stage # "idle"
    /\ handler' = [handler EXCEPT ![w] = IdleHandler]
    /\ orphans' = orphans \cup
                    [region : handler[w].writing, key : {handler[w].key}]
    /\ \E lost \in SUBSET {v \in {w} : Unanswered(v)} :
          strays' = Strayed(lost)
    /\ UNCHANGED <<wal, regions, audit, tasks, delivered, upstream, told,
                   sent, crashes>>

\* A detached region write ends.
OrphanWrite(o) ==
    /\ o \in orphans
    /\ orphans' = orphans \ {o}
    /\ \E ok \in RegionOutcome :
          regions' = IF ok THEN [regions EXCEPT ![o.region] = @ \cup {o.key}]
                           ELSE regions
    /\ UNCHANGED <<wal, handler, audit, tasks, delivered, upstream, strays,
                   told, sent, crashes>>

\* A fire-and-forget task ends; its message arrives or is lost.
TaskDone(t) ==
    /\ t \in tasks
    /\ tasks' = tasks \ {t}
    /\ \/ delivered' = delivered \cup {t}
       \/ UNCHANGED delivered
    /\ UNCHANGED <<wal, handler, regions, orphans, audit, upstream, strays,
                   told, sent, crashes>>

\* The process dies and starts again with what is durable: the in-memory
\* log is empty, and nothing is read back or replayed.
Crash ==
    /\ crashes < MaxCrashes
    /\ crashes' = crashes + 1
    /\ handler' = [w \in Worker |-> IdleHandler]
    /\ wal' = IF Backend = "InMemory" THEN [k \in Key |-> None] ELSE wal
    /\ orphans' = {} /\ tasks' = {}
    /\ \E lost \in SUBSET {w \in Worker : Unanswered(w)} :
          strays' = Strayed(lost)
    /\ UNCHANGED <<regions, audit, delivered, upstream, told, sent>>

-----------------------------------------------------------------------------
(* Upstream: open-runo in front of aruaru-db.                              *)

\* Upstream has key k under commit id c afterwards.
Commits(k, c) ==
    \/ UpstreamDedups /\ upstream[c] = k /\ UNCHANGED upstream
    \/ /\ UpstreamDedups => \A d \in CommitId : upstream[d] # k
       /\ upstream[c] = None
       /\ upstream' = [upstream EXCEPT ![c] = k]

UpstreamCommit(w) ==
    /\ Unanswered(w)
    /\ \E c \in CommitId :
          /\ Commits(handler[w].key, c)
          /\ handler' = [handler EXCEPT ![w].answer = c]
    /\ UNCHANGED <<wal, regions, orphans, audit, tasks, delivered, strays,
                   told, sent, crashes>>

\* A request nobody waits for any more is committed late.
StrayCommit(k) ==
    /\ strays[k] > 0
    /\ strays' = [strays EXCEPT ![k] = @ - 1]
    /\ \E c \in CommitId : Commits(k, c)
    /\ UNCHANGED <<wal, handler, regions, orphans, audit, tasks, delivered,
                   told, sent, crashes>>

-----------------------------------------------------------------------------

\* The steps the code takes on its own once a request is in.
HandlerStep(w) ==
    \/ Check(w) \/ Append(w) \/ Announce(w)
    \/ \E r \in Region : RegionWrite(w, r)
    \/ Replicated(w) \/ ForwardOnce(w) \/ ForwardOk(w) \/ Mark(w)

Next ==
    \/ \E w \in Worker :
          \/ \E k \in Key : Submit(w, k)
          \/ HandlerStep(w)
          \/ ForwardErr(w) \/ Cancel(w) \/ UpstreamCommit(w)
    \/ \E o \in orphans : OrphanWrite(o)
    \/ \E t \in tasks : TaskDone(t)
    \/ \E k \in Key : StrayCommit(k)
    \/ Crash

Spec == Init /\ [][Next]_vars

\* Tokio runs every ready task, so each handler keeps taking its own steps.
\* That an exchange with upstream ends, in a reply or an error, is assumed:
\* forward_once sets no timeout, so nothing in this code makes it end.
LiveSpec ==
    /\ Spec
    /\ \A w \in Worker :
          /\ WF_vars(HandlerStep(w))
          /\ WF_vars(UpstreamCommit(w) \/ ForwardErr(w))

-----------------------------------------------------------------------------
(* Properties.                                                             *)

\* A busy handler has a key, one about to mark has a commit id.
HandlersTyped ==
    /\ handler \in [Worker -> HandlerState]
    /\ \A w \in Worker :
          /\ handler[w].stage # "idle" => handler[w].key \in Key
          /\ handler[w].stage = "mark" => handler[w].answer \in CommitId

\* Every variable has its type; what the two conjuncts of HandlersTyped say of
\* a handler is what the rest of commit relies on.
TypeOK ==
    /\ wal \in [Key -> {None, Pending} \cup CommitId]
    /\ HandlersTyped
    /\ regions \in [Region -> SUBSET Key]
    /\ orphans \subseteq [region : Region, key : Key]
    /\ audit \in [Key -> Nat]
    /\ tasks \subseteq AuxTask /\ delivered \subseteq AuxTask
    /\ upstream \in [CommitId -> Key \cup {None}]
    /\ strays \in [Key -> Nat]
    /\ told \in [Key -> SUBSET (Receipt \cup {Refused})]
    /\ sent \in Nat /\ crashes \in Nat

\* A commit id handed to a client (200, committed) names that very mutation
\* upstream: across retries, duplicates, crashes and dropped handlers,
\* commit never confirms what upstream does not have (Ledger::commit).
ReceiptIsStored ==
    \A k \in Key : \A c \in told[k] \cap CommitId : upstream[c] = k

\* docs/architecture.md: a resend of the same Idempotency-Key always gets
\* the same result. All receipts returned for a key are equal, also when
\* the duplicates overlap or a crash lies between them.
AnswersAgree ==
    \A k \in Key : \A a, b \in told[k] \cap Receipt : a = b

\* docs/integration.md: a mutation whose retries are used up is answered 409,
\* and never as a silent success. A key that was refused is not answered 200
\* with a receipt that has no commit id.
NoSilentSuccess ==
    \A k \in Key : Refused \in told[k] => Pending \notin told[k]

\* Mutation k is known outside its handler and its log row.
Escaped(k) ==
    \/ \E c \in CommitId : upstream[c] = k
    \/ strays[k] > 0
    \/ \E r \in Region : k \in regions[r]
    \/ audit[k] > 0
    \/ \E t \in tasks \cup delivered : t.key = k

\* Nothing leaves the process before the write-ahead append: whatever
\* upstream, a region, the audit file, a UDP notice or a backup mail has of
\* a mutation, its row is in the durable log (Ledger::commit, PostgresWal).
WriteAheadFirst == \A k \in Key : Escaped(k) => wal[k] # None

\* The duplicate check of commit: once a client holds a commit id for a
\* key, no later request with that key is admitted to the pipeline again.
SettledNeverReadmitted ==
    [][\A w \in Worker :
         /\ handler[w].stage = "check"
         /\ told[handler[w].key] \cap CommitId # {}
         => handler'[w].stage # "append"]_vars

\* multi_region.rs: what upstream has was first acknowledged by at least
\* min_acks regions, counting the writes other attempts left behind.
RegionsBeforeStore ==
    \A c \in CommitId :
        upstream[c] # None =>
            Cardinality({r \in Region : upstream[c] \in regions[r]}) >= MinAcks

\* audit_log.rs: the independent log, when its file can be written, has a
\* record of everything that reached upstream, so that reconciling it
\* against upstream can never miss a committed mutation.
AuditCoversStore ==
    \A c \in CommitId : upstream[c] # None => audit[upstream[c]] > 0

\* Every request is answered or its client gave up: no handler is stuck.
Handled ==
    \A w \in Worker : handler[w].stage # "idle" ~> handler[w].stage = "idle"
=============================================================================
