------------------------------ MODULE DualWrite ------------------------------
(***************************************************************************)
(* DualWriteCoordinator of dual_write.rs: a record of a subdomain is       *)
(* written to PostgreSQL, the authority, and then to aruaru-db. Several    *)
(* writes may be under way. Each may fail in either store, and its caller  *)
(* may go away while it waits: the change is then made, not made, or made  *)
(* later, when the store gets to it. The subdomains are those of one base  *)
(* domain, as aruaru-db knows a record by the subdomain alone.             *)
(***************************************************************************)
EXTENDS Integers, FiniteSets

CONSTANTS
    Task,           \* callers of write
    Name,           \* subdomains: the primary key
    Owner,          \* owner_account_id
    Ip,             \* current_ip
    MaxLate,        \* bound: requests at large at one time
    None            \* no record, no request

\* What the constants must be.
Parameters == None \notin Ip /\ None \notin Name /\ MaxLate \in Nat

Slot == 1..MaxLate

VARIABLES
    postgres,       \* custom_subdomains: name -> owner and ip
    aruaru,         \* the record aruaru-db has last taken
    task,           \* per task: its stage and record, and has it met another?
    late,           \* requests nobody waits for, that a store may still take
    held,           \* history: per name, the addresses PostgreSQL has held
    doubted         \* history: names with a write that did not report success or met
                    \* another, since the last success that met none

vars == <<postgres, aruaru, task, late, held, doubted>>

Absent == [owner |-> None, ip |-> None]
Idle == [stage |-> "idle", name |-> None, rec |-> Absent, met |-> FALSE]

Init ==
    /\ postgres = [n \in Name |-> Absent] /\ aruaru = postgres
    /\ task = [t \in Task |-> Idle] /\ late = [i \in Slot |-> None]
    /\ held = [n \in Name |-> {}] /\ doubted = {}

\* A write that meets another of its name tells nothing certain.
Call(t) ==
    /\ task[t].stage = "idle"
    /\ \E n \in Name, o \in Owner, ip \in Ip :
         LET others == {u \in Task : task[u].name = n}
         IN  /\ task' = [u \in Task |->
                   IF u = t THEN [stage |-> "postgres", name |-> n,
                                  rec |-> [owner |-> o, ip |-> ip], met |-> others # {}]
                   ELSE IF u \in others THEN [task[u] EXCEPT !.met = TRUE] ELSE task[u]]
             /\ doubted' = IF others # {} THEN doubted \cup {n} ELSE doubted
    /\ UNCHANGED <<postgres, aruaru, late, held>>

-----------------------------------------------------------------------------
Write(t) == [store |-> task[t].stage, name |-> task[t].name, rec |-> task[t].rec]

\* INSERT ... ON CONFLICT DO UPDATE SET current_ip: the first owner stays.
Upserted(n, rec) ==
    IF postgres[n] = Absent THEN rec ELSE [postgres[n] EXCEPT !.ip = rec.ip]

\* The store makes the change.
Taken(w) ==
    /\ postgres' = IF w.store = "postgres"
                   THEN [postgres EXCEPT ![w.name] = Upserted(w.name, w.rec)] ELSE postgres
    /\ aruaru' = IF w.store = "aruaru" THEN [aruaru EXCEPT ![w.name] = w.rec] ELSE aruaru
    /\ held' = IF w.store = "postgres" THEN [held EXCEPT ![w.name] = @ \cup {w.rec.ip}]
               ELSE held

AtLarge(store, n) == \E i \in Slot : late[i] # None /\ late[i].store = store /\ late[i].name = n

\* A transaction whose COMMIT is at large still has the row.
Free(w) == w.store = "postgres" => ~AtLarge("postgres", w.name)

\* Mutant: a failure of PostgreSQL does not end the call.
InsertAndGoOn(t) ==
    /\ task[t].stage = "postgres"
    /\ task' = [task EXCEPT ![t].stage = "aruaru"]
    /\ Taken(Write(t)) \/ UNCHANGED <<postgres, aruaru, held>>
    /\ UNCHANGED <<late, doubted>>

\* insert_subdomain has succeeded.
Insert(t) ==
    /\ task[t].stage = "postgres" /\ Free(Write(t))
    /\ Taken(Write(t))
    /\ task' = [task EXCEPT ![t].stage = "aruaru"]
    /\ UNCHANGED <<late, doubted>>

\* Mutant: what aruaru-db answers is not looked at.
RecordChangeAnyway(t) ==
    /\ task[t].stage = "aruaru"
    /\ Taken(Write(t)) \/ UNCHANGED <<postgres, aruaru, held>>
    /\ task' = [task EXCEPT ![t] = Idle]
    /\ doubted' = IF task[t].met THEN doubted ELSE doubted \ {task[t].name}
    /\ UNCHANGED late

\* record_change has succeeded, and so has write. It speaks for the name if no
\* other write of it was under way, nor is one at large.
RecordChange(t) ==
    /\ task[t].stage = "aruaru"
    /\ Taken(Write(t))
    /\ task' = [task EXCEPT ![t] = Idle]
    /\ doubted' = IF task[t].met \/ (\E s \in {"postgres", "aruaru"} : AtLarge(s, task[t].name))
                  THEN doubted ELSE doubted \ {task[t].name}
    /\ UNCHANGED late

\* A store fails, or the caller goes away: an Err, an outcome with
\* aruaru_db_error, or no answer at all.
Fail(t) ==
    /\ task[t].stage # "idle"
    /\ task' = [task EXCEPT ![t] = Idle]
    /\ doubted' = doubted \cup {task[t].name}
    /\ \/ UNCHANGED <<postgres, aruaru, held, late>>
       \/ Free(Write(t)) /\ Taken(Write(t)) /\ UNCHANGED late
       \/ /\ Free(Write(t))
          /\ \E i \in Slot : late[i] = None /\ late' = [late EXCEPT ![i] = Write(t)]
          /\ UNCHANGED <<postgres, aruaru, held>>

\* A request at large is taken after all, or lost.
Land(i) ==
    /\ late[i] # None
    /\ late' = [late EXCEPT ![i] = None]
    /\ Taken(late[i]) \/ UNCHANGED <<postgres, aruaru, held>>
    /\ UNCHANGED <<task, doubted>>

Next ==
    \/ \E t \in Task : Call(t) \/ Insert(t) \/ RecordChange(t) \/ Fail(t)
    \/ \E i \in Slot : Land(i)

Spec == Init /\ [][Next]_vars

-----------------------------------------------------------------------------
TypeOK ==
    LET Record == [owner : Owner \cup {None}, ip : Ip \cup {None}]
        Change == [store : {"postgres", "aruaru"}, name : Name, rec : Record]
    IN  /\ postgres \in [Name -> Record] /\ aruaru \in [Name -> Record]
        /\ task \in [Task -> [stage : {"idle", "postgres", "aruaru"},
                              name : Name \cup {None}, rec : Record, met : BOOLEAN]]
        /\ late \in [Slot -> Change \cup {None}]
        /\ held \in [Name -> SUBSET (Ip \cup {None})] /\ doubted \subseteq Name

\* A divergence of the stores is never passed over in silence: they hold one
\* address for a name, unless it is being written or some write of it did not
\* report full success or met another. Only a success with no other write under
\* way or at large settles the name again: the request of a write that failed may
\* still be taken after one. (The owners may differ: PostgreSQL keeps the first.)
DivergenceReported ==
    \A n \in Name \ doubted :
      (\A t \in Task : task[t].name # n) => postgres[n].ip = aruaru[n].ip

\* aruaru-db never holds an address that PostgreSQL, the authority, never had.
AuthorityFirst == \A n \in Name : aruaru[n] # Absent => aruaru[n].ip \in held[n]
=============================================================================
