---------------------------- MODULE HostRegistry ----------------------------
(***************************************************************************)
(* The registries the management API changes while the server runs:        *)
(* TenantRegistry, RedirectRegistry and WebVhostRegistry. All three change *)
(* their map under a write lock and, still holding it, write the whole map *)
(* to a temporary file and rename it over the file the next start loads.   *)
(*                                                                         *)
(* The two file operations run on tokio's blocking pool and are awaited by *)
(* the handler. When the client disconnects, hyper drops the handler: the  *)
(* lock is free again, but an operation already handed to the pool runs to *)
(* its end. The temporary name is always the same, so names and contents   *)
(* (inodes) are kept apart.                                                *)
(*                                                                         *)
(* An entry is looked up by its place: a host and, for tenants, a path     *)
(* prefix. The file the server was first started with has one entry per    *)
(* place. A change that finds nothing to do returns without any effect and *)
(* is left out. Mixed or cut text is taken to be unreadable.               *)
(***************************************************************************)
EXTENDS Naturals, FiniteSets

CONSTANTS
    Host,       \* host names
    Prefix,     \* path prefixes of tenants, {} for the other registries
    Config,     \* what an entry says
    Worker,     \* handlers that change the registry, and dropped ones
    Inode,      \* file contents (bounds how many exist at once)
    CanFail,    \* may a file operation fail?
    CanCancel,  \* may a client disconnect?
    MaxOps,     \* bound: changes in all
    MaxCrashes, \* bound: process crashes
    None,       \* no prefix, no entry, no file, no open file
    Torn        \* text mixed from two writes, or cut short

ASSUME BoundsAssumption == MaxOps \in Nat /\ MaxCrashes \in Nat

ASSUME SentinelAssumption ==
    /\ CanFail \in BOOLEAN /\ CanCancel \in BOOLEAN
    /\ None \notin Inode /\ None \notin Config

Place == Host \X (Prefix \cup {None})

Entries == [Place -> Config \cup {None}]

ASSUME TextAssumption == Torn \notin Entries

NoEntries == [p \in Place |-> None]

VARIABLES
    memory,     \* the map behind the lock
    tmp,        \* inode under the temporary name, or None
    final,      \* inode of the file the next start loads
    content,    \* [Inode -> what was written to it]
    call,       \* [Worker -> the change it is making]
    persisted,  \* history: did the last change reach the file, as far as known?
    running,    \* did the last start find a readable file?
    ops,        \* bound counter: changes
    crashes     \* bound counter: crashes

vars == <<memory, tmp, final, content, call, persisted, running, ops, crashes>>

\* attached: the handler still waits for the operation, and holds the lock.
Idle == [step |-> "idle", attached |-> FALSE, text |-> NoEntries, fd |-> None]

Calls == [step : {"idle", "open", "write", "rename"}, attached : BOOLEAN,
          text : Entries, fd : Inode \cup {None}]

\* The state after load_domains_from_env and its likes.
Init ==
    /\ memory \in Entries
    /\ tmp = None
    /\ final \in Inode
    /\ content = [i \in Inode |-> memory]
    /\ call = [w \in Worker |-> Idle]
    /\ persisted = TRUE /\ running = TRUE
    /\ ops = 0 /\ crashes = 0

-----------------------------------------------------------------------------

Locked == \E w \in Worker : call[w].attached

\* An inode no name and no open file refers to.
Unused == {i \in Inode : /\ tmp # i /\ final # i
                         /\ \A w \in Worker : call[w].fd # i}

\* The operation of w ends and with it persist, which only logs an error.
\* Nobody hears of the end of an operation whose handler was dropped.
Return(w, ok) ==
    /\ call' = [call EXCEPT ![w] = Idle]
    /\ persisted' = IF call[w].attached THEN ok ELSE persisted

\* Mutant: the text is built before the map is changed.
ChangeAfterText(w, p, c) ==
    /\ running /\ call[w].step = "idle" /\ ~Locked /\ ops < MaxOps
    /\ ops' = ops + 1
    /\ memory' = [memory EXCEPT ![p] = c]
    /\ call' = [call EXCEPT ![w] = [step |-> "open", attached |-> TRUE,
                                    text |-> memory, fd |-> None]]
    /\ persisted' = TRUE
    /\ UNCHANGED <<tmp, final, content, running, crashes>>

\* Under the lock: the entry at p becomes c, the text of the file is built
\* from the map and its write is handed to the pool.
Change(w, p, c) ==
    /\ running /\ call[w].step = "idle" /\ ~Locked /\ ops < MaxOps
    /\ ops' = ops + 1
    /\ memory' = [memory EXCEPT ![p] = c]
    /\ call' = [call EXCEPT ![w] = [step |-> "open", attached |-> TRUE,
                                    text |-> memory', fd |-> None]]
    /\ persisted' = TRUE
    /\ UNCHANGED <<tmp, final, content, running, crashes>>

\* add refuses a place that is taken.
Add(w, p, c) == memory[p] = None /\ Change(w, p, c)

Upsert(w, p, c) == Change(w, p, c)

\* set_compat_mode changes an entry that is there.
SetCompatMode(w, p, c) == memory[p] # None /\ Change(w, p, c)

\* remove of a place without an entry is refused.
Remove(w, p) == memory[p] # None /\ Change(w, p, None)

-----------------------------------------------------------------------------
(* The operations on the blocking pool.                                    *)

\* Mutant: the file is written in place.
OpenInPlace(w) ==
    /\ call[w].step = "open"
    /\ tmp' = final
    /\ content' = [content EXCEPT ![final] = NoEntries]
    /\ call' = [call EXCEPT ![w].step = "write", ![w].fd = final]
    /\ UNCHANGED <<memory, final, persisted, running, ops, crashes>>

\* tokio::fs::write opens the temporary file and truncates it if it exists;
\* an empty file is a readable one without entries.
Open(w) ==
    /\ call[w].step = "open"
    /\ \/ \E i \in IF tmp = None THEN Unused ELSE {tmp} :
             /\ tmp' = i
             /\ content' = [content EXCEPT ![i] = NoEntries]
             /\ call' = [call EXCEPT ![w].step = "write", ![w].fd = i]
             /\ UNCHANGED persisted
       \/ CanFail /\ Return(w, FALSE) /\ UNCHANGED <<tmp, content>>
    /\ UNCHANGED <<memory, final, running, ops, crashes>>

\* It writes from the start of the file it opened, whatever name that has
\* by now. Only a handler that still waits goes on to the rename.
Write(w) ==
    LET i == call[w].fd
        text == call[w].text
    IN
    /\ call[w].step = "write"
    /\ \/ /\ \E result \in IF content[i] \in {NoEntries, text}
                           THEN {text} ELSE {text, Torn} :
                content' = [content EXCEPT ![i] = result]
          /\ \/ /\ call[w].attached
                /\ call' = [call EXCEPT ![w].step = "rename"]
                /\ UNCHANGED persisted
             \/ ~call[w].attached /\ Return(w, TRUE)
       \/ /\ CanFail /\ Return(w, FALSE)
          /\ content' = [content EXCEPT ![i] = Torn]
    /\ UNCHANGED <<memory, tmp, final, running, ops, crashes>>

\* tokio::fs::rename moves whatever the temporary name refers to by now.
Rename(w) ==
    /\ call[w].step = "rename"
    /\ \/ /\ tmp # None
          /\ final' = tmp /\ tmp' = None
          /\ Return(w, TRUE)
       \/ /\ CanFail \/ tmp = None
          /\ Return(w, FALSE) /\ UNCHANGED <<tmp, final>>
    /\ UNCHANGED <<memory, content, running, ops, crashes>>

\* The client disconnects. The handler is dropped where it waits; between
\* the write and the rename there may be no operation left to run on.
Cancel(w) ==
    /\ CanCancel /\ call[w].attached
    /\ \/ call' = [call EXCEPT ![w].attached = FALSE]
       \/ call[w].step = "rename" /\ call' = [call EXCEPT ![w] = Idle]
    /\ persisted' = FALSE
    /\ UNCHANGED <<memory, tmp, final, content, running, ops, crashes>>

\* The process dies and is started again; the start fails if the file
\* cannot be read.
Crash ==
    /\ running /\ crashes < MaxCrashes
    /\ crashes' = crashes + 1
    /\ running' = (content[final] # Torn)
    /\ memory' = IF content[final] = Torn THEN memory ELSE content[final]
    /\ call' = [w \in Worker |-> Idle]
    /\ persisted' = TRUE
    /\ UNCHANGED <<tmp, final, content, ops>>

-----------------------------------------------------------------------------

Step(w) == Open(w) \/ Write(w) \/ Rename(w) \/ Cancel(w)

Next ==
    \/ \E w \in Worker :
          \/ \E p \in Place, c \in Config :
                Add(w, p, c) \/ Upsert(w, p, c) \/ SetCompatMode(w, p, c)
          \/ \E p \in Place : Remove(w, p)
          \/ Step(w)
    \/ Crash

Spec == Init /\ [][Next]_vars

-----------------------------------------------------------------------------
(* Properties.                                                             *)

\* Every variable has its type; an operation that writes or renames has
\* opened its file.
TypeOK ==
    /\ memory \in Entries
    /\ tmp \in Inode \cup {None} /\ final \in Inode
    /\ content \in [Inode -> Entries \cup {Torn}]
    /\ call \in [Worker -> Calls]
    /\ \A w \in Worker :
          call[w].step \in {"write", "rename"} => call[w].fd \in Inode
    /\ persisted \in BOOLEAN /\ running \in BOOLEAN
    /\ ops \in Nat /\ crashes \in Nat

\* tenant_router.rs, persist: when no change is being made and the last one
\* met no error and was not abandoned, the file says what the map says.
DiskKeepsUp == ~Locked /\ persisted /\ running => content[final] = memory

\* tenant_router.rs, persist writes atomically: whatever fails or is
\* abandoned, the file the next start loads is readable.
FileLoads == content[final] # Torn

\* The registry keeps the promise of DurableMap: its map is the one behind
\* the lock, its copy is the file the next start loads.
Promise == INSTANCE DurableMap WITH map <- memory, disk <- content[final]

KeepsPromise == Promise!Spec
=============================================================================
