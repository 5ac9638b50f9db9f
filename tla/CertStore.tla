----------------------------- MODULE CertStore -----------------------------
(***************************************************************************)
(* TenantCertResolver (open-web-server-wire, tls.rs) for one host: the     *)
(* certificate served from memory, the pair of files <host>.pem and        *)
(* <host>.key it is persisted to, and the reload at the next start.        *)
(*                                                                         *)
(* Files of different hosts have different names, also while they are      *)
(* being written, so one host stands for all. The lock of the map covers   *)
(* the update of memory only: the file operations of concurrent calls      *)
(* interleave. Every call of a process uses the same temporary name, so    *)
(* names and file contents (inodes) are kept apart. A crash loses the      *)
(* process and not the page cache; temporary files left behind are not     *)
(* read by the reload. Mixed or cut content is taken to be unreadable.     *)
(***************************************************************************)
EXTENDS Naturals, FiniteSets

CONSTANTS
    Cert,       \* certificates, each with its own private key
    Worker,     \* concurrent calls of upsert_pem and remove
    Inode,      \* file contents (bounds how many exist at once)
    CanFail,    \* may a file operation fail (disk full, permissions)?
    MaxOps,     \* bound: calls in all
    MaxCrashes, \* bound: process crashes
    None,       \* no certificate, no file, no open file
    Empty,      \* content of a file that was truncated and not yet written
    Torn        \* content mixed from two writes, or cut short

ASSUME BoundsAssumption == MaxOps \in Nat /\ MaxCrashes \in Nat

ASSUME SentinelAssumption ==
    /\ CanFail \in BOOLEAN
    /\ None \notin Inode /\ {None, Empty, Torn} \cap Cert = {}
    /\ None # Empty /\ None # Torn /\ Empty # Torn
    /\ None \notin [chain : Cert, key : Cert]

VARIABLES
    memory,     \* the CertifiedKey served for the host, or None
    tmp,        \* [File -> inode under the temporary name, or None]
    final,      \* [File -> inode under <host>.pem / <host>.key, or None]
    content,    \* [Inode -> what was written to it]
    call,       \* [Worker -> the call it is in]
    persisted,  \* history: did the last call end without a file error?
    ops,        \* bound counter: calls started
    crashes     \* bound counter: crashes

vars == <<memory, tmp, final, content, call, persisted, ops, crashes>>

File == {"pem", "key"}

Idle == [step |-> "idle", file |-> "pem", cert |-> None, fd |-> None]

Served(chain, key) == [chain |-> chain, key |-> key]

Calls == [step : {"idle", "open", "write", "rename", "unlink"}, file : File,
          cert : Cert \cup {None}, fd : Inode \cup {None}]

Init ==
    /\ memory = None
    /\ tmp = [f \in File |-> None] /\ final = [f \in File |-> None]
    /\ content = [i \in Inode |-> Empty]
    /\ call = [w \in Worker |-> Idle]
    /\ persisted = TRUE
    /\ ops = 0 /\ crashes = 0

-----------------------------------------------------------------------------

\* What load_from_disk makes of the two files: it loads them if both parse,
\* and does not check that they belong together.
Loaded ==
    IF \A f \in File : final[f] # None /\ content[final[f]] \in Cert
    THEN Served(content[final["pem"]], content[final["key"]])
    ELSE None

\* An inode no name and no open file refers to.
Unused == {i \in Inode : /\ \A f \in File : tmp[f] # i /\ final[f] # i
                         /\ \A w \in Worker : call[w].fd # i}

\* The call ends; a file error is only logged.
Return(w, ok) ==
    /\ call' = [call EXCEPT ![w] = Idle]
    /\ persisted' = (ok /\ persisted)

\* Mutant: the key is written without opening its temporary file.
NextFileUnopened(w, step) ==
    IF call[w].file = "pem"
    THEN /\ call' = [call EXCEPT ![w].file = "key", ![w].step = "write",
                                 ![w].fd = None]
         /\ UNCHANGED persisted
    ELSE Return(w, TRUE)

\* On to the private key after the chain, or the end of the call.
NextFile(w, step) ==
    IF call[w].file = "pem"
    THEN /\ call' = [call EXCEPT ![w].file = "key", ![w].step = step,
                                 ![w].fd = None]
         /\ UNCHANGED persisted
    ELSE Return(w, TRUE)

\* Until the outcome of this call is known, the last one's does not count.
Start(w, step, c) ==
    /\ call[w].step = "idle" /\ ops < MaxOps
    /\ ops' = ops + 1
    /\ call' = [call EXCEPT ![w] = [Idle EXCEPT !.step = step, !.cert = c]]
    /\ persisted' = TRUE

\* upsert_pem: memory is updated under the lock, before any file.
Upsert(w, c) ==
    /\ Start(w, "open", c)
    /\ memory' = Served(c, c)
    /\ UNCHANGED <<tmp, final, content, crashes>>

Remove(w) ==
    /\ Start(w, "unlink", None)
    /\ memory' = None
    /\ UNCHANGED <<tmp, final, content, crashes>>

\* Mutant: the file itself is opened instead of a temporary one.
OpenInPlace(w) ==
    /\ call[w].step = "open"
    /\ \E i \in IF final[call[w].file] = None THEN Unused
                ELSE {final[call[w].file]} :
          /\ final' = [final EXCEPT ![call[w].file] = i]
          /\ tmp' = [tmp EXCEPT ![call[w].file] = i]
          /\ content' = [content EXCEPT ![i] = Empty]
          /\ call' = [call EXCEPT ![w].step = "write", ![w].fd = i]
    /\ UNCHANGED <<memory, persisted, ops, crashes>>

\* fs::write opens the temporary file and truncates it if it exists.
Open(w) ==
    LET f == call[w].file IN
    /\ call[w].step = "open"
    /\ \/ \E i \in IF tmp[f] = None THEN Unused ELSE {tmp[f]} :
             /\ tmp' = [tmp EXCEPT ![f] = i]
             /\ content' = [content EXCEPT ![i] = Empty]
             /\ call' = [call EXCEPT ![w].step = "write", ![w].fd = i]
             /\ UNCHANGED persisted
       \/ CanFail /\ Return(w, FALSE) /\ UNCHANGED <<tmp, content>>
    /\ UNCHANGED <<memory, final, ops, crashes>>

\* fs::write writes from the start of the file it opened, wherever that file
\* is by now; what another call wrote there may show through.
Write(w) ==
    LET i == call[w].fd
        c == call[w].cert
    IN
    /\ call[w].step = "write"
    /\ \/ /\ \E result \in IF content[i] \in {Empty, c} THEN {c} ELSE {c, Torn} :
                content' = [content EXCEPT ![i] = result]
          /\ call' = [call EXCEPT ![w].step = "rename"]
          /\ UNCHANGED persisted
       \/ /\ CanFail /\ Return(w, FALSE)
          /\ content' = [content EXCEPT ![i] = Torn]
    /\ UNCHANGED <<memory, tmp, final, ops, crashes>>

\* Mutant: the private key is not written.
RenameChainOnly(w) ==
    /\ call[w].step = "rename" /\ tmp[call[w].file] # None
    /\ final' = [final EXCEPT ![call[w].file] = tmp[call[w].file]]
    /\ tmp' = [tmp EXCEPT ![call[w].file] = None]
    /\ Return(w, TRUE)
    /\ UNCHANGED <<memory, content, ops, crashes>>

\* The temporary name is renamed, whatever it names by now.
Rename(w) ==
    LET f == call[w].file IN
    /\ call[w].step = "rename"
    /\ \/ /\ tmp[f] # None
          /\ final' = [final EXCEPT ![f] = tmp[f]]
          /\ tmp' = [tmp EXCEPT ![f] = None]
          /\ NextFile(w, "open")
       \/ /\ CanFail \/ tmp[f] = None
          /\ Return(w, FALSE) /\ UNCHANGED <<tmp, final>>
    /\ UNCHANGED <<memory, content, ops, crashes>>

\* remove deletes both files and ignores errors.
Unlink(w) ==
    LET f == call[w].file IN
    /\ call[w].step = "unlink"
    /\ \/ /\ final' = [final EXCEPT ![f] = None]
          /\ NextFile(w, "unlink")
       \/ /\ CanFail /\ UNCHANGED final
          /\ IF f = "pem"
             THEN /\ call' = [call EXCEPT ![w].file = "key"]
                  /\ persisted' = FALSE
             ELSE Return(w, FALSE)
    /\ UNCHANGED <<memory, tmp, content, ops, crashes>>

\* The process dies and starts again with what it loads from the directory.
Crash ==
    /\ crashes < MaxCrashes
    /\ crashes' = crashes + 1
    /\ memory' = Loaded
    /\ tmp' = [f \in File |-> None]
    /\ call' = [w \in Worker |-> Idle]
    /\ persisted' = TRUE
    /\ UNCHANGED <<final, content, ops>>

Next ==
    \/ \E w \in Worker :
          \/ \E c \in Cert : Upsert(w, c)
          \/ Remove(w)
          \/ Open(w) \/ Write(w) \/ Rename(w) \/ Unlink(w)
    \/ Crash

Spec == Init /\ [][Next]_vars

-----------------------------------------------------------------------------
(* Properties.                                                             *)

\* A call writes through an open file only while it has one.
TypeOK ==
    /\ memory \in [chain : Cert, key : Cert] \cup {None}
    /\ tmp \in [File -> Inode \cup {None}]
    /\ final \in [File -> Inode \cup {None}]
    /\ content \in [Inode -> Cert \cup {Empty, Torn}]
    /\ call \in [Worker -> Calls]
    /\ \A w \in Worker :
          call[w].step \in {"write", "rename"} =>
             call[w].fd \in Inode /\ call[w].cert \in Cert
    /\ persisted \in BOOLEAN
    /\ ops \in Nat /\ crashes \in Nat

\* tls.rs, write_atomically: whenever the process dies, the files it leaves
\* under their final names are complete.
NeverPartial ==
    \A f \in File : final[f] # None => content[final[f]] \in Cert

\* tls.rs, load_from_disk: once no call is in flight and the last one met no
\* file error, a restart serves exactly what is served now.
RestartServesSame ==
    (\A w \in Worker : call[w].step = "idle") /\ persisted => Loaded = memory

\* tls.rs, load_from_disk: a host whose files were interrupted half-way is
\* skipped; what is served has the private key of its certificate.
KeyMatchesChain == memory # None => memory.chain = memory.key
=============================================================================
