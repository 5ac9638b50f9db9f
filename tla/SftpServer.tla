----------------------------- MODULE SftpServer ------------------------------
(***************************************************************************)
(* How the SFTP server of sftp.rs starts and whom it lets in: the host key *)
(* made at the first start and kept in a file, the authorized keys read    *)
(* once, the password. The process may be killed at any step, and the host *)
(* may lose its power with the newest file not yet on the disk.            *)
(***************************************************************************)
EXTENDS Integers

CONSTANTS
    Client,         \* public keys, and clients with them
    Password,       \* what a client may send
    MaxKeys,        \* bound: host keys ever made
    None

\* What the constants must be.
Parameters == MaxKeys \in Nat /\ None \notin Client \cup Nat /\ Password # {}

VARIABLES
    stage,          \* "down", "load", "write", "mode", "bind", "up" or "off"
    hostKey,        \* the key the process has made or read
    file,           \* sftp_host_key: None, Cut or a key
    synced,         \* is the file on the disk?
    made,           \* host keys made
    authorized_keys,\* what the file says; None if it cannot be read
    accepted,       \* what the process has read of it
    allow_password, \* the settings of the process: is a password let in,
    password,       \*   and which
    sessions,       \* clients that are logged in, and by what
    known,          \* the clients: per client, the host key it keeps
    harm            \* history: was the key file cut short ("cut"), or lost?

vars == <<stage, hostKey, file, synced, made, authorized_keys, accepted,
          allow_password, password, sessions, known, harm>>

Settings == <<authorized_keys, allow_password, password>>
Cut == 0         \* the content of a key file that cannot be parsed
OnDisk == <<file, synced, made, harm>>

Init ==
    /\ stage = "down" /\ hostKey = None /\ file = None /\ synced = TRUE /\ made = 0
    /\ authorized_keys \in {None} \cup SUBSET Client /\ accepted = {}
    /\ allow_password \in BOOLEAN /\ password \in Password \cup {None}
    /\ sessions = {} /\ known = [c \in Client |-> None] /\ harm = {}

\* spawn_if_configured. A file that cannot be read leaves the server off; a
\* setting that names none, which is an empty one here, lets nobody in by key.
Spawn ==
    /\ stage = "down"
    /\ \/ authorized_keys = None /\ stage' = "off" /\ UNCHANGED accepted
       \/ authorized_keys # None /\ stage' = "load" /\ accepted' = authorized_keys
       \/ stage' = "off" /\ UNCHANGED accepted              \* no root directory
    /\ UNCHANGED <<hostKey, sessions, known>> /\ UNCHANGED OnDisk /\ UNCHANGED Settings

\* Mutant: a key file that cannot be parsed is made anew.
LoadOrMakeAnew ==
    /\ stage = "load"
    /\ IF file \in {None, Cut}
       THEN made < MaxKeys /\ made' = made + 1 /\ hostKey' = made + 1 /\ stage' = "write"
       ELSE hostKey' = file /\ stage' = "bind" /\ UNCHANGED made
    /\ UNCHANGED <<file, synced, harm, accepted, sessions, known>> /\ UNCHANGED Settings

\* load_or_create_host_key: the key in the file, or a new one if there is no
\* file. One that cannot be parsed leaves the server off, at every start.
LoadKey ==
    /\ stage = "load"
    /\ IF file = None
       THEN made < MaxKeys /\ made' = made + 1 /\ hostKey' = made + 1 /\ stage' = "write"
       ELSE IF file = Cut THEN stage' = "off" /\ UNCHANGED <<made, hostKey>>
       ELSE hostKey' = file /\ stage' = "bind" /\ UNCHANGED made
    /\ UNCHANGED <<file, synced, harm, accepted, sessions, known>> /\ UNCHANGED Settings

\* Mutant: the file is made first, for its mode, and written then.
ModeFirst ==
    /\ stage = "write"
    /\ \/ stage' = "mode" /\ file' = hostKey
       \/ stage' = "off" /\ file' = Cut
    /\ synced' = FALSE
    /\ UNCHANGED <<made, harm, hostKey, accepted, sessions, known>> /\ UNCHANGED Settings

\* fs::write makes the file and fills it. If it fails the server stays off,
\* with no file or the part that was written.
WriteKey ==
    /\ stage = "write"
    /\ \/ stage' = "mode" /\ file' = hostKey /\ synced' = FALSE /\ UNCHANGED harm
       \/ stage' = "off" /\ UNCHANGED <<file, synced, harm>>
       \/ stage' = "off" /\ file' = Cut /\ synced' = FALSE /\ harm' = harm \cup {"cut"}
    /\ UNCHANGED <<made, hostKey, accepted, sessions, known>> /\ UNCHANGED Settings

\* set_permissions, then the address is bound; either may fail.
SetMode ==
    /\ stage = "mode" /\ stage' \in {"bind", "off"}
    /\ UNCHANGED <<hostKey, accepted, sessions, known>>
    /\ UNCHANGED OnDisk /\ UNCHANGED Settings

Bind ==
    /\ stage = "bind" /\ stage' \in {"up", "off"}
    /\ UNCHANGED <<hostKey, accepted, sessions, known>>
    /\ UNCHANGED OnDisk /\ UNCHANGED Settings

\* Mutant: no authorized keys is taken for no restriction.
EnterIfNoKeys(c) ==
    /\ stage = "up" /\ known[c] \in {None, hostKey}
    /\ known' = [known EXCEPT ![c] = hostKey]
    /\ accepted = {} \/ c \in accepted
    /\ sessions' = sessions \cup {<<c, "key">>}
    /\ UNCHANGED <<stage, hostKey, accepted>> /\ UNCHANGED OnDisk /\ UNCHANGED Settings

\* A client compares the host key with the one it keeps, if it keeps one, and
\* is let in by a key that was accepted or the password, if that is allowed.
Enter(c) ==
    /\ stage = "up" /\ known[c] \in {None, hostKey}
    /\ known' = [known EXCEPT ![c] = hostKey]
    /\ \/ c \in accepted /\ sessions' = sessions \cup {<<c, "key">>}
       \/ \E sent \in Password : allow_password /\ password # None /\ sent = password
            /\ sessions' = sessions \cup {<<c, "password">>}
       \/ UNCHANGED sessions                                 \* rejected, or too late
    /\ UNCHANGED <<stage, hostKey, accepted>> /\ UNCHANGED OnDisk /\ UNCHANGED Settings

Leave ==
    /\ \E s \in sessions : sessions' = sessions \ {s}
    /\ UNCHANGED <<stage, hostKey, accepted, known>> /\ UNCHANGED OnDisk /\ UNCHANGED Settings

\* The operator changes the file: the process has read it already.
EditKeys ==
    /\ authorized_keys' \in {None} \cup SUBSET Client
    /\ UNCHANGED <<stage, hostKey, accepted, allow_password, password, sessions, known>>
    /\ UNCHANGED OnDisk

\* The process is killed: in the middle of the write, too.
Kill ==
    /\ stage' = "down" /\ hostKey' = None /\ accepted' = {} /\ sessions' = {}
    /\ \/ UNCHANGED <<file, synced, harm>>
       \/ stage = "write" /\ file' = Cut /\ synced' = FALSE /\ harm' = harm \cup {"cut"}
    /\ UNCHANGED <<made, known>> /\ UNCHANGED Settings

\* The power fails: a file that is not on the disk is lost or cut.
PowerFails ==
    /\ stage' = "down" /\ hostKey' = None /\ accepted' = {} /\ sessions' = {}
    /\ \/ /\ ~synced /\ file' \in {None, Cut}
          /\ harm' = harm \cup {IF file' = None THEN "lost" ELSE "cut"}
       \/ UNCHANGED <<file, harm>>
    /\ synced' = TRUE
    /\ UNCHANGED <<made, known>> /\ UNCHANGED Settings

Sync ==
    /\ ~synced /\ synced' = TRUE
    /\ UNCHANGED <<stage, hostKey, file, made, harm, accepted, sessions, known>>
    /\ UNCHANGED Settings
Next ==
    \/ Spawn \/ LoadKey \/ WriteKey \/ SetMode \/ Bind
    \/ Leave \/ EditKeys \/ Kill \/ PowerFails \/ Sync
    \/ \E c \in Client : Enter(c)

-----------------------------------------------------------------------------
TypeOK ==
    LET Key == {None} \cup 1..MaxKeys
    IN  /\ stage \in {"down", "load", "write", "mode", "bind", "up", "off"}
        /\ hostKey \in Key /\ file \in Key \cup {Cut} /\ synced \in BOOLEAN
        /\ made \in 0..MaxKeys /\ harm \subseteq {"cut", "lost"}
        /\ accepted \subseteq Client /\ authorized_keys \in {None} \cup SUBSET Client
        /\ sessions \subseteq Client \X {"key", "password"} /\ known \in [Client -> Key]

\* A client never meets another host key than the one it keeps, through every
\* restart, unless the power failed before the file's name was on the disk.
SameHostKey ==
    stage = "up" /\ "lost" \notin harm => \A c \in Client : known[c] \in {None, hostKey}

\* The server is kept from starting by its own key file only if a write of it
\* was cut short, by the disk, a kill or the power.
UnreadableOnlyIfCut == file = Cut => "cut" \in harm

\* Whoever is logged in has a key that was listed when this process started, or
\* came with the password while that was allowed: with neither, nobody is.
LetInAsTold ==
    \A s \in sessions :
      \/ s[2] = "key" /\ s[1] \in accepted
      \/ s[2] = "password" /\ allow_password /\ password # None
=============================================================================
