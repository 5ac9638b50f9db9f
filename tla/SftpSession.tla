----------------------------- MODULE SftpSession -----------------------------
(***************************************************************************)
(* SftpSubsystem of sftp.rs: the requests of several SFTP channels over    *)
(* one directory. A channel answers its requests one at a time and knows a *)
(* file by its path alone: a handle is the path it was opened with. Left   *)
(* out: what files hold but for its length, modes and times, links, and    *)
(* the requests that only look (read, stat, lstat, fstat, realpath).       *)
(***************************************************************************)
EXTENDS Integers, FiniteSets, SequencesExt

CONSTANTS
    Channel,        \* channels; one that ends is used again
    Path,           \* paths below the root, each a sequence of names
    MaxLen,         \* bound: length of a file
    MaxFiles,       \* bound: files at a time
    MaxOpens        \* bound, per channel: handles it gives out

Root == <<>>

\* What paths are made of: path components.
Component == UNION {Range(p) : p \in Path}

\* What the constants must be.
Parameters ==
    /\ Path \subseteq Seq(Component)
    /\ \A p \in Path : p # Root /\ Front(p) \in Path \cup {Root}
    /\ MaxLen \in Nat /\ MaxFiles \in Nat /\ MaxOpens \in [Channel -> Nat]

VARIABLES
    tree,           \* path -> 0 for a directory, or the number of a file
    length,         \* per file: its length; 0 for one without a name
    handles,        \* per channel: handle -> path
    next_handle,    \* per channel: handles given out
    exhausted,      \* per channel: handles whose directory was listed
    doing,          \* per channel: the request between two of its calls
    opened,         \* the clients: handles they hold, their paths and listings
    stored          \* history: per file, the length that was acknowledged

vars == <<tree, length, handles, next_handle, exhausted, doing, opened, stored>>

File == 1..MaxFiles
Nothing == [op |-> "none", file |-> 0, from |-> Root, to |-> Root, was |-> 0]
NoHandles == [h \in {} |-> Root]
Top == [p \in {Root} |-> 0]

Init ==
    /\ tree = Top /\ length = [f \in File |-> 0] /\ stored = length
    /\ handles = [c \in Channel |-> NoHandles] /\ next_handle = [c \in Channel |-> 0]
    /\ exhausted = [c \in Channel |-> {}] /\ opened = [c \in Channel |-> {}]
    /\ doing = [c \in Channel |-> Nothing]

Exists(p) == p \in DOMAIN tree
IsDir(p) == Exists(p) /\ tree[p] = 0
IsFile(p) == Exists(p) /\ tree[p] # 0
Occupant(p) == IF IsFile(p) THEN tree[p] ELSE 0
Below(p) == {q \in DOMAIN tree : IsPrefix(p, q) /\ q # p}
Held == {tree[p] : p \in DOMAIN tree} \ {0}     \* files that have a name
Made == Held \cup {doing[c].file : c \in Channel}

\* resolve_within_root: the path or the directory it would be made in is there.
Resolves(p) == Exists(Root) /\ (Exists(p) \/ Exists(Front(p)))

Idle(c) == doing[c] = Nothing
Answered(c) == doing' = [doing EXCEPT ![c] = Nothing]
FilesStay == UNCHANGED <<tree, length, stored>>
HandlesStay == UNCHANGED <<handles, next_handle, exhausted, opened>>
Without(f, set) == [x \in DOMAIN f \ set |-> f[x]]
With(f, x, v) == [y \in DOMAIN f \cup {x} |-> IF y = x THEN v ELSE f[y]]

-----------------------------------------------------------------------------
\* The next number, and the path under it.
NewHandle(c, p) ==
    LET h == next_handle[c] + 1
    IN  /\ h <= MaxOpens[c]
        /\ next_handle' = [next_handle EXCEPT ![c] = h]
        /\ handles' = [handles EXCEPT ![c] = With(@, h, p)]
        /\ opened' = [opened EXCEPT ![c] = @ \cup {[handle |-> h, path |-> p, lists |-> 0]}]
        /\ UNCHANGED <<exhausted, doing>> /\ FilesStay

OpenDir(c) ==
    \E p \in Path \cup {Root} :
      /\ Idle(c) /\ Resolves(p) /\ IsDir(p)
      /\ NewHandle(c, p)

\* open: of the flags only WRITE counts. It neither makes nor cuts the file.
Open(c) ==
    \E p \in Path, writes \in BOOLEAN :
      /\ Idle(c) /\ Resolves(p)
      /\ writes \/ Exists(p)
      /\ NewHandle(c, p)

\* Mutant: a handle stays marked as listed when it is closed.
CloseOnly(c) ==
    \E r \in opened[c] :
      /\ Idle(c)
      /\ handles' = [handles EXCEPT ![c] = Without(@, {r.handle})]
      /\ opened' = [opened EXCEPT ![c] = @ \ {r}]
      /\ UNCHANGED <<next_handle, exhausted, doing>> /\ FilesStay

\* Mutant: the number of a closed handle is given out again.
CloseGivesBack(c) ==
    \E r \in opened[c] :
      /\ Idle(c)
      /\ handles' = [handles EXCEPT ![c] = Without(@, {r.handle})]
      /\ exhausted' = [exhausted EXCEPT ![c] = @ \ {r.handle}]
      /\ opened' = [opened EXCEPT ![c] = @ \ {r}]
      /\ next_handle' = [next_handle EXCEPT ![c] = @ - 1]
      /\ UNCHANGED doing /\ FilesStay

Close(c) ==
    \E r \in opened[c] :
      /\ Idle(c)
      /\ handles' = [handles EXCEPT ![c] = Without(@, {r.handle})]
      /\ exhausted' = [exhausted EXCEPT ![c] = @ \ {r.handle}]
      /\ opened' = [opened EXCEPT ![c] = @ \ {r}]
      /\ UNCHANGED <<next_handle, doing>> /\ FilesStay

\* readdir: everything at once; Eof for the handle from then on.
ReadDir(c) ==
    \E r \in opened[c] :
      /\ Idle(c)
      /\ r.handle \notin exhausted[c] /\ r.handle \in DOMAIN handles[c]
      /\ IsDir(handles[c][r.handle])
      /\ exhausted' = [exhausted EXCEPT ![c] = @ \cup {r.handle}]
      /\ opened' = [opened EXCEPT ![c] = (@ \ {r}) \cup {[r EXCEPT !.lists = @ + 1]}]
      /\ UNCHANGED <<handles, next_handle, doing>> /\ FilesStay

-----------------------------------------------------------------------------
\* write opens the path of the handle, and makes the file if there is none.
WriteOpen(c) ==
    \E r \in opened[c] :
      LET p == handles[c][r.handle]
      IN  /\ Idle(c) /\ r.handle \in DOMAIN handles[c] /\ p # Root
          /\ \/ IsFile(p) /\ UNCHANGED <<tree, length, stored>>
                /\ doing' = [doing EXCEPT ![c] = [Nothing EXCEPT !.op = "write",
                                                                !.file = tree[p]]]
             \/ /\ ~Exists(p) /\ IsDir(Front(p))
                /\ \E f \in File \ Made :
                     /\ \A g \in File \ Made : f <= g
                     /\ tree' = With(tree, p, f)
                     /\ doing' = [doing EXCEPT ![c] = [Nothing EXCEPT !.op = "write",
                                                                     !.file = f]]
                /\ UNCHANGED <<length, stored>>
          /\ HandlesStay

\* The lengths lens, with that of f at least end, if it has a name and is written.
Longer(lens, f, end, done) ==
    IF done /\ f \in Held /\ lens[f] < end THEN [lens EXCEPT ![f] = end] ELSE lens

\* ... and writes to the file it opened, wherever that is by now: what is
\* written to one that was removed in between is acknowledged, and gone. A
\* failure may have written a part.
WriteData(c) ==
    \E end \in 1..MaxLen, written, good \in BOOLEAN :
      LET f == doing[c].file
      IN  /\ doing[c].op = "write" /\ (good => written)
          /\ length' = Longer(length, f, end, written)
          /\ stored' = Longer(stored, f, end, good)
          /\ Answered(c) /\ HandlesStay /\ UNCHANGED tree

\* setstat and fsetstat with a length: of the file at the path, if it is one.
\* The mode or the time may fail after it: the file is cut all the same.
SetLength(c) ==
    \E p \in Path, len \in 0..MaxLen :
      LET f == Occupant(p)
      IN  /\ Idle(c) /\ f # 0
          /\ \/ Resolves(p)
             \/ \E r \in opened[c] : handles[c][r.handle] = p
          /\ length' = [length EXCEPT ![f] = len]
          /\ stored' = [stored EXCEPT ![f] = IF len < @ THEN len ELSE @]
          /\ UNCHANGED <<tree, doing>> /\ HandlesStay

RemoveFile(c) ==
    \E p \in Path :
      /\ Idle(c) /\ Resolves(p) /\ IsFile(p)
      /\ stored' = [stored EXCEPT ![tree[p]] = 0] /\ length' = [length EXCEPT ![tree[p]] = 0]
      /\ tree' = Without(tree, {p})
      /\ UNCHANGED doing /\ HandlesStay

MkDir(c) ==
    \E p \in Path :
      /\ Idle(c) /\ Resolves(p) /\ ~Exists(p) /\ IsDir(Front(p))
      /\ tree' = With(tree, p, 0)
      /\ UNCHANGED <<length, stored, doing>> /\ HandlesStay

\* rmdir takes an empty directory: the root too, after which no path resolves
\* until the process starts again.
RmDir(c) ==
    \E p \in Path \cup {Root} :
      /\ Idle(c) /\ Resolves(p) /\ IsDir(p) /\ Below(p) = {}
      /\ tree' = Without(tree, {p})
      /\ UNCHANGED <<length, stored, doing>> /\ HandlesStay

-----------------------------------------------------------------------------
\* Mutant: rename does not look whether the new name is taken.
RenameUnseen(c) ==
    \E p, q \in Path :
      /\ Idle(c) /\ Resolves(p) /\ Resolves(q) /\ Exists(p) /\ p # q
      /\ doing' = [doing EXCEPT ![c] = [Nothing EXCEPT !.op = "rename", !.from = p,
                                                       !.to = q, !.was = Occupant(q)]]
      /\ FilesStay /\ HandlesStay

\* rename first looks: the old name must be there, the new one must not.
RenameCheck(c) ==
    \E p, q \in Path :
      /\ Idle(c) /\ Resolves(p) /\ Resolves(q)
      /\ Exists(p) /\ ~Exists(q)
      /\ doing' = [doing EXCEPT ![c] = [Nothing EXCEPT !.op = "rename", !.from = p,
                                                       !.to = q, !.was = Occupant(q)]]
      /\ FilesStay /\ HandlesStay

\* p and what is below it, under the name q.
Moved(p, q) ==
    LET gone == {p, q} \cup Below(p)
        to(x) == q \o SubSeq(x, Len(p) + 1, Len(x))
        new == {to(x) : x \in {p} \cup Below(p)}
    IN  [y \in (DOMAIN tree \ gone) \cup new |->
           IF y \in new THEN tree[p \o SubSeq(y, Len(q) + 1, Len(y))] ELSE tree[y]]

\* What rename(2) of the operating system lets pass: a file over a file, a
\* directory over an empty one.
Allowed(p, q) ==
    /\ Exists(p) /\ ~IsPrefix(p, q) /\ IsDir(Front(q))
    /\ Exists(q) => IF IsFile(p) THEN IsFile(q) ELSE IsDir(q) /\ Below(q) = {}
    /\ DOMAIN Moved(p, q) \subseteq Path \cup {Root}    \* bound: depth

\* ... then renames, over what came there in the meantime.
RenameMove(c) ==
    LET p == doing[c].from   q == doing[c].to   f == Occupant(q)
    IN  /\ doing[c].op = "rename"
        /\ IF Allowed(p, q)
           THEN /\ tree' = Moved(p, q)
                /\ stored' = IF f # 0 /\ f # doing[c].was THEN [stored EXCEPT ![f] = 0]
                             ELSE stored
                /\ length' = IF f # 0 THEN [length EXCEPT ![f] = 0] ELSE length
           ELSE UNCHANGED <<tree, stored, length>>
        /\ Answered(c) /\ HandlesStay

\* The channel ends between two requests; another begins with new tables.
Ended(cs) ==
    /\ handles' = [c \in Channel |-> IF c \in cs THEN NoHandles ELSE handles[c]]
    /\ exhausted' = [c \in Channel |-> IF c \in cs THEN {} ELSE exhausted[c]]
    /\ opened' = [c \in Channel |-> IF c \in cs THEN {} ELSE opened[c]]
    /\ next_handle' = [c \in Channel |-> IF c \in cs THEN 0 ELSE next_handle[c]]

ChannelEnds(c) == Idle(c) /\ Ended({c}) /\ FilesStay /\ UNCHANGED doing

\* The process starts again, and makes the root if it is not there.
Restart ==
    /\ Ended(Channel)
    /\ doing' = [c \in Channel |-> Nothing]
    /\ tree' = IF Exists(Root) THEN tree ELSE Top
    /\ UNCHANGED <<length, stored>>

Next ==
    \/ Restart
    \/ \E c \in Channel :
         OpenDir(c) \/ Open(c) \/ ReadDir(c) \/ Close(c) \/ WriteOpen(c) \/ WriteData(c)
           \/ SetLength(c) \/ RemoveFile(c) \/ MkDir(c) \/ RmDir(c)
           \/ RenameCheck(c) \/ RenameMove(c) \/ ChannelEnds(c)

-----------------------------------------------------------------------------
TypeOK ==
    /\ DOMAIN tree \subseteq Path \cup {Root} /\ \A p \in DOMAIN tree : tree[p] \in 0..MaxFiles
    /\ \A p \in DOMAIN tree \ {Root} : IsDir(Front(p))
    /\ length \in [File -> 0..MaxLen] /\ stored \in [File -> 0..MaxLen]
    /\ \A c \in Channel :
         /\ next_handle[c] \in 0..MaxOpens[c]
         /\ DOMAIN handles[c] \subseteq 1..MaxOpens[c]
         /\ \A h \in DOMAIN handles[c] : handles[c][h] \in Path \cup {Root}

\* A client that holds a handle reaches through it the path it opened, whatever
\* it and the others have opened and closed since.
HandleKeepsPath ==
    \A c \in Channel : \A r \in opened[c] :
      r.handle \in DOMAIN handles[c] /\ handles[c][r.handle] = r.path

\* A directory handle gives its listing once, and the record of that goes with
\* the handle.
ListedOnce ==
    \A c \in Channel :
      /\ exhausted[c] = {r.handle : r \in {s \in opened[c] : s.lists > 0}}
      /\ \A r \in opened[c] : r.lists <= 1

\* What was acknowledged as written stays, until a client removes or cuts that
\* very file: a rename replaces a file only if that came to the name after the
\* rename had looked.
StoredStays ==
    \A f \in File : stored[f] > 0 => f \in Held /\ length[f] >= stored[f]
=============================================================================
