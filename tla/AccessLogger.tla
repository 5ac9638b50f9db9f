---------------------------- MODULE AccessLogger ----------------------------
(***************************************************************************)
(* The structured access log with its rotation (access_log.rs). An entry   *)
(* is written by a blocking task, one at a time under a mutex, so that a   *)
(* request that is dropped has no effect on it. Before an entry that does  *)
(* not fit the file is rotated: the oldest backup is removed, every other  *)
(* renamed to the next number, the file compressed to number 1 and then    *)
(* removed. Any of these steps may fail, which loses the entry alone, and  *)
(* the process may die after any of them.                                  *)
(*                                                                         *)
(* Entries are numbered in the order in which they take the mutex; a file  *)
(* is the sequence of its lines, a line the sequence of the entries it     *)
(* holds: more than one if the line before had lost its end.               *)
(***************************************************************************)
EXTENDS Integers, Sequences, FiniteSets

CONSTANTS
    MaxBytes,       \* OPEN_WEB_SERVER_ACCESS_LOG_MAX_BYTES
    MaxBackups,     \* OPEN_WEB_SERVER_ACCESS_LOG_MAX_BACKUPS
    Size,           \* the sizes of entries
    MaxEntries,     \* bound: entries
    MaxFailures,    \* bound: operations that fail
    MaxCrashes,     \* bound: crashes
    None            \* no file

\* What the constants must be.
Parameters ==
    /\ MaxBytes \in Nat /\ MaxBackups \in Nat
    /\ Size \subseteq Nat \ {0} /\ Size # {}
    /\ MaxEntries \in Nat /\ MaxFailures \in Nat /\ MaxCrashes \in Nat
    /\ None \notin Seq(Seq(Int))

Entry == 1..MaxEntries

Generation == 1..MaxBackups

VARIABLES
    current,    \* the lines of the file, or None
    length,     \* its length
    backup,     \* the lines of each backup, or None; cut files hold nothing
    stage,      \* what the task that has the mutex does next
    gen,        \* the number it renames next
    size,       \* the size of its entry
    entries,    \* entries that were begun
    written,    \* history: entries whose write succeeded
    rotations,  \* history: rotations begun since each entry was written
    broken,     \* history: did a rotation fail or die half-way?
    failures, crashes   \* bound counters

disk == <<current, length, backup>>
history == <<written, rotations>>
bounds == <<failures, crashes>>

vars == <<disk, stage, gen, size, entries, history, broken, bounds>>

Stages == {"idle", "check", "oldest", "shift", "create", "compress", "remove", "line", "end"}

Rotating == {"oldest", "shift", "create", "compress", "remove"}

Init ==
    /\ current = None /\ length = 0
    /\ backup = [g \in Generation |-> None]
    /\ stage = "idle" /\ gen = 0 /\ size = 0
    /\ entries = 0 /\ written = {}
    /\ rotations = [e \in Entry |-> 0]
    /\ broken = FALSE
    /\ failures = 0 /\ crashes = 0

\* write_entry_blocking takes the mutex; the directory is created if need be.
Begin ==
    /\ stage = "idle" /\ entries < MaxEntries
    /\ entries' = entries + 1
    /\ \E s \in Size : size' = s
    /\ stage' = "check"
    /\ UNCHANGED <<disk, gen, history, broken, bounds>>

\* The end of the line counts as well.
Fits == length + size + 1 <= MaxBytes

Check ==
    /\ stage = "check"
    /\ IF current = None \/ length = 0 \/ Fits
       THEN stage' = "line" /\ UNCHANGED <<disk, rotations>>
       ELSE IF MaxBackups = 0
       THEN /\ \/ current' = None /\ length' = 0
               \/ UNCHANGED <<current, length>>
            /\ stage' = "line"
            /\ rotations' = [e \in Entry |-> IF e \in written THEN rotations[e] + 1
                                             ELSE rotations[e]]
            /\ UNCHANGED backup
       ELSE /\ stage' = "oldest" /\ UNCHANGED disk
            /\ rotations' = [e \in Entry |-> IF e \in written THEN rotations[e] + 1
                                             ELSE rotations[e]]
    /\ UNCHANGED <<gen, size, entries, written, broken, bounds>>

RemoveOldest ==
    /\ stage = "oldest"
    /\ backup' = [backup EXCEPT ![MaxBackups] = None]
    /\ gen' = MaxBackups - 1
    /\ stage' = IF MaxBackups = 1 THEN "create" ELSE "shift"
    /\ UNCHANGED <<current, length, size, entries, history, broken, bounds>>

\* Mutant: the renaming begins with the newest.
ShiftUpwards ==
    LET g == MaxBackups - gen IN
    /\ stage = "shift"
    /\ backup' = IF backup[g] = None THEN backup
                 ELSE [backup EXCEPT ![g + 1] = backup[g], ![g] = None]
    /\ gen' = gen - 1
    /\ stage' = IF gen = 1 THEN "create" ELSE "shift"
    /\ UNCHANGED <<current, length, size, entries, history, broken, bounds>>

\* From the oldest to the newest.
Shift ==
    /\ stage = "shift"
    /\ backup' = IF backup[gen] = None THEN backup
                 ELSE [backup EXCEPT ![gen + 1] = backup[gen], ![gen] = None]
    /\ gen' = gen - 1
    /\ stage' = IF gen = 1 THEN "create" ELSE "shift"
    /\ UNCHANGED <<current, length, size, entries, history, broken, bounds>>

\* gzip_file reads the file and truncates its target,
Create ==
    /\ stage = "create"
    /\ backup' = [backup EXCEPT ![1] = <<>>]
    /\ stage' = "compress"
    /\ UNCHANGED <<current, length, gen, size, entries, history, broken, bounds>>

\* then writes it.
Compress ==
    /\ stage = "compress"
    /\ backup' = [backup EXCEPT ![1] = current]
    /\ stage' = "remove"
    /\ UNCHANGED <<current, length, gen, size, entries, history, broken, bounds>>

\* Mutant: the file is left as it is.
RemoveCurrentForgotten ==
    /\ stage = "remove"
    /\ stage' = "line"
    /\ UNCHANGED <<disk, gen, size, entries, history, broken, bounds>>

RemoveCurrent ==
    /\ stage = "remove"
    /\ current' = None /\ length' = 0
    /\ stage' = "line"
    /\ UNCHANGED <<backup, gen, size, entries, history, broken, bounds>>

\* The file ends in a line without its end: the next entry goes on with it.
Unended == current # None /\ current # <<>> /\ current[Len(current)][1] < 0

\* The line is appended to the file, which is created if it is not there. An
\* entry whose end is missing is marked by its negative.
WriteLine ==
    LET lines == IF current = None THEN <<>> ELSE current IN
    /\ stage = "line"
    /\ current' = IF Unended
                  THEN [lines EXCEPT ![Len(lines)] = <<-entries>> \o
                           <<-@[1]>> \o Tail(@)]
                  ELSE Append(lines, <<-entries>>)
    /\ length' = length + size
    /\ stage' = "end"
    /\ UNCHANGED <<backup, gen, size, entries, history, broken, bounds>>

WriteEnd ==
    /\ stage = "end"
    /\ current' = [current EXCEPT ![Len(current)][1] = entries]
    /\ length' = length + 1
    /\ written' = written \cup {entries}
    /\ stage' = "idle"
    /\ UNCHANGED <<backup, gen, size, entries, rotations, broken, bounds>>

\* An operation fails; the error is logged and the entry lost. A write may have
\* done part of its work: a file that was opened may have been created, and a
\* part of the line is a line without its end.
Fail ==
    /\ stage # "idle" /\ failures < MaxFailures
    /\ failures' = failures + 1
    /\ broken' = (broken \/ stage \in Rotating)
    /\ stage' = "idle"
    /\ UNCHANGED <<disk, gen, size, entries, history, crashes>>

\* The process dies and starts again; nothing is repaired.
Crash ==
    /\ stage # "idle" /\ crashes < MaxCrashes
    /\ crashes' = crashes + 1
    /\ broken' = (broken \/ stage \in Rotating)
    /\ stage' = "idle"
    /\ UNCHANGED <<disk, gen, size, entries, history, failures>>

Next ==
    \/ Begin \/ Check \/ RemoveOldest \/ Shift \/ Create \/ Compress \/ RemoveCurrent
    \/ WriteLine \/ WriteEnd \/ Fail \/ Crash

Spec == Init /\ [][Next]_vars

-----------------------------------------------------------------------------

Number(n) == IF n < 0 THEN -n ELSE n

\* The entries of a file, in the order of its lines.
InFile(lines) ==
    IF lines = None THEN {} ELSE UNION {{Number(lines[i][j]) : j \in DOMAIN lines[i]} :
                                        i \in DOMAIN lines}

Line == Seq(Int) \ {<<>>}

\* Every variable has its type, and the file is longer than the limit only by
\* an entry that is longer than it alone: or, where no backup is kept, because it
\* could not be removed.
TypeOK ==
    /\ current = None \/ current \in Seq(Line)
    /\ length \in Nat /\ (current = None => length = 0)
    /\ MaxBackups = 0 \/ length <= MaxBytes \/ \E s \in Size : length <= s + 1
    /\ \A g \in Generation : backup[g] = None \/ backup[g] \in Seq(Line)
    /\ stage \in Stages /\ gen \in 0..MaxBackups /\ size \in Size \cup {0}
    /\ entries \in 0..MaxEntries /\ written \subseteq 1..entries
    /\ rotations \in [Entry -> Nat] /\ broken \in BOOLEAN
    /\ failures \in 0..MaxFailures /\ crashes \in 0..MaxCrashes

\* An entry that was written is in the file or in a backup until MaxBackups
\* rotations were begun after the one that took it from the file, whichever
\* operations fail and wherever the process dies.
Retained ==
    \A e \in written : rotations[e] <= MaxBackups =>
        \/ e \in InFile(current)
        \/ \E g \in Generation : e \in InFile(backup[g])

\* Every entry of a backup is older than those of newer backups and of the file;
\* only after a rotation was cut short may an entry be in several.
InOrder ==
    broken \/ \A g \in Generation : \A e \in InFile(backup[g]) :
        /\ \A h \in 1..(g - 1) : \A f \in InFile(backup[h]) : e < f
        /\ stage # "remove" => \A f \in InFile(current) : e < f
=============================================================================
