----------------------------- MODULE SelfUpdate -----------------------------
(***************************************************************************)
(* The self update of self_update.rs on Unix: a newer release is fetched,  *)
(* its files are copied over the installed ones, the new binary is tried   *)
(* on the next port, and either takes over or is replaced by the backup.   *)
(* The running process goes on meanwhile; it may be killed at any moment,  *)
(* and is then started from whatever the binary is. A version stands for   *)
(* the file it was built into, 0 for a file cut short or missing.          *)
(***************************************************************************)
EXTENDS Integers

CONSTANTS
    MaxVersion,     \* bound: releases
    MaxCrashes      \* bound: crashes

\* What the constants must be.
Parameters == MaxVersion \in Nat \ {0} /\ MaxCrashes \in Nat

Version == 1..MaxVersion
File == {"binary", "version.json"}

VARIABLES
    release,        \* the latest release on GitHub
    sound,          \* versions that start and pass the health check
    overwrites,     \* does the system let a running binary be overwritten?
    enabled,        \* AutoUpdateState.enabled
    disk,           \* the installed files, by version
    backup,         \* open-web-server.bak
    stage,          \* what the attempt does next
    new,            \* the version it installs
    todo,           \* files still to copy
    running, heir,  \* the process that serves, and the one to take over; 0 none
    torn,           \* history: did an attempt end with the binary not put right?
    crashed,        \* history: was the process killed since the last start?
    crashes         \* bound counter

attempt == <<backup, stage, new, todo>>
vars == <<release, sound, overwrites, enabled, disk, attempt, running, heir, torn,
          crashed, crashes>>

Init ==
    /\ release = 1 /\ sound \in {s \in SUBSET Version : 1 \in s}
    /\ overwrites \in BOOLEAN /\ enabled \in BOOLEAN
    /\ disk \in {[f \in File |-> 1], [f \in File |-> IF f = "binary" THEN 1 ELSE 0]}
    /\ backup = 0 /\ stage = "idle" /\ new = 0 /\ todo = {}
    /\ running = 1 /\ heir = 0
    /\ torn = FALSE /\ crashed = FALSE /\ crashes = 0

Release ==
    /\ release < MaxVersion /\ release' = release + 1
    /\ UNCHANGED <<sound, overwrites, enabled, disk, attempt, running, heir, torn,
                   crashed, crashes>>

\* set_auto_update: it counts at the next check, 24 hours later at most.
SetAutoUpdate ==
    /\ enabled' = ~enabled
    /\ UNCHANGED <<release, sound, overwrites, disk, attempt, running, heir, torn,
                   crashed, crashes>>

-----------------------------------------------------------------------------
\* Has the attempt at hand opened the binary?
Opened == stage \notin {"idle", "backup"} /\ "binary" \notin todo

\* An attempt that ends before its last step is only logged.
GiveUp ==
    /\ stage' = "idle" /\ torn' = (torn \/ Opened) /\ new' = 0 /\ todo' = {}
    /\ UNCHANGED <<backup, heir, running>>

\* check_and_apply_update: a release newer than version.json says is fetched.
Check ==
    /\ running # 0 /\ stage = "idle" /\ enabled
    /\ disk["version.json"] # 0 /\ release > disk["version.json"]
    /\ stage' = "backup" /\ new' = release
    /\ UNCHANGED <<release, sound, overwrites, enabled, disk, backup, todo, running, heir,
                   torn, crashed, crashes>>

BackUp ==
    /\ stage = "backup"
    /\ \/ /\ backup' = disk["binary"] /\ stage' = "copy" /\ todo' = File
          /\ UNCHANGED <<new, running, heir, torn>>
       \/ GiveUp
    /\ UNCHANGED <<release, sound, overwrites, enabled, disk, crashed, crashes>>

\* copy_dir_recursive: the files in the order the directory gives them, each
\* emptied and then written. The binary that runs cannot be opened for writing
\* on Linux.
Open(f) ==
    /\ stage = "copy" /\ f \in todo
    /\ IF f = "binary" /\ ~overwrites
       THEN GiveUp /\ UNCHANGED disk
       ELSE \/ /\ disk' = [disk EXCEPT ![f] = 0] /\ stage' = f /\ todo' = todo \ {f}
               /\ UNCHANGED <<backup, new, running, heir, torn>>
            \/ GiveUp /\ UNCHANGED disk
    /\ UNCHANGED <<release, sound, overwrites, enabled, crashed, crashes>>

Write ==
    /\ stage \in File
    /\ \/ /\ disk' = [disk EXCEPT ![stage] = new]
          /\ stage' = IF todo = {} THEN "probe" ELSE "copy"
          /\ UNCHANGED <<backup, new, todo, running, heir, torn>>
       \/ GiveUp /\ UNCHANGED disk
    /\ UNCHANGED <<release, sound, overwrites, enabled, crashed, crashes>>

\* Mutant: a version that has ended at once is not noticed.
Passes(v) == {TRUE}

\* What the health check may find: a sound version may still be too slow.
Healthy(v) == {FALSE} \cup (IF v \in sound THEN {TRUE} ELSE {})

\* The new version is tried on the next port. If it answers it is started for
\* good; spawning it may fail.
Probe ==
    /\ stage = "probe"
    /\ \/ \E healthy \in Healthy(new) :
             /\ stage' = IF healthy THEN "exit" ELSE "restore"
             /\ heir' = IF healthy THEN new ELSE heir
             /\ UNCHANGED <<backup, new, todo, running, torn>>
       \/ GiveUp
    /\ UNCHANGED <<release, sound, overwrites, enabled, disk, crashed, crashes>>

\* The old process ends; it had the port until now.
Exit ==
    /\ stage = "exit"
    /\ running' = 0 /\ stage' = "idle" /\ new' = 0 /\ torn' = FALSE
    /\ UNCHANGED <<release, sound, overwrites, enabled, disk, backup, todo, heir,
                   crashed, crashes>>

\* The new process binds the port, or ends because the old one still has it.
TakeOver ==
    /\ heir # 0 /\ heir' = 0
    /\ running' = IF running = 0 THEN heir ELSE running
    /\ UNCHANGED <<release, sound, overwrites, enabled, disk, attempt, torn, crashed, crashes>>

\* Mutant: the new binary is left in its place.
RestoreNothing ==
    /\ stage = "restore"
    /\ stage' = "idle" /\ new' = 0
    /\ UNCHANGED <<release, sound, overwrites, enabled, disk, backup, todo, running, heir,
                   torn, crashed, crashes>>

\* The rollback copies the binary alone: version.json still names the version
\* that failed, which is therefore not tried again.
Restore ==
    /\ stage = "restore"
    /\ \/ /\ disk' = [disk EXCEPT !["binary"] = 0] /\ stage' = "restoring"
          /\ UNCHANGED <<backup, new, todo, running, heir, torn>>
       \/ GiveUp /\ UNCHANGED disk
    /\ UNCHANGED <<release, sound, overwrites, enabled, crashed, crashes>>

Restored ==
    /\ stage = "restoring"
    /\ \/ /\ disk' = [disk EXCEPT !["binary"] = backup] /\ stage' = "idle" /\ new' = 0
          /\ UNCHANGED <<backup, todo, running, heir, torn>>
       \/ GiveUp /\ UNCHANGED disk
    /\ UNCHANGED <<release, sound, overwrites, enabled, crashed, crashes>>

-----------------------------------------------------------------------------
Crash ==
    /\ running # 0 /\ crashes < MaxCrashes
    /\ crashes' = crashes + 1
    /\ running' = 0 /\ heir' = 0 /\ stage' = "idle" /\ new' = 0 /\ todo' = {}
    /\ torn' = (torn \/ Opened) /\ crashed' = TRUE
    /\ UNCHANGED <<release, sound, overwrites, enabled, disk, backup>>

\* The installed binary is started, if it is whole and sound: by the service
\* manager after a crash; by hand or with the machine when the server has ended
\* itself, which is no failure to the service manager (Restart=on-failure).
Start ==
    /\ running = 0 /\ heir = 0 /\ disk["binary"] \in sound
    /\ running' = disk["binary"]
    /\ enabled' \in BOOLEAN /\ crashed' = FALSE
    /\ UNCHANGED <<release, sound, overwrites, disk, attempt, heir, torn, crashes>>

Next ==
    \/ Release \/ SetAutoUpdate \/ Check \/ BackUp \/ Write \/ Probe \/ Exit \/ TakeOver
    \/ Restore \/ Restored \/ Crash \/ Start
    \/ \E f \in File : Open(f)

-----------------------------------------------------------------------------
TypeOK ==
    /\ release \in Version /\ sound \subseteq Version
    /\ overwrites \in BOOLEAN /\ enabled \in BOOLEAN
    /\ disk \in [File -> 0..MaxVersion] /\ backup \in 0..MaxVersion
    /\ stage \in {"idle", "backup", "copy", "probe", "exit", "restore", "restoring"} \cup File
    /\ new \in 0..MaxVersion /\ todo \subseteq File
    /\ running \in 0..MaxVersion /\ heir \in 0..MaxVersion
    /\ torn \in BOOLEAN /\ crashed \in BOOLEAN
    /\ crashes \in 0..MaxCrashes

\* An attempt that apply_update_unix has brought to its end, or rolled back,
\* leaves a sound binary in place: only one that was cut short after the binary
\* was opened, by an error or by a crash, may not.
BinaryPutRight == stage = "idle" /\ ~torn => disk["binary"] \in sound

\* Whoever serves is a version that starts and passes the health check.
NeverUnsound == running \in sound \cup {0}

\* What apply_update_unix is said to do: the new version is started on the real
\* port and the old one ends, so that only a crash leaves nobody who serves or
\* is about to. The code spawns the new process while the old one still has the
\* port.
ServesOn == running # 0 \/ heir # 0 \/ crashed
=============================================================================
