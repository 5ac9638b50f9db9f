--------------------------- MODULE CrossrepoBackup ---------------------------
(***************************************************************************)
(* The periodic backup of crossrepo_backup.rs: sync_once copies every file *)
(* of a list made at start-up to <repository>/<time>/<file name> below a   *)
(* directory, one after the other, in place. The copies are never pruned.  *)
(***************************************************************************)
EXTENDS Integers, FiniteSets, Functions

CONSTANTS
    File,           \* the files of the sources, by path
    NameOf,         \* [File -> <<repository, file name>>]
    MaxTime,        \* bound: the clock, in seconds
    MaxKills        \* bound: kills

\* What the constants must be.
Parameters == DOMAIN NameOf = File /\ MaxTime \in Nat \ {0} /\ MaxKills \in Nat

VARIABLES
    target,         \* the backup directory: label -> whose copy, and is it whole
    now,            \* the clock
    run,            \* sync_once: its stage, time stamp, files to do, file at hand
    report,         \* SyncReport of this run: what succeeded and what failed
    kept,           \* history: files some run has reported as succeeded
    shared,         \* history: did two runs have the same time stamp?
    used,           \* history: the last time stamp
    kills           \* bound counter

vars == <<target, now, run, report, kept, shared, used, kills>>

Nothing == [ok |-> {}, failed |-> {}]
Asleep == [stage |-> "asleep", stamp |-> 0, todo |-> {}, file |-> {}]

Init ==
    /\ target = <<>> /\ now = 1 /\ run = Asleep /\ report = Nothing
    /\ kept = {} /\ shared = FALSE /\ used = 0 /\ kills = 0

Tick ==
    /\ now < MaxTime /\ now' = now + 1
    /\ UNCHANGED <<target, run, report, kept, shared, used, kills>>

\* ensure_ready may fail: the run then reports the target, and no file.
StartRun ==
    /\ run.stage = "asleep"
    /\ \/ /\ run' = [stage |-> "next", stamp |-> now, todo |-> File, file |-> {}]
          /\ report' = Nothing
          /\ shared' = (shared \/ used = now) /\ used' = now
       \/ /\ report' = [ok |-> {}, failed |-> {"__target__"}]
          /\ UNCHANGED <<run, shared, used>>
    /\ UNCHANGED <<target, now, kept, kills>>

\* Mutant: each run writes over the copies of the last one.
LabelTimeless(f, stamp) == <<0, NameOf[f]>>

\* The path alone is not part of it: two files of one name share a label.
Label(f, stamp) == <<stamp, NameOf[f]>>

\* Mutant: a file that cannot be read ends the run.
ReadOrStop(f) ==
    /\ run.stage = "next" /\ f \in run.todo
    /\ \/ /\ run' = [run EXCEPT !.stage = "upload", !.file = {f}, !.todo = @ \ {f}]
          /\ UNCHANGED report
       \/ /\ run' = [run EXCEPT !.todo = {}]
          /\ report' = [report EXCEPT !.failed = @ \cup {f}]
    /\ UNCHANGED <<target, now, kept, shared, used, kills>>

\* The file is there, or it is not.
Read(f) ==
    /\ run.stage = "next" /\ f \in run.todo
    /\ \/ /\ run' = [run EXCEPT !.stage = "upload", !.file = {f}, !.todo = @ \ {f}]
          /\ UNCHANGED report
       \/ /\ run' = [run EXCEPT !.todo = @ \ {f}]
          /\ report' = [report EXCEPT !.failed = @ \cup {f}]
    /\ UNCHANGED <<target, now, kept, shared, used, kills>>

Store(f, whole) ==
    LET label == Label(f, run.stamp)
    IN  [l \in DOMAIN target \cup {label} |->
            IF l = label THEN [of |-> f, whole |-> whole] ELSE target[l]]

\* upload_segment empties the file it writes to, or fails before.
Upload(f) ==
    /\ run.stage = "upload" /\ run.file = {f}
    /\ \/ /\ target' = Store(f, FALSE) /\ run' = [run EXCEPT !.stage = "write"]
          /\ UNCHANGED report
       \/ /\ run' = [run EXCEPT !.stage = "next", !.file = {}]
          /\ report' = [report EXCEPT !.failed = @ \cup {f}]
          /\ UNCHANGED target
    /\ UNCHANGED <<now, kept, shared, used, kills>>

Write(f) ==
    /\ run.stage = "write" /\ run.file = {f}
    /\ run' = [run EXCEPT !.stage = "next", !.file = {}]
    /\ \/ /\ target' = Store(f, TRUE)
          /\ report' = [report EXCEPT !.ok = @ \cup {f}] /\ kept' = kept \cup {f}
       \/ /\ report' = [report EXCEPT !.failed = @ \cup {f}]
          /\ UNCHANGED <<target, kept>>
    /\ UNCHANGED <<now, shared, used, kills>>

EndRun ==
    /\ run.stage = "next" /\ run.todo = {}
    /\ run' = Asleep
    /\ UNCHANGED <<target, now, report, kept, shared, used, kills>>

\* The process is killed and started again, within the same second perhaps.
Kill ==
    /\ run # Asleep /\ kills < MaxKills
    /\ run' = Asleep /\ report' = [ok |-> {}, failed |-> {"__target__"}]
    /\ kills' = kills + 1
    /\ UNCHANGED <<target, now, kept, shared, used>>

Next ==
    \/ Tick \/ StartRun \/ EndRun \/ Kill
    \/ \E f \in File : Read(f) \/ Upload(f) \/ Write(f)

-----------------------------------------------------------------------------
TypeOK ==
    /\ now \in 1..MaxTime
    /\ DOMAIN target \subseteq ((0..MaxTime) \X Range(NameOf))
    /\ \A l \in DOMAIN target : target[l] \in [of : File, whole : BOOLEAN]
    /\ run \in [stage : {"asleep", "next", "upload", "write"}, stamp : 0..MaxTime,
                todo : SUBSET File, file : SUBSET File]
    /\ report.ok \subseteq File /\ report.failed \subseteq File \cup {"__target__"}
    /\ kept \subseteq File /\ shared \in BOOLEAN /\ used \in 0..MaxTime
    /\ kills \in 0..MaxKills

Alone(f) == \A g \in File \ {f} : NameOf[g] # NameOf[f]

\* A file that some run has reported as synced can be had back from then on,
\* whatever a later run meets: unless two runs fell into one second, or it
\* shares its name with another file of its repository.
KeptForGood ==
    \A f \in kept : ~shared /\ Alone(f) =>
      \E l \in DOMAIN target : target[l] = [of |-> f, whole |-> TRUE]

\* A run that ends has told of every file, one way or the other: a file that
\* cannot be read or copied does not stop the others.
EveryFileTold ==
    run.stage = "asleep" /\ used # 0 /\ "__target__" \notin report.failed =>
      report.ok \cup report.failed = File
=============================================================================
