----------------------------- MODULE DurableMap -----------------------------
(***************************************************************************)
(* What a persisted registry promises: the copy on disk is always a whole  *)
(* state the registry was in when it was saved, never a mixture, and a     *)
(* restart continues from that copy. HostRegistry.tla implements this.     *)
(***************************************************************************)
CONSTANTS Place, Config, None

VARIABLES
    map,    \* [Place -> its entry, or None]
    disk    \* the copy a restart would load

vars == <<map, disk>>

Init ==
    /\ map \in [Place -> Config \cup {None}]
    /\ disk = map

Change(p, c) ==
    /\ map' = [map EXCEPT ![p] = c]
    /\ UNCHANGED disk

Save == disk' = map /\ UNCHANGED map

Restart == map' = disk /\ UNCHANGED disk

Next ==
    \/ \E p \in Place, c \in Config \cup {None} : Change(p, c)
    \/ Save
    \/ Restart

Spec == Init /\ [][Next]_vars
=============================================================================
