\* One newer release that starts well, and no crash.
SPECIFICATION Spec
CONSTANTS
    MaxVersion = 2
    MaxCrashes = 0
INVARIANTS
    ServesOn
CHECK_DEADLOCK FALSE
