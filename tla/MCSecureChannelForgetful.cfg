\* More frames than the guard tracks, restarts on both sides, any clock.
SPECIFICATION Spec
CONSTANTS
    Window = 0
    MaxTracked = 1
    Time <- Seconds
    MaxSeq = 2
    MaxLife = 1
    MayRestart = TRUE
INVARIANTS
    NeverTwiceUnlessForgot
    FalseAlarmNeedsRestart
