CONSTANTS
    Scripts <- JobScripts
    Missing <- MCMissing
    Unreadable <- MCUnreadable
    Big <- MCBig
    Crashing <- MCCrashing
    MaxProcs = 7
    MaxPipes = 3
    MaxInterrupts = 0
SPECIFICATION Spec
INVARIANT BackgroundStops
CHECK_DEADLOCK FALSE
