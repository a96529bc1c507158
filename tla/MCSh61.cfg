CONSTANTS
    Scripts <- TidyScripts
    Missing <- MCMissing
    Unreadable <- MCUnreadable
    Big <- MCBig
    Crashing <- MCCrashing
    MaxProcs = 7
    MaxPipes = 3
    MaxInterrupts = 1
SPECIFICATION Spec
INVARIANTS TypeOK PromptTidy
PROPERTIES ReadersSeeEnd ImplementsShell ScriptEnds
CHECK_DEADLOCK FALSE
