\* What README.md says of destructive syscalls, with the intent cache on.
CONSTANTS
    t1 = t1
    t2 = t2
    q1 = q1
    search = search
    trash = trash
    write = write
    Tasks <- MCTasks
    Intents <- MCIntents
    Safe <- MCSafe
    Destructive <- MCDestructive
    Timeout = 2
    MaxCalls = 2
    CacheEnabled = TRUE
SPECIFICATION Spec
CHECK_DEADLOCK FALSE
INVARIANT DestructiveNeedsConfirmation
