\* Two tasks, one destructive tool called up to twice each; the clock reaches the
\* timeout in two ticks.  Liveness, so no symmetry.
\* The system stops when every task is over.
CONSTANTS
    t1 = t1
    t2 = t2
    q1 = q1
    search = search
    trash = trash
    write = write
    Tasks <- MCTasks
    Intents <- MCIntents
    Safe <- MCSafe
    Destructive <- MCOneDestructive
    Timeout = 2
    MaxCalls = 2
    CacheEnabled = TRUE
SPECIFICATION FairSpec
CHECK_DEADLOCK FALSE
INVARIANTS TypeOK RunsOnlyWhatWasApproved VerdictIsFinal FreshEntryHasWaiter
PROPERTIES EveryRequestDecided
