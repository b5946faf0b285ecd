\* A safe tool and a destructive one, called together or alone in one round, and a
\* stream that loses up to two events.
CONSTANTS
    search = search
    read = read
    trash = trash
    Tools = {search, trash}
    Destructive = {trash}
    Transports = {"tauri", "sse"}
    Modes = {"task", "os"}
    MaxRounds = 1
    MaxSteps = 1
    MaxBatch = 2
    MaxLost = 2
SPECIFICATION Spec
CHECK_DEADLOCK FALSE
INVARIANTS TypeOK ToldOnce AnswerOnCard SubscriptionsReleased StepsClosed FirstApprovalOffered RunningHasRun
PROPERTIES RunEnds
