\* Two destructive tools on the desktop, called in one round.
CONSTANTS
    search = search
    read = read
    trash = trash
    Tools = {read, trash}
    Destructive = {read, trash}
    Transports = {"tauri"}
    Modes = {"task"}
    MaxRounds = 1
    MaxSteps = 1
    MaxBatch = 2
    MaxLost = 0
SPECIFICATION Spec
CHECK_DEADLOCK FALSE
INVARIANT Offered
