\* Two cards and one document at a time on its way to the server.
\* Liveness, so no symmetry.
CONSTANTS
    c1 = c1
    c2 = c2
    None = None
    Own = {c1}
    Foreign = {c2}
    MaxPuts = 1
    MaxLeft = 0
SPECIFICATION FairSpec
CHECK_DEADLOCK FALSE
INVARIANTS TypeOK RunningCardKept UnsentKept
PROPERTIES NothingWrittenBeforeLoad FirstLoadEnds
