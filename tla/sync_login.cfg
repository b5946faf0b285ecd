\* The same instance as sync.cfg, without fairness: the claim of a comment.
CONSTANTS
    c1 = c1
    c2 = c2
    None = None
    Own = {c1}
    Foreign = {c2}
    MaxPuts = 1
    MaxLeft = 0
SPECIFICATION Spec
CHECK_DEADLOCK FALSE

PROPERTY LoginShowsWorkspace
