\* One file, no faults: what test_rollback asserts.
CONSTANTS
    Paths = {p1}
    Contents = {d1, d2}
    RetentionLimits = {0}
    MaxVersion = 3
    MaxFaults = 0
SPECIFICATION Spec
INVARIANT RollbackIsRead
