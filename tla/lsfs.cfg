\* Two paths sharing contents, retention "all" and 1, one error or crash.
CONSTANTS
    Paths = {p1, p2}
    Contents = {d1, d2}
    RetentionLimits = {0, 1}
    MaxVersion = 3
    MaxFaults = 1
SPECIFICATION Spec
SYMMETRY Symmetry
INVARIANTS TypeOK NothingDangles RecordedContentReadable AcknowledgedWriteIsRead RetentionRespected
PROPERTIES KeepsHistory
