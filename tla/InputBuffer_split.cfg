\* The comment on line endings in the remainder; see the finding.
SPECIFICATION Spec

CONSTANTS
    Text      = {"x"}
    CR        = "CR"
    LF        = "LF"
    NUL       = "NUL"
    MaxLength = 3
    MaxRead   = 4

INVARIANT RemainderHasNoEnding

\* A connection that is closed has no read left.
CHECK_DEADLOCK FALSE
