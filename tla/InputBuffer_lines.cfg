\* Lines of up to three bytes with their ending, reads of up to four bytes of
\* every kind: several lines in a read, lines over several reads.
SPECIFICATION FairSpec

CONSTANTS
    Text      = {"x"}
    CR        = "CR"
    LF        = "LF"
    NUL       = "NUL"
    MaxLength = 3
    MaxRead   = 4

INVARIANTS
    TypeOK
    WithinBuffer
    OneLateLine

PROPERTIES
    KeepsLines
    HandlerReturns

\* A connection that is closed has no read left.
CHECK_DEADLOCK FALSE
