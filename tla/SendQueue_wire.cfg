\* Four messages of two kinds, one client, under the fairness of the event loop.
SPECIFICATION FairSpec

CONSTANTS
    m1 = m1
    m2 = m2
    Messages   <- MCMessages
    Quit        = Quit
    ErrorLine   = ErrorLine
    NoMessage   = NoMessage
    MaxMessages = 4

INVARIANTS
    TypeOK
    WireInOrder
    NothingStranded

PROPERTIES
    KeepsOrder
    WritesEnd
    Delivered

\* A client that is shut and has nothing left to write is done.
CHECK_DEADLOCK FALSE
