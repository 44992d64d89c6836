\* One disconnection with a write under way is enough.
SPECIFICATION Spec

CONSTANTS
    m1 = m1
    m2 = m2
    Messages   <- MCMessages
    Quit        = Quit
    ErrorLine   = ErrorLine
    NoMessage   = NoMessage
    MaxMessages = 4

PROPERTIES
    ErrorIsSent

CHECK_DEADLOCK FALSE
