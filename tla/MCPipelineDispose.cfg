\* Two messages: one that is being handled and one that waits.
SPECIFICATION Spec
CONSTANTS
    MaxMessages = 2
INVARIANTS
    TypeOK
    
PROPERTIES
    DisposeReturns
    
CHECK_DEADLOCK FALSE
