\* Three commands, SUBSCRIBE naming one or two channels, a message.
CONSTANTS
    Names <- TwoNames
    MaxCommands = 3
    MaxMessages = 1
SPECIFICATION Spec
CHECK_DEADLOCK FALSE
INVARIANTS
    
    
    SubsTracked
    
    NeverStranded
