\* Three commands, a channel, a message.
CONSTANTS
    Names <- OneName
    MaxCommands = 3
    MaxMessages = 1
SPECIFICATION Spec
CHECK_DEADLOCK FALSE
PROPERTIES
    RefusalDelivered
