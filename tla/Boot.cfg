SPECIFICATION BootSpec
CONSTANTS
    Maps <- MCMaps
    availablePages = 2
    PageSize = 2
    IndexValues = 3
    Responses <- MCResponses
    Attached <- MCAttached
    Buses = 2
    Devices = 32
    isr <- MCIsr
    TssAddress <- MCTss
    Junk <- MCJunk
    MaxDisturbed = 1
INVARIANTS
    MessagesReachSerial
    ControlKept
    EnumeratesPresent
PROPERTY BootCompletes
\* The kernel halts.
CHECK_DEADLOCK FALSE
