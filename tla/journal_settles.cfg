SPECIFICATION HostFairSpec
CONSTANTS
    MaxFault = 2
    MaxCrash = 0
PROPERTY JournalSettles
CHECK_DEADLOCK FALSE
