SPECIFICATION FairSpec
CONSTANTS
    Day = 5
    Specs <- MCSpecs
    Default <- MCDefault
    HostBridge = TRUE
    MaxPass = 2
    MaxSuspend = 2
    MaxCalls = 2
INVARIANTS
    TypeOK
    WakesAtNextSlot
    EnabledIsRunning
PROPERTIES
    NoDaySkipped
    KeepsPassing
