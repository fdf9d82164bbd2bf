SPECIFICATION DialogueSpec
CONSTANTS
    Skew <- Skews
    MaxTime = 5
    MaxSyncs = 2
    Formats <- DeviceFormats
    Ports <- UdpPorts
INVARIANTS FirstSyncAccurate UnderstoodAsMeant EndsOnlyWhenClosed
PROPERTY ClockRulesKept
CHECK_DEADLOCK FALSE
