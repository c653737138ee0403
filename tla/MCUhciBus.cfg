SPECIFICATION Spec
CONSTANTS
    FrameCount = 8
    Ports = 2
    Controllers = 2
    MaxWait = 19
    SleepMs = 1
    MaxDevices = 128
    Configs <- MCConfigs
    Tails <- MCTails
    MaxAllocFails = 1
INVARIANTS ScheduleClean WildOnlyAfterFailure AddressesDistinct KeyboardPolled SlotsKept KeyboardConfigured
PROPERTIES ParseRight EnumerationEnds
CHECK_DEADLOCK FALSE
