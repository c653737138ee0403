\* Two keyboards; reports are repeated and transfers fail twice in all.
SPECIFICATION FairSpec
CONSTANTS
    Pipes = 2
    FrameCount = 2
    Intervals = {1, 2}
    KeysDuringOpen = FALSE
    MaxReports = 2
    MaxFaults = 2
INVARIANTS PipeInv InOrder
PROPERTY EveryReportArrives
\* A machine without a keyboard that is polled has nothing left to do here.
CHECK_DEADLOCK FALSE
