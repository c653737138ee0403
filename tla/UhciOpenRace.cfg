\* As UhciPipe.cfg, but the first keyboard is used while the second is opened.
SPECIFICATION Spec
CONSTANTS
    Pipes = 2
    FrameCount = 2
    Intervals = {1, 2}
    KeysDuringOpen = TRUE
    MaxReports = 2
    MaxFaults = 0
INVARIANT HandedWasReceived
\* A machine without a keyboard that is polled has nothing left to do here.
CHECK_DEADLOCK FALSE
