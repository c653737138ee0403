\* A machine with eight USB controllers, scanned again from the shell.
SPECIFICATION Spec
CONSTANTS
    MaxLen = 3
    Char = {"s"}
    Nul = "nul"
    Blank = "blank"
    Framebuffer = TRUE
    Rows = 3
    Cols = 3
    CurMod = 12
    Home = {0}
    Codes = {"s", "ENTER"}
    Messages <- MCMessages
    QueueSize = 2
    MaxEvents = 6
    ScanCmd <- MCScanCmd
    Answer <- MCAnswer
    Found = 8
    MaxControllers = 16
INVARIANT ControllersFit
